------------------------------ MODULE Session ------------------------------
(***************************************************************************)
(* One session of the XRootD client, xrootd/session.go: the goroutines     *)
(* inside Send, the goroutines of consume reading the session's            *)
(* connections, those that wait out a kXR_wait, and Close, over the stream *)
(* multiplexer that module Mux describes in detail.                        *)
(*                                                                         *)
(* A request is a goroutine inside Send and also names the stream it has   *)
(* claimed.  Response frames carry no bytes: a frame is one of the kinds   *)
(* consume tells apart, and the data accumulated is the number of parts.   *)
(* "sofar" is kXR_oksofar and a partial kXR_status, "ok" is every frame    *)
(* that ends a response with data.                                         *)
(***************************************************************************)
EXTENDS Integers, Sequences, FiniteSets

CONSTANTS
  Reqs,        \* the requests
  Main,        \* the connection requests are written to
  Subs,        \* the data connections bound to the session
  User,        \* the goroutine that may call Close
  None,
  Scenarios,   \* the circumstances explored, records of Scenario
  MaxParts,    \* bound: partial responses to one request
  MaxWaits     \* bound: kXR_wait responses to one request

Conns == Subs \cup {Main}
Actors == Conns \cup Reqs \cup {User}

Final == {"ok", "error", "redirect"}
AllKinds == Final \cup {"sofar", "wait"}

\* The circumstances of a behaviour, chosen once.
Scenario ==
  [subs : SUBSET Subs,         \* the data connections the session has
   initial : BOOLEAN,          \* it is the one the client was created against
   canClose : BOOLEAN,         \* User calls Close
   canLose : BOOLEAN,          \* connections may be lost
   canTimeout : BOOLEAN,       \* the client has a stream timeout
   writeFails : BOOLEAN,       \* a write to a lost connection may report it
   ending : SUBSET Reqs,       \* requests whose context may end
   opener : SUBSET Reqs,       \* those (at most one) in whose context Main was opened
   subOpener : SUBSET Reqs,    \* likewise for the data connections
   limited : SUBSET Reqs,      \* requests that bound the length of their response
   kinds : SUBSET AllKinds,    \* the kinds of frame the server answers with
   wrapped : SUBSET BOOLEAN]   \* whether frames may come wrapped in a kXR_attn

ASSUME SessionAssumption ==
  /\ Main \notin Subs \cup Reqs \cup {User, None}
  /\ Subs \cap (Reqs \cup {User, None}) = {}
  /\ User \notin Reqs \cup {None} /\ None \notin Reqs
  /\ Scenarios \subseteq Scenario
  /\ MaxParts \in Nat /\ MaxWaits \in Nat

VARIABLES
  scn,        \* the circumstances of this behaviour
  pc,         \* where each request is inside Send
  path,       \* the connection the answer to each request is sent on
  got,        \* parts of its response each request has accumulated
  res,        \* what Send returned
  ended,      \* the requests whose context has ended
  entry,      \* the stream of each request in the mux
  quit,       \* the mux is closed
  pending,    \* cliSession.requests, for each connection
  cancelled,  \* the connections whose session had its cancel called
  conn,       \* "up", "lost" (the peer is gone) or "down" (closed by us)
  wire,       \* frames sent by the server and not yet read
  srv,        \* what the server last did about each request
  sent,       \* parts of each response the server has sent
  waits,      \* kXR_wait responses to each request
  act         \* the goroutines that deliver responses

callVars == <<pc, path, got, res, ended>>
sessVars == <<entry, quit, pending, cancelled>>
srvVars == <<srv, sent, waits>>
stepVars == <<callVars, sessVars, conn, wire, srvVars, act>>
vars == <<scn, stepVars>>

Bound == scn.subs \cup {Main}

Frames == [on : Reqs, kind : AllKinds, async : BOOLEAN]

(***************************************************************************)
(* A delivering goroutine: the reader of a connection (named after it),    *)
(* the goroutine waiting out a kXR_wait (named after its request), or the  *)
(* user's Close.  job is what it does: "frame" and "attn" dispatch a       *)
(* response, "fail" and "redir" are the two branches of handleReadError,   *)
(* "close" is Mux.Close within Close, "retry" a re-issue that failed.      *)
(***************************************************************************)
Act == [at : {"idle", "timer", "top", "read", "select", "unclaim", "drain",
              "delete", "next", "gone"},
        job : {"none", "frame", "attn", "fail", "redir", "close", "retry"},
        on : Reqs \cup {None},
        msg : Final \cup {"sofar", "none"},
        todo : SUBSET Reqs]

Busy(l, job, r, m, todo) == [at |-> l, job |-> job, on |-> r, msg |-> m, todo |-> todo]
At(l) == Busy(l, "none", None, "none", {})

TypeOK ==
  /\ scn \in Scenarios
  /\ pc \in [Reqs -> {"new", "claimed", "write", "wait", "ret"}]
  /\ path \in [Reqs -> Conns]
  /\ got \in [Reqs -> 0 .. MaxParts + 1]
  /\ res \in [Reqs -> Final \cup {"none"}]
  /\ ended \subseteq scn.ending
  /\ entry \in [Reqs -> {"free", "claimed", "closing", "closed"}]
  /\ quit \in BOOLEAN
  /\ pending \in [Conns -> SUBSET Reqs]
  /\ cancelled \subseteq Conns
  /\ conn \in [Conns -> {"up", "lost", "down"}]
  /\ wire \in [Conns -> Seq(Frames)]
  /\ srv \in [Reqs -> Final \cup {"new", "asked", "told"}]
  /\ sent \in [Reqs -> 0 .. MaxParts + 1]
  /\ waits \in [Reqs -> 0 .. MaxWaits]
  /\ act \in [Actors -> Act]

Init ==
  /\ scn \in Scenarios
  /\ pc = [r \in Reqs |-> "new"]
  /\ path = [r \in Reqs |-> Main]
  /\ got = [r \in Reqs |-> 0]
  /\ res = [r \in Reqs |-> "none"]
  /\ ended = {}
  /\ entry = [r \in Reqs |-> "free"]
  /\ quit = FALSE
  /\ pending = [c \in Conns |-> {}]
  /\ cancelled = {}
  /\ conn = [c \in Conns |-> IF c \in Bound THEN "up" ELSE "down"]
  /\ wire = [c \in Conns |-> <<>>]
  /\ srv = [r \in Reqs |-> "new"]
  /\ sent = [r \in Reqs |-> 0]
  /\ waits = [r \in Reqs |-> 0]
  /\ act = [a \in Actors |-> At(CASE a \in Bound -> "top"
                                    [] a \in Conns \ Bound -> "gone"
                                    [] OTHER -> "idle")]

\* sess.ctx is done: cancel was called, or the context it derives from ended.
CtxDone(c) == c \in cancelled \/ ended \cap (IF c = Main THEN scn.opener ELSE scn.subOpener) # {}

\* sess.mu of the main session is held for reading across handleReadError's loop.
RLocked == act[Main].job = "redir" /\ act[Main].at \in {"select", "next"}

Move(a, l) == act' = [act EXCEPT ![a].at = l]

-----------------------------------------------------------------------------
(* Send and send: the request's own goroutine. *)

Return(r, result) ==
  /\ pc' = [pc EXCEPT ![r] = "ret"]
  /\ res' = [res EXCEPT ![r] = result]
  /\ UNCHANGED <<path, ended>>

\* The data paths nobody uses (freeSubs), and the connection itself.
FreePaths ==
  {p \in Bound : p = Main \/ \A r \in Reqs : path[r] = p => pc[r] \in {"new", "ret"}}

Claim(r, p) ==
  /\ pc[r] = "new"
  /\ IF quit
       THEN /\ Return(r, "error")
            /\ UNCHANGED <<got, sessVars>>
       ELSE /\ entry' = [entry EXCEPT ![r] = "claimed"]
            /\ pc' = [pc EXCEPT ![r] = "claimed"]
            /\ path' = [path EXCEPT ![r] = p]
            /\ UNCHANGED <<got, res, ended, quit, pending, cancelled>>
  /\ UNCHANGED <<conn, wire, srvVars, act>>

Register(r) ==
  /\ pc[r] = "claimed" /\ ~RLocked
  /\ pending' = [pending EXCEPT ![Main] = @ \cup {r}]
  /\ pc' = [pc EXCEPT ![r] = "write"]
  /\ UNCHANGED <<path, got, res, ended, entry, quit, cancelled, conn, wire, srvVars, act>>

\* What a write of r may report, and what then reaches the server.
WriteMayFail(r) ==
  \/ \E c \in {Main, path[r]} : conn[c] = "down"
  \/ scn.writeFails /\ \E c \in {Main, path[r]} : conn[c] = "lost"
WriteMaySucceed(r) == conn[Main] # "down"
Asked(r) == srv' = [srv EXCEPT ![r] = IF conn[Main] = "up" THEN "asked" ELSE @]

writeRequest(r) ==
  /\ pc[r] = "write"
  /\ \/ /\ WriteMaySucceed(r)
        /\ Asked(r)
        /\ pc' = [pc EXCEPT ![r] = "wait"]
        /\ UNCHANGED <<path, res, ended>>
     \/ /\ WriteMayFail(r)
        /\ Return(r, "error")
        /\ UNCHANGED srv
  /\ UNCHANGED <<got, sessVars, conn, wire, sent, waits, act>>

\* The caller takes message m off its channel.
Receive(r, m) ==
  \/ /\ m \in {"sofar", "ok"}
     /\ got' = [got EXCEPT ![r] = @ + 1]
     /\ UNCHANGED <<pc, path, res, ended>>
  \/ /\ m \in {"sofar", "ok"} /\ r \in scn.limited       \* exceeds maxBytes
     /\ Return(r, "error")
     /\ UNCHANGED got
  \/ /\ m \in {"error", "redirect"}
     /\ Return(r, m)
     /\ UNCHANGED got

\* The channel is closed: the response is complete.
RecvClosed(r) ==
  /\ pc[r] = "wait" /\ entry[r] = "closed"
  /\ Return(r, "ok")
  /\ UNCHANGED <<got, sessVars, conn, wire, srvVars, act>>

CtxEnd(r) ==
  /\ r \in scn.ending \ ended
  /\ ended' = ended \cup {r}
  /\ UNCHANGED <<pc, path, got, res, sessVars, conn, wire, srvVars, act>>

\* case <-ctx.Done()
GiveUp(r) ==
  /\ pc[r] = "wait" /\ r \in ended
  /\ Return(r, "error")
  /\ UNCHANGED <<got, sessVars, conn, wire, srvVars, act>>

-----------------------------------------------------------------------------
(* SendData, Unclaim and cleanupRequest, as any goroutine runs them. *)

\* SendData up to its select; missing is where a goes when there is no waiter.
SendData(a, job, r, m, todo, missing) ==
  act' = [act EXCEPT ![a] =
    Busy(IF entry[r] = "claimed" THEN "select" ELSE missing, job, r, m, todo)]

\* Defect: the stream is retired after a partial response.
SentRetires(a) ==
  CASE act[a].job \in {"fail", "redir"} -> "next"
    [] OTHER -> "unclaim"

\* Where a goes once SendData has returned.
Sent(a) ==
  CASE act[a].job \in {"fail", "redir"} -> "next"
    [] act[a].msg = "sofar" -> "top"
    [] OTHER -> "unclaim"

SelectSend(a) ==
  /\ act[a].at = "select" /\ pc[act[a].on] = "wait"
  /\ Receive(act[a].on, act[a].msg)
  /\ Move(a, Sent(a))
  /\ UNCHANGED <<sessVars, conn, wire, srvVars>>

SelectReleased(a) ==
  /\ act[a].at = "select"
  /\ entry[act[a].on] = "closing" \/ quit
  /\ Move(a, Sent(a))
  /\ UNCHANGED <<callVars, sessVars, conn, wire, srvVars>>

Unclaimed(a) == IF act[a].job = "close" THEN "next" ELSE "delete"

\* Unclaim: take the entry out of the map and close done ...
Unclaim(a) ==
  /\ act[a].at = "unclaim"
  /\ IF entry[act[a].on] = "claimed"
       THEN entry' = [entry EXCEPT ![act[a].on] = "closing"] /\ Move(a, "drain")
       ELSE entry' = entry /\ Move(a, Unclaimed(a))
  /\ UNCHANGED <<callVars, quit, pending, cancelled, conn, wire, srvVars>>

\* ... wait for the deliveries in flight, and close the channel.
Drain(a) ==
  /\ act[a].at = "drain"
  /\ \A b \in Actors : ~(act[b].at = "select" /\ act[b].on = act[a].on)
  /\ entry' = [entry EXCEPT ![act[a].on] = "closed"]
  /\ Move(a, Unclaimed(a))
  /\ UNCHANGED <<callVars, quit, pending, cancelled, conn, wire, srvVars>>

\* Defect: the request stays in the table.
DeleteForgets(a) ==
  /\ act[a].at = "delete"
  /\ act' = [act EXCEPT ![a] = At(IF a \in Conns THEN "top" ELSE "idle")]
  /\ UNCHANGED <<callVars, sessVars, conn, wire, srvVars>>

\* The second half of cleanupRequest.
Delete(a) ==
  LET c == IF a \in Conns THEN a ELSE Main IN
  /\ act[a].at = "delete"
  /\ c = Main => ~RLocked
  /\ pending' = [pending EXCEPT ![c] = @ \ {act[a].on}]
  /\ act' = [act EXCEPT ![a] = At(IF a \in Conns THEN "top" ELSE "idle")]
  /\ UNCHANGED <<callVars, entry, quit, cancelled, conn, wire, srvVars>>

-----------------------------------------------------------------------------
(* consume *)

ReaderTop(c) ==
  /\ act[c].at = "top"
  /\ act' = [act EXCEPT ![c] = At(IF CtxDone(c) THEN "gone" ELSE "read")]
  /\ UNCHANGED <<callVars, sessVars, conn, wire, srvVars>>

\* A frame is read and dispatched: handleWaitResponse, handleAttn, or SendData.
Dispatch(c) ==
  /\ act[c].at = "read" /\ wire[c] # <<>> /\ conn[c] # "down"
  /\ LET f == Head(wire[c]) IN
     \/ /\ f.kind = "wait" /\ f.on \in pending[c]
        /\ act' = [act EXCEPT ![c] = At("top"), ![f.on] = At("timer")]
     \/ /\ f.kind = "wait" /\ f.on \notin pending[c]
        /\ SendData(c, "frame", f.on, "error", {}, "top")
     \/ /\ f.kind # "wait" /\ ~f.async
        /\ SendData(c, "frame", f.on, f.kind, {}, "top")
     \/ /\ f.async
        /\ SendData(c, "attn", f.on, f.kind, {}, IF f.kind = "sofar" THEN "top" ELSE "unclaim")
  /\ wire' = [wire EXCEPT ![c] = Tail(@)]
  /\ UNCHANGED <<callVars, sessVars, conn, srvVars>>

\* handleReadError, up to its loop over the pending requests.  A data connection
\* has none of its own: it is closed, and with it nothing else.
handleReadError(c) ==
  IF c = Main
    THEN /\ act' = [act EXCEPT ![c] =
              Busy("next", IF scn.initial THEN "fail" ELSE "redir", None, "none", pending[c])]
         /\ UNCHANGED <<conn, cancelled>>
    ELSE /\ cancelled' = cancelled \cup {c}
         /\ conn' = [conn EXCEPT ![c] = "down"]
         /\ act' = [act EXCEPT ![c] = At("gone")]

ReadFail(c) ==
  /\ act[c].at = "read"
  /\ conn[c] = "down" \/ (conn[c] = "lost" /\ wire[c] = <<>>)
  /\ IF CtxDone(c)
       THEN act' = [act EXCEPT ![c] = At("gone")] /\ UNCHANGED <<conn, cancelled>>
       ELSE handleReadError(c)
  /\ UNCHANGED <<callVars, entry, quit, pending, wire, srvVars>>

\* Defect: silence never counts against a request.
ReadTimeoutIdle(c) ==
  /\ scn.canTimeout
  /\ act[c].at = "read" /\ wire[c] = <<>> /\ conn[c] # "down"
  /\ CtxDone(c)
  /\ act' = [act EXCEPT ![c] = At("gone")]
  /\ UNCHANGED <<callVars, sessVars, conn, wire, srvVars>>

\* The read deadline passes.  With nothing pending the read is simply resumed.
ReadTimeout(c) ==
  /\ scn.canTimeout
  /\ act[c].at = "read" /\ wire[c] = <<>> /\ conn[c] # "down"
  /\ IF CtxDone(c)
       THEN act' = [act EXCEPT ![c] = At("gone")] /\ UNCHANGED <<conn, cancelled>>
       ELSE pending[c] # {} /\ handleReadError(c)
  /\ UNCHANGED <<callVars, entry, quit, pending, wire, srvVars>>

-----------------------------------------------------------------------------
(* Close, the loops of handleReadError and Mux.Close, and kXR_wait. *)

\* Close: cancel, close the data connections, then Mux.Close takes its snapshot
\* (a second Mux.Close returns at once).
Close(a) ==
  /\ cancelled' = Conns
  /\ conn' = [c \in Conns |-> IF c = Main THEN conn[c] ELSE "down"]
  /\ quit' = TRUE
  /\ act' = [act EXCEPT ![a] =
       Busy("next", "close", None, "none",
            IF quit THEN {} ELSE {r \in Reqs : entry[r] = "claimed"})]
  /\ UNCHANGED <<callVars, entry, pending, wire, srvVars>>

UserClose == scn.canClose /\ act[User].at = "idle" /\ Close(User)

LoopSend(a) ==
  /\ act[a].at = "next"
  /\ \E r \in act[a].todo :
       SendData(a, act[a].job, r, IF act[a].job = "redir" THEN "redirect" ELSE "error",
                act[a].todo \ {r}, IF act[a].job = "close" THEN "unclaim" ELSE "next")
  /\ UNCHANGED <<callVars, sessVars, conn, wire, srvVars>>

\* Defect: handleReadError returns without closing the session.
LoopEndOpen(a) ==
  /\ act[a].at = "next" /\ act[a].todo = {}
  /\ conn' = [conn EXCEPT ![Main] = IF act[a].job = "close" THEN "down" ELSE @]
  /\ act' = [act EXCEPT ![a] = At("gone")]
  /\ UNCHANGED <<callVars, sessVars, wire, srvVars>>

LoopEnd(a) ==
  /\ act[a].at = "next" /\ act[a].todo = {}
  /\ IF act[a].job = "close"
       THEN /\ conn' = [conn EXCEPT ![Main] = "down"]
            /\ act' = [act EXCEPT ![a] = At("gone")]
            /\ UNCHANGED <<callVars, sessVars, wire, srvVars>>
       ELSE Close(a)

\* The goroutine of handleWaitResponse: the session's end stops it, its timer
\* has it re-issue the request.
WaitStop(r) ==
  /\ act[r].at = "timer" /\ CtxDone(Main)
  /\ act' = [act EXCEPT ![r] = At("idle")]
  /\ UNCHANGED <<callVars, sessVars, conn, wire, srvVars>>

WaitRetry(r) ==
  /\ act[r].at = "timer"
  /\ \/ /\ WriteMaySucceed(r)
        /\ Asked(r)
        /\ act' = [act EXCEPT ![r] = At("idle")]
     \/ /\ WriteMayFail(r)
        /\ SendData(r, "retry", r, "error", {}, "unclaim")
        /\ UNCHANGED srv
  /\ UNCHANGED <<callVars, sessVars, conn, wire, sent, waits>>

-----------------------------------------------------------------------------
(* The server and the network (external). *)

Answer(r, k, async) ==
  /\ srv[r] = "asked" /\ conn[path[r]] = "up"
  /\ k = "sofar" => sent[r] < MaxParts
  /\ k = "wait" => waits[r] < MaxWaits /\ ~async
  /\ srv' = [srv EXCEPT ![r] = CASE k = "sofar" -> @ [] k = "wait" -> "told" [] OTHER -> k]
  /\ sent' = [sent EXCEPT ![r] = IF k \in {"sofar", "ok"} THEN @ + 1 ELSE @]
  /\ waits' = [waits EXCEPT ![r] = IF k = "wait" THEN @ + 1 ELSE @]
  /\ wire' = [wire EXCEPT ![path[r]] = Append(@, [on |-> r, kind |-> k, async |-> async])]
  /\ UNCHANGED <<callVars, sessVars, conn, act>>

\* The connection is lost, with or without the frames that were on their way.
Lose(c) ==
  /\ scn.canLose /\ conn[c] = "up"
  /\ conn' = [conn EXCEPT ![c] = "lost"]
  /\ \/ UNCHANGED wire
     \/ wire' = [wire EXCEPT ![c] = <<>>]
  /\ UNCHANGED <<callVars, sessVars, srvVars, act>>

-----------------------------------------------------------------------------
CallerStep(r) == Register(r) \/ writeRequest(r) \/ RecvClosed(r) \/ GiveUp(r)

ActorStep(a) ==
  \/ SelectSend(a) \/ SelectReleased(a) \/ Unclaim(a) \/ Drain(a) \/ Delete(a)
  \/ LoopSend(a) \/ LoopEnd(a)

ReaderStep(c) == ReaderTop(c) \/ Dispatch(c) \/ ReadFail(c)
WaitStep(r) == WaitStop(r) \/ WaitRetry(r)
ServerStep(r) == \E k \in scn.kinds, async \in scn.wrapped : Answer(r, k, async)

Step ==
  \/ \E r \in Reqs : \/ \E p \in FreePaths : Claim(r, p)
                     \/ CallerStep(r) \/ CtxEnd(r) \/ WaitStep(r) \/ ServerStep(r)
  \/ \E a \in Actors : ActorStep(a)
  \/ \E c \in Conns : ReaderStep(c) \/ ReadTimeout(c) \/ Lose(c)
  \/ UserClose

Next == Step /\ UNCHANGED scn

Spec == Init /\ [][Next]_vars

\* Goroutines are scheduled fairly and timers fire.  Starting a request, ending
\* a context, losing a connection and calling Close are not required.  A server
\* answers what it was asked while it can be reached, except that where there is
\* a stream timeout it may also fall silent.
Unsilenced(r) == ~scn.canTimeout /\ ServerStep(r)

Fairness ==
  /\ \A r \in Reqs : WF_stepVars(CallerStep(r)) /\ WF_stepVars(WaitStep(r)) /\ WF_stepVars(Unsilenced(r))
  /\ \A a \in Actors : WF_stepVars(ActorStep(a))
  /\ \A c \in Conns : WF_stepVars(ReaderStep(c)) /\ WF_stepVars(ReadTimeout(c))

FairSpec == Spec /\ Fairness

-----------------------------------------------------------------------------
(***************************************************************************)
(* A request that succeeds has the whole of the response, in the number of *)
(* its parts, and the server did end that response: no interleaving of the *)
(* readers, kXR_wait, asynchronous responses or abandoned streams makes    *)
(* send take a truncated response for a complete one.                      *)
(***************************************************************************)
SuccessIsComplete ==
  \A r \in Reqs : res[r] = "ok" => srv[r] = "ok" /\ got[r] = sent[r]

(***************************************************************************)
(* consume: "Whatever is still waiting is released by the close itself":   *)
(* once the reader has returned and no Close is under way, nobody waits on *)
(* a stream that is still claimed.                                         *)
(***************************************************************************)
NoOrphan ==
  act[Main].at = "gone" /\ act[User].at \in {"idle", "gone"} =>
    \A r \in Reqs : pc[r] = "wait" => entry[r] # "claimed"

(***************************************************************************)
(* WithStreamTimeout: "An idle connection is not affected."  A session is  *)
(* only torn down by silence while a request still waits for its answer.   *)
(***************************************************************************)
IdleKept ==
  [][\A c \in Conns :
       act[c].at = "read" /\ conn[c] = "up" /\ act'[c].job \in {"fail", "redir"} =>
         \E r \in Reqs : pc[r] \in {"write", "wait"}]_vars

(***************************************************************************)
(* Every request returns, whether its answer arrives, the connection is    *)
(* lost, the server falls silent or the session is closed: handleReadError *)
(* and Close between them leave no caller of Send behind.                  *)
(***************************************************************************)
EveryRequestReturns == \A r \in Reqs : pc[r] # "new" ~> pc[r] = "ret"

=============================================================================
