------------------------------- MODULE Server -------------------------------
(***************************************************************************)
(* The XRootD server, xrootd/server.go, with the handler that serves a     *)
(* file system, xrootd/fshandler.go: Serve accepting connections, one      *)
(* goroutine per connection reading requests, one goroutine per request    *)
(* carrying it out on the open files of the connection's session, and      *)
(* Shutdown.                                                               *)
(*                                                                         *)
(* A connection also names its session id.  A session object (srvSession)  *)
(* is named after the open that made it, because a request may go on using *)
(* one that is no longer in the handler's table, and a descriptor after    *)
(* the open it belongs to.  What files hold is not represented; requests   *)
(* that touch neither handles nor sessions are of kind "other".            *)
(***************************************************************************)
EXTENDS Integers

CONSTANTS
  Conns,       \* connections, each also a session id
  Reqs,        \* requests
  None,
  HandleSpace, \* the number of values of srvSession.next, 2^32
  Scenarios    \* the circumstances explored, records of Scenario

\* The circumstances of a behaviour, chosen once.
Scenario ==
  [reqs : SUBSET Reqs,        \* the requests clients send, and their kinds
   kinds : SUBSET {"open", "close", "use", "other"},
   started : BOOLEAN,         \* Serve is running before Shutdown may be called
   established : BOOLEAN,     \* connections are, too
   dropBusy : BOOLEAN,        \* a client may leave while its requests are handled
   canShutdown : BOOLEAN,     \* Shutdown is called
   canExpire : BOOLEAN]       \* the context given to it may end

ASSUME ServerAssumption ==
  /\ Conns \cap Reqs = {} /\ None \notin Conns \cup Reqs
  /\ HandleSpace \in Nat \ {0, 1}
  /\ Scenarios \subseteq Scenario

VARIABLES
  scn,        \* the circumstances of this behaviour
  listener,   \* "none", "up" (in s.listeners) or "closed"
  shut,       \* Shutdown: "no", "wait", "clean" or "expired"
  at,         \* where the goroutine of each connection is
  sock,       \* the connections whose socket the server has open
  peer,       \* the connections whose client is still there
  activeConn, \* Server.activeConn
  active,     \* the requests Server.active counts
  promised,   \* history: those it counted when Shutdown was called
  sessions,   \* [Conns -> Objects], fshandler.sessions, None if there is none
  ending,     \* [Conns -> Objects], the object CloseSession has taken out
  next,       \* [Reqs -> Nat], srvSession.next of each object
  handles,    \* srvSession.handles: records [g, h, fd], g the object
  fds,        \* [Reqs -> "none", "open" or "closed"], the descriptors
  req         \* [Reqs -> record], the requests

srvVars == <<listener, shut, activeConn, active, promised>>
connVars == <<at, sock, peer>>
fsVars == <<sessions, ending, next, handles, fds>>
stepVars == <<srvVars, connVars, fsVars, req>>
vars == <<scn, stepVars>>

Objects == Reqs \cup {None}
Handles == 0 .. HandleSpace - 1
Request ==
  [pc : {"new", "add", "start", "opened", "insert", "remove", "get", "work",
         "reply", "done"},
   kind : {"open", "close", "use", "other"}, c : Conns \cup {None}, g : Objects,
   h : Handles, fd : Reqs \cup {None}, res : {"none", "ok", "error", "sent", "lost"}]

TypeOK ==
  /\ scn \in Scenarios
  /\ listener \in {"none", "up", "closed"}
  /\ shut \in {"no", "wait", "clean", "expired"}
  /\ at \in [Conns -> {"new", "accepted", "handshake", "loop", "add", "teardown",
                       "closefiles", "forget", "gone"}]
  /\ sock \subseteq Conns /\ peer \subseteq Conns /\ activeConn \subseteq Conns
  /\ active \subseteq Reqs /\ promised \subseteq Reqs
  /\ sessions \in [Conns -> Objects]
  /\ ending \in [Conns -> Objects]
  /\ next \in [Reqs -> Handles]
  /\ handles \subseteq [g : Reqs, h : Handles \ {0}, fd : Reqs]
  /\ fds \in [Reqs -> {"none", "open", "closed"}]
  /\ req \in [Reqs -> Request]

NoRequest == [pc |-> "new", kind |-> "other", c |-> None, g |-> None, h |-> 0,
              fd |-> None, res |-> "none"]

Init ==
  /\ scn \in Scenarios
  /\ listener = IF scn.started THEN "up" ELSE "none"
  /\ shut = "no"
  /\ at = [c \in Conns |-> IF scn.established THEN "loop" ELSE "new"]
  /\ sock = IF scn.established THEN Conns ELSE {}
  /\ peer = Conns
  /\ activeConn = sock
  /\ active = {} /\ promised = {}
  /\ sessions = [c \in Conns |-> None]
  /\ ending = [c \in Conns |-> None]
  /\ next = [g \in Reqs |-> 0]
  /\ handles = {}
  /\ fds = [r \in Reqs |-> "none"]
  /\ req = [r \in Reqs |-> NoRequest]

-----------------------------------------------------------------------------
(* Serve, and the goroutine of a connection *)

\* Serve adds its listener; Shutdown holds s.mu until it returns.
Serve ==
  /\ listener = "none" /\ shut # "wait"
  /\ listener' = "up"
  /\ UNCHANGED <<shut, activeConn, active, promised, connVars, fsVars, req>>

Accept(c) ==
  /\ listener = "up" /\ at[c] = "new"
  /\ at' = [at EXCEPT ![c] = "accepted"]
  /\ sock' = sock \cup {c}
  /\ UNCHANGED <<srvVars, peer, fsVars, req>>

Register(c) ==
  /\ at[c] = "accepted"
  /\ activeConn' = activeConn \cup {c}
  /\ at' = [at EXCEPT ![c] = "handshake"]
  /\ UNCHANGED <<listener, shut, active, promised, sock, peer, fsVars, req>>

\* The bytes of the handshake are right, or the connection is aborted.
handleHandshake(c) ==
  /\ at[c] = "handshake"
  /\ \/ at' = [at EXCEPT ![c] = "loop"] /\ c \in sock \cap peer
     \/ at' = [at EXCEPT ![c] = "teardown"]
  /\ UNCHANGED <<srvVars, sock, peer, fsVars, req>>

\* ReadRequest returns a request, of any kind and naming any handle.
ReadRequest(c, r, k, h) ==
  /\ at[c] = "loop" /\ c \in sock \cap peer /\ req[r].pc = "new"
  /\ k \in {"open", "other"} => h = 0
  /\ at' = [at EXCEPT ![c] = "add"]
  /\ req' = [req EXCEPT ![r] = [NoRequest EXCEPT !.pc = "add", !.kind = k, !.c = c, !.h = h]]
  /\ UNCHANGED <<srvVars, sock, peer, fsVars>>

\* active.Add(1), and the goroutine is started.
Start(r) ==
  /\ req[r].pc = "add"
  /\ active' = active \cup {r}
  /\ at' = [at EXCEPT ![req[r].c] = "loop"]
  /\ req' = [req EXCEPT ![r] = [@ EXCEPT !.pc = "start"]]
  /\ UNCHANGED <<listener, shut, activeConn, promised, sock, peer, fsVars>>

\* Defect: only the client's leaving ends the loop.
ReadFailEOF(c) ==
  /\ at[c] = "loop" /\ c \notin peer
  /\ at' = [at EXCEPT ![c] = "teardown"]
  /\ UNCHANGED <<srvVars, sock, peer, fsVars, req>>

ReadFail(c) ==
  /\ at[c] = "loop" /\ c \notin sock \cap peer
  /\ at' = [at EXCEPT ![c] = "teardown"]
  /\ UNCHANGED <<srvVars, sock, peer, fsVars, req>>

\* CloseSession, the section under h.mu ...
CloseSession(c) ==
  /\ at[c] = "teardown"
  /\ IF sessions[c] = None
       THEN at' = [at EXCEPT ![c] = "forget"] /\ UNCHANGED <<sessions, ending>>
       ELSE /\ at' = [at EXCEPT ![c] = "closefiles"]
            /\ sessions' = [sessions EXCEPT ![c] = None]
            /\ ending' = [ending EXCEPT ![c] = sessions[c]]
  /\ UNCHANGED <<srvVars, sock, peer, next, handles, fds, req>>

\* Defect: the descriptors are left to the garbage collector.
CloseFilesNot(c) ==
  /\ at[c] = "closefiles"
  /\ at' = [at EXCEPT ![c] = "forget"]
  /\ UNCHANGED <<srvVars, sock, peer, fsVars, req>>

\* ... and the section under sess.mu, for the object that was in the table.
CloseFiles(c) ==
  /\ at[c] = "closefiles"
  /\ LET mine == {e.fd : e \in {e \in handles : e.g = ending[c]}} IN
     fds' = [r \in Reqs |-> IF r \in mine THEN "closed" ELSE fds[r]]
  /\ at' = [at EXCEPT ![c] = "forget"]
  /\ UNCHANGED <<srvVars, sock, peer, sessions, ending, next, handles, req>>

\* The other deferred calls: out of activeConn, and conn.Close.
Forget(c) ==
  /\ at[c] = "forget"
  /\ activeConn' = activeConn \ {c}
  /\ sock' = sock \ {c}
  /\ at' = [at EXCEPT ![c] = "gone"]
  /\ UNCHANGED <<listener, shut, active, promised, peer, fsVars, req>>

Busy(c) == at[c] = "add" \/ \E r \in active : req[r].c = c

\* The client leaves.
Drop(c) ==
  /\ c \in peer /\ at[c] # "new"
  /\ Busy(c) => scn.dropBusy
  /\ peer' = peer \ {c}
  /\ UNCHANGED <<srvVars, at, sock, fsVars, req>>

-----------------------------------------------------------------------------
(* Requests: handleRequest and the handler's methods *)

To(r, pc) == req' = [req EXCEPT ![r] = [@ EXCEPT !.pc = pc]]
Reply(r, res) == req' = [req EXCEPT ![r] = [@ EXCEPT !.pc = "reply", !.res = res]]

\* Requests that name no open file.
Other(r) ==
  /\ req[r].pc = "start" /\ req[r].kind = "other"
  /\ \E res \in {"ok", "error"} : Reply(r, res)
  /\ UNCHANGED <<srvVars, connVars, fsVars>>

\* Open: os.OpenFile ...
OpenFile(r) ==
  /\ req[r].pc = "start" /\ req[r].kind = "open"
  /\ \/ fds' = [fds EXCEPT ![r] = "open"] /\ To(r, "opened")
     \/ Reply(r, "error") /\ UNCHANGED fds
  /\ UNCHANGED <<srvVars, connVars, sessions, ending, next, handles>>

\* ... the session, made under h.mu if there is none ...
OpenSession(r) ==
  LET c == req[r].c  g == IF sessions[c] = None THEN r ELSE sessions[c] IN
  /\ req[r].pc = "opened"
  /\ sessions' = [sessions EXCEPT ![c] = g]
  /\ req' = [req EXCEPT ![r] = [@ EXCEPT !.pc = "insert", !.g = g]]
  /\ UNCHANGED <<srvVars, connVars, ending, next, handles, fds>>

\* Defect: the counter does not move on.
NextStays(n) == 1
Next1(n) == (n + 1) % HandleSpace

\* ... and, under sess.mu, the next handle.  The stat that some opens ask for
\* may fail.
OpenInsert(r) ==
  LET g == req[r].g  h == Next1(next[g]) IN
  /\ req[r].pc = "insert"
  /\ next' = [next EXCEPT ![g] = h]
  /\ \/ /\ h # 0
        /\ handles' = {e \in handles : <<e.g, e.h>> # <<g, h>>}
                      \cup {[g |-> g, h |-> h, fd |-> r]}
        /\ req' = [req EXCEPT ![r] = [@ EXCEPT !.pc = "reply", !.res = "ok", !.h = h]]
        /\ UNCHANGED fds
     \/ /\ fds' = [fds EXCEPT ![r] = "closed"]
        /\ Reply(r, "error")
        /\ UNCHANGED handles
  /\ UNCHANGED <<srvVars, connVars, sessions, ending>>

\* Close and getFile find the session under h.mu ...
FindSession(r) ==
  LET c == req[r].c IN
  /\ req[r].pc = "start" /\ req[r].kind \in {"close", "use"}
  /\ IF sessions[c] = None
       THEN Reply(r, "error")
       ELSE req' = [req EXCEPT ![r] =
                      [@ EXCEPT !.pc = IF req[r].kind = "close" THEN "remove" ELSE "get",
                                !.g = sessions[c]]]
  /\ UNCHANGED <<srvVars, connVars, fsVars>>

Named(r) == {e \in handles : e.g = req[r].g /\ e.h = req[r].h}

\* ... and under sess.mu Close takes the file out and closes it (an error if the
\* teardown of the session did so before) ...
Remove(r) ==
  /\ req[r].pc = "remove"
  /\ IF Named(r) = {}
       THEN Reply(r, "error") /\ UNCHANGED <<handles, fds>>
       ELSE LET fd == (CHOOSE e \in Named(r) : TRUE).fd IN
            /\ handles' = handles \ Named(r)
            /\ fds' = [fds EXCEPT ![fd] = "closed"]
            /\ Reply(r, IF fds[fd] = "open" THEN "ok" ELSE "error")
  /\ UNCHANGED <<srvVars, connVars, sessions, ending, next>>

\* ... while getFile returns it, and the work is done outside the locks.
GetFile(r) ==
  /\ req[r].pc = "get"
  /\ IF Named(r) = {}
       THEN Reply(r, "error")
       ELSE LET fd == (CHOOSE e \in Named(r) : TRUE).fd IN
            req' = [req EXCEPT ![r] = [@ EXCEPT !.pc = "work", !.fd = fd]]
  /\ UNCHANGED <<srvVars, connVars, fsVars>>

Work(r) ==
  /\ req[r].pc = "work"
  /\ \/ fds[req[r].fd] = "open" /\ Reply(r, "ok")
     \/ Reply(r, "error")
  /\ UNCHANGED <<srvVars, connVars, fsVars>>

\* WriteResponse, and active.Done.
WriteResponse(r) ==
  /\ req[r].pc = "reply"
  /\ LET res == IF req[r].c \in sock \cap peer THEN "sent" ELSE "lost" IN
     req' = [req EXCEPT ![r] = [@ EXCEPT !.pc = "done", !.res = res]]
  /\ active' = active \ {r}
  /\ UNCHANGED <<listener, shut, activeConn, promised, connVars, fsVars>>

-----------------------------------------------------------------------------
(* Shutdown *)

Shutdown ==
  /\ scn.canShutdown /\ shut = "no"
  /\ shut' = "wait"
  /\ promised' = active
  /\ listener' = IF listener = "up" THEN "closed" ELSE listener
  /\ UNCHANGED <<activeConn, active, connVars, fsVars, req>>

\* Defect: Shutdown does not wait for the requests.
WaitNot ==
  /\ shut = "wait"
  /\ shut' = "clean"
  /\ sock' = sock \ activeConn
  /\ UNCHANGED <<listener, activeConn, active, promised, at, peer, fsVars, req>>

\* Defect: the connections are left open.
WaitNoSweep ==
  /\ shut = "wait"
  /\ \/ active = {} /\ shut' = "clean"
     \/ scn.canExpire /\ shut' = "expired"
  /\ UNCHANGED <<listener, activeConn, active, promised, connVars, fsVars, req>>

\* The wait for the requests ends, or the context does; the connections are closed.
Wait ==
  /\ shut = "wait"
  /\ \/ active = {} /\ shut' = "clean"
     \/ scn.canExpire /\ shut' = "expired"
  /\ sock' = sock \ activeConn
  /\ UNCHANGED <<listener, activeConn, active, promised, at, peer, fsVars, req>>

-----------------------------------------------------------------------------
ConnStep(c) ==
  \/ Register(c) \/ ReadFail(c) \/ CloseSession(c) \/ CloseFiles(c) \/ Forget(c)

ReqStep(r) ==
  \/ Start(r) \/ Other(r) \/ OpenFile(r) \/ OpenSession(r) \/ OpenInsert(r)
  \/ FindSession(r) \/ Remove(r) \/ GetFile(r) \/ Work(r) \/ WriteResponse(r)

Step ==
  \/ Serve \/ Shutdown \/ Wait
  \/ \E c \in Conns :
       \/ Accept(c) \/ handleHandshake(c) \/ ConnStep(c) \/ Drop(c)
       \/ \E r \in scn.reqs, k \in scn.kinds, h \in Handles : ReadRequest(c, r, k, h)
  \/ \E r \in Reqs : ReqStep(r)

Next == Step /\ UNCHANGED scn

Spec == Init /\ [][Next]_vars

\* Goroutines are scheduled fairly, operations on files return, and a client
\* sends its handshake or leaves.
Fairness ==
  /\ \A c \in Conns : WF_stepVars(ConnStep(c)) /\ WF_stepVars(handleHandshake(c))
  /\ \A r \in Reqs : WF_stepVars(ReqStep(r))
  /\ SF_stepVars(Wait)

FairSpec == Spec /\ Fairness

-----------------------------------------------------------------------------
(***************************************************************************)
(* A Shutdown that returns without error has let every request it found    *)
(* being handled finish and answer, unless its client had left: "Shutdown  *)
(* waits on it so a client that asked for something before the server was  *)
(* told to stop still gets its answer".                                    *)
(***************************************************************************)
GraceKept ==
  shut = "clean" => \A r \in promised :
    req[r].pc = "done" /\ (req[r].res = "sent" \/ req[r].c \notin peer)

(***************************************************************************)
(* Closing a session closes what it left open: when a connection is gone   *)
(* and none of its requests is running, none of its descriptors is open,   *)
(* provided connections end between requests: neither their client's       *)
(* leaving nor Shutdown, which may close a connection that has just read a *)
(* request, comes in the middle of one (the README says what happens to a  *)
(* file being opened then).                                                *)
(***************************************************************************)
NoDescriptorLeak ==
  ~scn.dropBusy /\ ~scn.canShutdown =>
    \A r \in Reqs :
      LET c == req[r].c IN
      fds[r] = "open" /\ at[c] = "gone" => \E q \in Reqs : req[q].c = c /\ req[q].pc # "done"

(***************************************************************************)
(* srvSession.next: "a counter cannot collide with a live handle".  Two    *)
(* descriptors open in one session never share a handle, and each open     *)
(* descriptor whose open succeeded can be reached by its handle.           *)
(***************************************************************************)
HandlesDistinct ==
  \A r \in Reqs :
    req[r].pc = "done" /\ req[r].kind = "open" /\ fds[r] = "open" =>
      \E e \in handles : e.fd = r /\ e.g = req[r].g /\ e.h = req[r].h

(***************************************************************************)
(* Shutdown "closes all listeners and active connections": once it has     *)
(* returned, no connection is left that a client could go on using.        *)
(***************************************************************************)
ConnectionsClosed ==
  shut \in {"clean", "expired"} =>
    \A c \in sock : at[c] \notin {"accepted", "handshake", "loop", "add"}

(***************************************************************************)
(* Shutdown returns and every connection's goroutine then ends, although   *)
(* requests go on, fail and answer while it waits.                         *)
(***************************************************************************)
ShutdownEnds ==
  shut = "wait" ~> shut # "wait" /\ \A c \in Conns : at[c] = "gone"

=============================================================================
