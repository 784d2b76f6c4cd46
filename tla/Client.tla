------------------------------- MODULE Client -------------------------------
(***************************************************************************)
(* The XRootD client above its sessions: the table of sessions and the     *)
(* lock that guards it, reconnection, redirects, and the open files whose  *)
(* handles belong to the server that issued them (xrootd/client.go and     *)
(* xrootd/file.go).                                                        *)
(*                                                                         *)
(* A session is a number, given out in the order of dialling.  What goes   *)
(* on inside one is module Session: here its end is one step that tells    *)
(* every waiting caller.  A section of code under client.mu that cannot    *)
(* block is one action; getSession holds client.mu while it dials and logs *)
(* in, so there it is a variable.  Servers are external.                   *)
(***************************************************************************)
EXTENDS Integers, Sequences, FiniteSets

CONSTANTS
  Ops,         \* goroutines that run operations
  Files,       \* the files they open and use
  Addrs,       \* server addresses, the session ids
  First,       \* initialSessionID, the address the client was created against
  FirstFull,   \* the same address with its port, First itself if it has one
  None,
  Scenarios,   \* the circumstances explored, records of Scenario
  MaxSess,     \* bound: sessions ever dialled
  MaxOps       \* bound: operations each goroutine runs

\* The circumstances of a behaviour, chosen once.
Scenario ==
  [ops : SUBSET Ops,           \* the goroutines there are
   files : SUBSET Files,
   addrs : SUBSET Addrs,       \* the servers requests may be redirected to
   maxRedir : Nat,             \* maxRedirections
   canLose : BOOLEAN,          \* logged-in connections may be lost
   canLoseLogin : BOOLEAN,     \* connections may be lost during the login
   canClose : BOOLEAN,         \* Client.Close is called
   ending : SUBSET Ops,        \* operations whose context may end
   sess : 1 .. MaxSess,        \* bound: sessions dialled
   left : 0 .. MaxOps]         \* bound: operations each goroutine runs

ASSUME ClientAssumption ==
  /\ {First, FirstFull} \subseteq Addrs
  /\ None \notin Ops \cup Files \cup Addrs
  /\ MaxSess \in Nat \ {0} /\ MaxOps \in Nat
  /\ \A s \in Scenarios : s \in Scenario

Sess == 1 .. MaxSess

\* parseAddr adds the default port to an address that has none.
parseAddr(a) == IF a = First THEN FirstFull ELSE a

VARIABLES
  scn,       \* the circumstances of this behaviour
  mu,        \* the goroutine holding client.mu for writing, or None
  sessions,  \* the table, by address as given: [Addrs -> Sess or 0]
  dialled,   \* number of sessions created so far
  addr,      \* [Sess -> Addrs], cliSession.sessionID: the address with its port
  st,        \* [Sess -> "none", "up", "lost" (not noticed yet) or "dead"]
  handles,   \* [Sess -> Seq(Files)], the files the server has open for it
  closed,    \* Client.Close has returned
  file,      \* [Files -> what a file object holds]
  op         \* [Ops -> the state of the operation under way]

stepVars == <<mu, sessions, dialled, addr, st, handles, closed, file, op>>
vars == <<scn, stepVars>>

(***************************************************************************)
(* A file object: its handle and sessionID, or no object yet.              *)
(* An operation: req is the request to send ("open", "use" or, while a     *)
(* redirected use re-opens its file, "reopen"); sid and on are the session *)
(* id and the session it is at, keep and home the session and session id a *)
(* redirected use goes back to, h its handle, cnt and sub the redirections *)
(* it and its re-open may still follow; ran is what the server did with    *)
(* the request as last sent, times how often the use was carried out, and  *)
(* did on which file.                                                      *)
(***************************************************************************)
FileState == [state : {"none", "opening", "open"}, h : Nat, sid : Addrs]
OpState ==
  [pc : {"idle", "begin", "get", "lock", "dial", "login", "send", "wait", "update"},
   req : {"open", "use", "reopen"}, moved : BOOLEAN,
   f : Files \cup {None}, sid : Addrs, on : Sess \cup {0}, keep : Sess \cup {0},
   home : Addrs, h : Nat, cnt : 0 .. scn.maxRedir, sub : 0 .. scn.maxRedir,
   ran : {"no", "yes", "refused"}, times : Nat, did : Files \cup {None},
   ended : BOOLEAN, left : 0 .. MaxOps]

TypeOK ==
  /\ scn \in Scenarios
  /\ mu \in Ops \cup {None}
  /\ sessions \in [Addrs -> Sess \cup {0}]
  /\ dialled \in 0 .. MaxSess
  /\ addr \in [Sess -> Addrs]
  /\ st \in [Sess -> {"none", "up", "lost", "dead"}]
  /\ handles \in [Sess -> Seq(Files)]
  /\ closed \in BOOLEAN
  /\ file \in [Files -> FileState]
  /\ op \in [Ops -> OpState]

Idle(left) ==
  [pc |-> "idle", req |-> "open", moved |-> FALSE, f |-> None, sid |-> First, on |-> 0,
   keep |-> 0, home |-> First, h |-> 0, cnt |-> 0, sub |-> 0, ran |-> "no",
   times |-> 0, did |-> None, ended |-> FALSE, left |-> left]

\* NewClient has connected to First.
Init ==
  /\ scn \in Scenarios
  /\ mu = None
  /\ sessions = [a \in Addrs |-> IF a = First THEN 1 ELSE 0]
  /\ dialled = 1
  /\ addr = [s \in Sess |-> FirstFull]
  /\ st = [s \in Sess |-> IF s = 1 THEN "up" ELSE "none"]
  /\ handles = [s \in Sess |-> <<>>]
  /\ closed = FALSE
  /\ file = [f \in Files |-> [state |-> "none", h |-> 0, sid |-> First]]
  /\ op = [o \in Ops |-> Idle(scn.left)]

Set(o, rec) == op' = [op EXCEPT ![o] = rec]

\* The operation returns an error; an Open that fails leaves no file object.
Unopened(o) ==
  file' = IF op[o].req = "open"
            THEN [file EXCEPT ![op[o].f].state = "none"] ELSE file
Fail(o) ==
  /\ Set(o, Idle(op[o].left))
  /\ Unopened(o)

-----------------------------------------------------------------------------
(* Starting an operation on a file: FileSystem.Open, and the methods of an  *)
(* open file, which read the handle and the session id one after the other. *)

Open(o, f) ==
  /\ op[o].pc = "idle" /\ op[o].left > 0 /\ ~closed
  /\ file[f].state = "none"
  /\ file' = [file EXCEPT ![f].state = "opening"]
  /\ Set(o, [Idle(op[o].left - 1) EXCEPT !.pc = "get", !.f = f, !.cnt = scn.maxRedir])
  /\ UNCHANGED <<mu, sessions, dialled, addr, st, handles, closed>>

ReadHandle(o, f) ==
  /\ op[o].pc = "idle" /\ op[o].left > 0 /\ ~closed
  /\ file[f].state = "open"
  /\ Set(o, [Idle(op[o].left - 1) EXCEPT !.pc = "begin", !.req = "use", !.f = f,
                                         !.h = file[f].h, !.cnt = scn.maxRedir])
  /\ UNCHANGED <<mu, sessions, dialled, addr, st, handles, closed, file>>

ReadSession(o) ==
  /\ op[o].pc = "begin"
  /\ Set(o, [op[o] EXCEPT !.pc = "get", !.sid = file[op[o].f].sid])
  /\ UNCHANGED <<mu, sessions, dialled, addr, st, handles, closed, file>>

-----------------------------------------------------------------------------
(* getSession *)

\* What the caller does with session s: a use that was redirected first opens
\* its file there, starting from the table again.
Got(o, s) ==
  IF op[o].moved
    THEN [op[o] EXCEPT !.pc = "get", !.req = "reopen", !.moved = FALSE, !.keep = s,
                       !.home = op[o].sid, !.sub = scn.maxRedir]
    ELSE [op[o] EXCEPT !.pc = "send", !.on = s]

Lookup(o) ==
  /\ op[o].pc = "get" /\ mu = None
  /\ LET s == sessions[op[o].sid] IN
     Set(o, IF s # 0 THEN Got(o, s) ELSE [op[o] EXCEPT !.pc = "lock"])
  /\ UNCHANGED <<mu, sessions, dialled, addr, st, handles, closed, file>>

\* Defect: the table is not looked at again under the write lock.
LockNoRecheck(o) ==
  /\ op[o].pc = "lock" /\ mu = None
  /\ mu' = o
  /\ Set(o, [op[o] EXCEPT !.pc = "dial"])
  /\ UNCHANGED <<sessions, dialled, addr, st, handles, closed, file>>

Lock(o) ==
  /\ op[o].pc = "lock" /\ mu = None
  /\ LET s == sessions[op[o].sid] IN
     IF s # 0
       THEN Set(o, Got(o, s)) /\ mu' = mu
       ELSE Set(o, [op[o] EXCEPT !.pc = "dial"]) /\ mu' = o
  /\ UNCHANGED <<sessions, dialled, addr, st, handles, closed, file>>

\* newSession up to the start of its reader ...
Dial(o) ==
  /\ op[o].pc = "dial" /\ dialled < scn.sess
  /\ LET s == dialled + 1 IN
     /\ dialled' = s
     /\ addr' = [addr EXCEPT ![s] = parseAddr(op[o].sid)]
     /\ st' = [st EXCEPT ![s] = "up"]
     /\ Set(o, [op[o] EXCEPT !.pc = "login", !.on = s])
  /\ UNCHANGED <<mu, sessions, handles, closed, file>>

DialFail(o) ==
  /\ op[o].pc = "dial"
  /\ mu' = None
  /\ Fail(o)
  /\ UNCHANGED <<sessions, dialled, addr, st, handles, closed>>

\* ... and the login, which the server answers while the connection lasts.
Login(o) ==
  LET s == op[o].on IN
  /\ op[o].pc = "login" /\ st[s] = "up"
  /\ sessions' = [sessions EXCEPT ![op[o].sid] = s]
  /\ mu' = None
  /\ Set(o, Got(o, s))
  /\ UNCHANGED <<dialled, addr, st, handles, closed, file>>

\* The login is refused, or its context ends: the session is closed.
LoginFail(o) ==
  LET s == op[o].on IN
  /\ op[o].pc = "login" /\ (st[s] = "up" \/ op[o].ended)
  /\ st' = [st EXCEPT ![s] = IF @ = "up" THEN "dead" ELSE @]
  /\ mu' = None
  /\ Fail(o)
  /\ UNCHANGED <<sessions, dialled, addr, handles, closed>>

-----------------------------------------------------------------------------
(* sendSessionFile: sending, redirects, and the results *)

\* session.Send: a session that has died refuses; a lost one may or may not.
Send(o) ==
  LET s == op[o].on IN
  /\ op[o].pc = "send"
  /\ \/ /\ st[s] \in {"up", "lost"}
        /\ Set(o, [op[o] EXCEPT !.pc = "wait", !.ran = "no"])
        /\ UNCHANGED file
     \/ /\ st[s] \in {"lost", "dead"}
        /\ Fail(o)
  /\ UNCHANGED <<mu, sessions, dialled, addr, st, handles, closed>>

\* Defects: a redirected use keeps the handle of the server it came from; a
\* redirection followed is not counted.
FollowNoReopen(o, a) == [op[o] EXCEPT !.pc = "get", !.sid = a, !.cnt = @ - 1]
FollowFree(o, a) == [op[o] EXCEPT !.pc = "get", !.sid = a, !.moved = op[o].req = "use"]

\* A redirection to address a, for the request or for the re-open inside it.
\* Following it costs one of the redirections left; with none left it fails.
Budget(o) == IF op[o].req = "reopen" THEN op[o].sub ELSE op[o].cnt
Follow(o, a) ==
  IF op[o].req = "reopen"
    THEN [op[o] EXCEPT !.pc = "get", !.sid = a, !.sub = @ - 1]
    ELSE [op[o] EXCEPT !.pc = "get", !.sid = a, !.cnt = @ - 1, !.moved = op[o].req = "use"]

Redirect(o, a) ==
  /\ op[o].pc = "wait" /\ st[op[o].on] = "up" /\ op[o].ran = "no"
  /\ IF Budget(o) > 0 THEN Set(o, Follow(o, a)) /\ UNCHANGED file ELSE Fail(o)
  /\ UNCHANGED <<mu, sessions, dialled, addr, st, handles, closed>>

\* The server carries the request out: an open gives out the next handle of its
\* session, a use is applied to the file that has the handle.
Execute(o) ==
  LET s == op[o].on
      known == op[o].h \in DOMAIN handles[s] IN
  /\ op[o].pc = "wait" /\ st[s] = "up" /\ op[o].ran = "no"
  /\ IF op[o].req = "use"
       THEN /\ Set(o, IF known THEN [op[o] EXCEPT !.ran = "yes", !.times = @ + 1,
                                                  !.did = handles[s][op[o].h]]
                               ELSE [op[o] EXCEPT !.ran = "refused"])
            /\ UNCHANGED handles
       ELSE /\ Set(o, [op[o] EXCEPT !.ran = "yes", !.h = Len(handles[s]) + 1])
            /\ handles' = [handles EXCEPT ![s] = Append(@, op[o].f)]
  /\ UNCHANGED <<mu, sessions, dialled, addr, st, closed, file>>

\* Defect: the file keeps its old handle.
ReopenedKeeps(o) == [file[op[o].f] EXCEPT !.sid = op[o].sid]

\* What file.reopen records in the file: its new handle and session.
Reopened(o) == [state |-> "open", h |-> op[o].h, sid |-> op[o].sid]

\* The answer arrives.  A re-opened file records its new place, and the use goes
\* on there: on the session it kept if the open was not itself redirected.
Answer(o) ==
  LET s == op[o].on  f == op[o].f IN
  /\ op[o].pc = "wait" /\ st[s] = "up"
  /\ \/ /\ op[o].ran = "refused"
        /\ Fail(o)
     \/ /\ op[o].ran = "yes" /\ op[o].req = "open"
        /\ file' = [file EXCEPT ![f] = [state |-> "open", h |-> op[o].h, sid |-> op[o].sid]]
        /\ Set(o, Idle(op[o].left))
     \/ /\ op[o].ran = "yes" /\ op[o].req = "reopen"
        /\ file' = [file EXCEPT ![f] = Reopened(o)]
        /\ Set(o, IF op[o].sid = op[o].home
                    THEN [op[o] EXCEPT !.pc = "send", !.req = "use",
                                       !.on = op[o].keep]
                    ELSE [op[o] EXCEPT !.pc = "get", !.req = "use"])
     \/ /\ op[o].ran = "yes" /\ op[o].req = "use"
        /\ Set(o, [op[o] EXCEPT !.pc = "update"])
        /\ UNCHANGED file
  /\ UNCHANGED <<mu, sessions, dialled, addr, st, handles, closed>>

\* file.do records the session that answered.
Update(o) ==
  /\ op[o].pc = "update"
  /\ file' = [file EXCEPT ![op[o].f].sid = op[o].sid]
  /\ Set(o, Idle(op[o].left))
  /\ UNCHANGED <<mu, sessions, dialled, addr, st, handles, closed>>

CtxEnd(o) ==
  /\ o \in scn.ending /\ op[o].pc # "idle" /\ ~op[o].ended
  /\ Set(o, [op[o] EXCEPT !.ended = TRUE])
  /\ UNCHANGED <<mu, sessions, dialled, addr, st, handles, closed, file>>

GiveUp(o) ==
  /\ op[o].pc = "wait" /\ op[o].ended
  /\ Fail(o)
  /\ UNCHANGED <<mu, sessions, dialled, addr, st, handles, closed>>

-----------------------------------------------------------------------------
(* The end of a session, and of the client. *)

Lose(s) ==
  /\ st[s] = "up"
  /\ IF \E o \in Ops : op[o].pc = "login" /\ op[o].on = s THEN scn.canLoseLogin ELSE scn.canLose
  /\ st' = [st EXCEPT ![s] = "lost"]
  /\ UNCHANGED <<mu, sessions, dialled, addr, handles, closed, file, op>>

Waiting(s) == {o \in Ops : op[o].pc = "wait" /\ op[o].on = s}

\* What every operation in a set becomes when its session ends: an error, or
\* (session other than the initial one) a redirection to the initial session.
Told(os, redirect) ==
  /\ op' = [o \in Ops |->
       IF o \notin os THEN op[o]
       ELSE IF redirect /\ Budget(o) > 0 THEN Follow(o, First) ELSE Idle(op[o].left)]
  /\ file' = [f \in Files |->
       IF \E o \in os : op[o].req = "open" /\ op[o].f = f /\ op'[o].pc = "idle"
         THEN [file[f] EXCEPT !.state = "none"] ELSE file[f]]

\* Defect: the requests of the initial session are redirected to it as well.
RedirectAll(s) ==
  /\ st[s] = "lost" /\ mu = None
  /\ sessions' = [sessions EXCEPT ![addr[s]] = IF @ = s THEN 0 ELSE @]
  /\ st' = [st EXCEPT ![s] = "dead"]
  /\ Told(Waiting(s), TRUE)
  /\ UNCHANGED <<mu, dialled, addr, handles, closed>>

\* Defect: the session is not forgotten.
ForgetNothing(s) ==
  /\ st[s] = "lost" /\ mu = None
  /\ st' = [st EXCEPT ![s] = "dead"]
  /\ Told(Waiting(s), addr[s] # First)
  /\ UNCHANGED <<mu, sessions, dialled, addr, handles, closed>>

\* handleReadError: forget the session, then fail or redirect its requests.
handleReadError(s) ==
  /\ st[s] = "lost" /\ mu = None
  /\ sessions' = [sessions EXCEPT ![addr[s]] = IF @ = s THEN 0 ELSE @]
  /\ st' = [st EXCEPT ![s] = "dead"]
  /\ Told(Waiting(s), addr[s] # First)
  /\ UNCHANGED <<mu, dialled, addr, handles, closed>>

\* Client.Close closes what the table holds and leaves the table alone; a reader
\* that had noticed its loss waits for the lock in forget, and forgets then.
Close ==
  LET held == {s \in Sess : \E a \in Addrs : sessions[a] = s} IN
  /\ scn.canClose /\ ~closed /\ mu = None
  /\ closed' = TRUE
  /\ st' = [s \in Sess |-> IF s \in held THEN "dead" ELSE st[s]]
  /\ \E late \in SUBSET {s \in held : st[s] = "lost"} :
       sessions' = [a \in Addrs |->
         IF sessions[a] \in late /\ addr[sessions[a]] = a THEN 0 ELSE sessions[a]]
  /\ Told(UNION {Waiting(s) : s \in held}, FALSE)
  /\ UNCHANGED <<mu, dialled, addr, handles>>

-----------------------------------------------------------------------------
\* What the goroutine of an operation does once it has begun.
OpStep(o) ==
  \/ ReadSession(o) \/ Lookup(o) \/ Lock(o) \/ Dial(o) \/ DialFail(o)
  \/ LoginFail(o) \/ Send(o) \/ Update(o) \/ GiveUp(o)

ServerStep(o) == Login(o) \/ Execute(o) \/ Answer(o) \/ \E a \in scn.addrs : Redirect(o, a)

Step ==
  \/ \E o \in scn.ops : \/ \E f \in scn.files : Open(o, f) \/ ReadHandle(o, f)
                        \/ OpStep(o) \/ ServerStep(o) \/ CtxEnd(o)
  \/ \E s \in Sess : Lose(s) \/ handleReadError(s)
  \/ Close

Next == Step /\ UNCHANGED scn

Spec == Init /\ [][Next]_vars

\* Goroutines are scheduled fairly and the lock is handed out fairly; a server
\* answers while it can be reached; a context that has a deadline ends.
Fairness ==
  /\ \A o \in Ops : SF_stepVars(OpStep(o)) /\ WF_stepVars(ServerStep(o)) /\ WF_stepVars(CtxEnd(o))
  /\ \A s \in Sess : SF_stepVars(handleReadError(s))

FairSpec == Spec /\ Fairness

-----------------------------------------------------------------------------
(***************************************************************************)
(* getSession: a connection is never left "unreferenced: open, logged in,  *)
(* and never closed".  Every live session is in the table, where requests  *)
(* and Close find it, or is still being logged in.                         *)
(***************************************************************************)
NoLeakedSession ==
  \A s \in Sess : st[s] = "up" =>
    \/ \E a \in Addrs : sessions[a] = s
    \/ \E o \in Ops : op[o].pc = "login" /\ op[o].on = s

(***************************************************************************)
(* A use is applied to the file it was made on: no redirect and no         *)
(* reconnection lets it reach another file through a stale handle.         *)
(***************************************************************************)
RightFile == \A o \in Ops : op[o].did \in {None, op[o].f}

(***************************************************************************)
(* sendSessionFile: "nothing is done twice by re-issuing".  One call of a  *)
(* method of a file is carried out by the servers at most once.            *)
(***************************************************************************)
NothingDoneTwice == \A o \in Ops : op[o].times <= 1

(***************************************************************************)
(* The handle and the session id a file object holds belong together: the  *)
(* handle was given out for that file by the server of that session.  "A   *)
(* handle means nothing anywhere but where it was issued."                 *)
(***************************************************************************)
HandleFromSession ==
  \A f \in Files : file[f].state = "open" =>
    \E s \in Sess : /\ addr[s] = parseAddr(file[f].sid)
                    /\ file[f].h \in DOMAIN handles[s]
                    /\ handles[s][file[f].h] = f

(***************************************************************************)
(* A session whose connection failed does not stay in the table, so "the   *)
(* request that arrives next reconnects instead of failing for ever".      *)
(***************************************************************************)
NoCorpse == ~closed => \A a \in Addrs : sessions[a] # 0 => st[sessions[a]] # "dead"

(***************************************************************************)
(* Every operation returns: redirects are bounded, a lost session is       *)
(* noticed, and nobody keeps client.mu for ever.                           *)
(***************************************************************************)
EveryCallReturns == \A o \in Ops : op[o].pc # "idle" ~> op[o].pc = "idle"

=============================================================================
