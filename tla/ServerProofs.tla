---------------------------- MODULE ServerProofs ----------------------------
(***************************************************************************)
(* What holds of the server for every number of connections and requests.  *)
(***************************************************************************)
EXTENDS Server, TLAPS

\* What the place a request has reached says about its fields.
Fields ==
  \A r \in Reqs :
    /\ req[r].pc = "new" <=> req[r].c = None
    /\ req[r].pc \in {"new", "add", "start", "opened"} => req[r].g = None
    /\ req[r].pc \in {"insert", "remove", "get"} => req[r].g # None
    /\ req[r].pc \in {"opened", "insert"} => req[r].kind = "open"
    /\ req[r].pc \in {"remove", "get", "work"} => req[r].kind # "open"
    /\ req[r].pc = "work" => req[r].fd \in Reqs

TInv == TypeOK /\ Fields

\* The type invariant, with what makes it inductive.
LEMMA InitTInv == Init => TInv
<1> SUFFICES ASSUME Init PROVE TInv
  BY Zenon
<1> USE ServerAssumption DEF Init, Objects, Handles, Request, NoRequest
<1>1. TypeOK
  BY DEF TypeOK
<1>2. Fields
  BY Zenon DEF Fields
<1>3. QED
  BY <1>1, <1>2, Zenon DEF TInv

PCs == {"new", "add", "start", "opened", "insert", "remove", "get", "work", "reply", "done"}
Results == {"none", "ok", "error", "sent", "lost"}

\* The step of request r leaves it at p with these fields, and the others alone.
Becomes(r, p, g, h, d, v) ==
  /\ req' \in [Reqs -> Request]
  /\ \A q \in Reqs : q # r => req'[q] = req[q]
  /\ req'[r].kind = req[r].kind /\ req'[r].c = req[r].c
  /\ req'[r].pc = p /\ req'[r].g = g /\ req'[r].h = h /\ req'[r].fd = d /\ req'[r].res = v

\* The ways in which the steps of a request update its record.
LEMMA Updates ==
  ASSUME TypeOK, NEW r \in Reqs, NEW p \in PCs
  PROVE  /\ req' = [req EXCEPT ![r] = [@ EXCEPT !.pc = p]]
           => Becomes(r, p, req[r].g, req[r].h, req[r].fd, req[r].res)
         /\ \A v \in Results :
              req' = [req EXCEPT ![r] = [@ EXCEPT !.pc = p, !.res = v]]
                => Becomes(r, p, req[r].g, req[r].h, req[r].fd, v)
         /\ \A v \in Results, h \in Handles :
              req' = [req EXCEPT ![r] = [@ EXCEPT !.pc = p, !.res = v, !.h = h]]
                => Becomes(r, p, req[r].g, h, req[r].fd, v)
         /\ \A g \in Objects :
              req' = [req EXCEPT ![r] = [@ EXCEPT !.pc = p, !.g = g]]
                => Becomes(r, p, g, req[r].h, req[r].fd, req[r].res)
         /\ \A d \in Reqs :
              req' = [req EXCEPT ![r] = [@ EXCEPT !.pc = p, !.fd = d]]
                => Becomes(r, p, req[r].g, req[r].h, d, req[r].res)
<1>0. req \in [Reqs -> Request] /\ req[r] \in Request
  BY Zenon DEF TypeOK
<1> USE <1>0 DEF PCs, Results
<1>1. ASSUME req' = [req EXCEPT ![r] = [@ EXCEPT !.pc = p]]
      PROVE  Becomes(r, p, req[r].g, req[r].h, req[r].fd, req[r].res)
  <2> DEFINE x == [req[r] EXCEPT !.pc = p]
  <2>1. x \in Request
    BY <1>1, Zenon DEF Request
  <2>2. /\ x.kind = req[r].kind /\ x.c = req[r].c /\ x.pc = p /\ x.g = req[r].g
        /\ x.h = req[r].h /\ x.fd = req[r].fd /\ x.res = req[r].res
    BY Zenon DEF Request
  <2> HIDE DEF x
  <2>3. req' = [req EXCEPT ![r] = x]
    BY <1>1, Zenon DEF x
  <2>4. QED
    BY <2>1, <2>2, <2>3, Zenon DEF Becomes
<1>2. ASSUME NEW v \in Results, req' = [req EXCEPT ![r] = [@ EXCEPT !.pc = p, !.res = v]]
      PROVE  Becomes(r, p, req[r].g, req[r].h, req[r].fd, v)
  <2> DEFINE x == [req[r] EXCEPT !.pc = p, !.res = v]
  <2>1. x \in Request
    BY <1>2, Zenon DEF Request
  <2>2. /\ x.kind = req[r].kind /\ x.c = req[r].c /\ x.pc = p /\ x.g = req[r].g
        /\ x.h = req[r].h /\ x.fd = req[r].fd /\ x.res = v
    BY Zenon DEF Request
  <2> HIDE DEF x
  <2>3. req' = [req EXCEPT ![r] = x]
    BY <1>2, Zenon DEF x
  <2>4. QED
    BY <2>1, <2>2, <2>3, Zenon DEF Becomes
<1>3. ASSUME NEW v \in Results, NEW h \in Handles, req' = [req EXCEPT ![r] = [@ EXCEPT !.pc = p, !.res = v, !.h = h]]
      PROVE  Becomes(r, p, req[r].g, h, req[r].fd, v)
  <2> DEFINE x == [req[r] EXCEPT !.pc = p, !.res = v, !.h = h]
  <2>1. x \in Request
    BY <1>3, Zenon DEF Request
  <2>2. /\ x.kind = req[r].kind /\ x.c = req[r].c /\ x.pc = p /\ x.g = req[r].g
        /\ x.h = h /\ x.fd = req[r].fd /\ x.res = v
    BY Zenon DEF Request
  <2> HIDE DEF x
  <2>3. req' = [req EXCEPT ![r] = x]
    BY <1>3, Zenon DEF x
  <2>4. QED
    BY <2>1, <2>2, <2>3, Zenon DEF Becomes
<1>4. ASSUME NEW g \in Objects, req' = [req EXCEPT ![r] = [@ EXCEPT !.pc = p, !.g = g]]
      PROVE  Becomes(r, p, g, req[r].h, req[r].fd, req[r].res)
  <2> DEFINE x == [req[r] EXCEPT !.pc = p, !.g = g]
  <2>1. x \in Request
    BY <1>4, Zenon DEF Request
  <2>2. /\ x.kind = req[r].kind /\ x.c = req[r].c /\ x.pc = p /\ x.g = g
        /\ x.h = req[r].h /\ x.fd = req[r].fd /\ x.res = req[r].res
    BY Zenon DEF Request
  <2> HIDE DEF x
  <2>3. req' = [req EXCEPT ![r] = x]
    BY <1>4, Zenon DEF x
  <2>4. QED
    BY <2>1, <2>2, <2>3, Zenon DEF Becomes
<1>5. ASSUME NEW d \in Reqs, req' = [req EXCEPT ![r] = [@ EXCEPT !.pc = p, !.fd = d]]
      PROVE  Becomes(r, p, req[r].g, req[r].h, d, req[r].res)
  <2> DEFINE x == [req[r] EXCEPT !.pc = p, !.fd = d]
  <2>1. x \in Request
    BY <1>5, Zenon DEF Request
  <2>2. /\ x.kind = req[r].kind /\ x.c = req[r].c /\ x.pc = p /\ x.g = req[r].g
        /\ x.h = req[r].h /\ x.fd = d /\ x.res = req[r].res
    BY Zenon DEF Request
  <2> HIDE DEF x
  <2>3. req' = [req EXCEPT ![r] = x]
    BY <1>5, Zenon DEF x
  <2>4. QED
    BY <2>1, <2>2, <2>3, Zenon DEF Becomes
<1>6. QED
  BY <1>1, <1>2, <1>3, <1>4, <1>5, Zenon

\* Same(r, p): only the place and the result change.
Same(r, p, v) == Becomes(r, p, req[r].g, req[r].h, req[r].fd, v)

\* Between its reading and its answer a request belongs to a connection.
LEMMA Belongs ==
  ASSUME TypeOK, Fields, NEW r \in Reqs, req[r].pc # "new"
  PROVE  req[r].c \in Conns
BY Zenon DEF TypeOK, Fields, Request

\* What each step of a request does to it.
LEMMA Effects ==
  ASSUME TInv, NEW r \in Reqs
  PROVE  /\ Start(r) => Same(r, "start", req[r].res)
         /\ Other(r) => \E v \in Results : Same(r, "reply", v)
         /\ OpenFile(r) => \/ Same(r, "opened", req[r].res) /\ fds' = [fds EXCEPT ![r] = "open"]
                           \/ Same(r, "reply", "error") /\ fds' = fds
         /\ OpenSession(r) => \E g \in Reqs :
              /\ Becomes(r, "insert", g, req[r].h, req[r].fd, req[r].res)
              /\ sessions' = [sessions EXCEPT ![req[r].c] = g]
              /\ sessions[req[r].c] \in {None, g}
         /\ FindSession(r) => \/ Same(r, "reply", "error")
                              \/ \E p \in {"remove", "get"} :
                                   /\ sessions[req[r].c] # None
                                   /\ Becomes(r, p, sessions[req[r].c], req[r].h, req[r].fd, req[r].res)
         /\ Remove(r) => \E v \in Results : Same(r, "reply", v)
         /\ GetFile(r) => \/ Same(r, "reply", "error")
                          \/ \E d \in Reqs :
                               Becomes(r, "work", req[r].g, req[r].h, d, req[r].res)
         /\ Work(r) => \E v \in Results : Same(r, "reply", v)
         /\ WriteResponse(r) =>
              Same(r, "done", IF req[r].c \in sock \cap peer THEN "sent" ELSE "lost")
<1>0. TypeOK /\ Fields
  BY Zenon DEF TInv
<1> USE DEF PCs, Results, Same, To, Reply
<1>1. Start(r) => Same(r, "start", req[r].res)
  BY <1>0, Updates, ZenonT(60) DEF Start
<1>2. Other(r) => \E v \in Results : Same(r, "reply", v)
  BY <1>0, Updates, ZenonT(60) DEF Other
<1>3. OpenFile(r) => \/ Same(r, "opened", req[r].res) /\ fds' = [fds EXCEPT ![r] = "open"]
                     \/ Same(r, "reply", "error") /\ fds' = fds
  BY <1>0, Updates, Zenon DEF OpenFile
<1>4. ASSUME OpenSession(r)
      PROVE  \E g \in Reqs :
              /\ Becomes(r, "insert", g, req[r].h, req[r].fd, req[r].res)
              /\ sessions' = [sessions EXCEPT ![req[r].c] = g]
              /\ sessions[req[r].c] \in {None, g}
  <2> DEFINE c == req[r].c  g == IF sessions[c] = None THEN r ELSE sessions[c]
  <2>1. c \in Conns
    BY <1>0, <1>4, Belongs, Zenon DEF OpenSession
  <2>2. g \in Reqs /\ g \in Objects /\ sessions[c] \in {None, g}
    BY <1>0, <2>1, Zenon DEF TypeOK, Objects
  <2>3. /\ sessions' = [sessions EXCEPT ![c] = g]
        /\ req' = [req EXCEPT ![r] = [@ EXCEPT !.pc = "insert", !.g = g]]
    BY <1>4, Zenon DEF OpenSession
  <2> HIDE DEF g
  <2>4. Becomes(r, "insert", g, req[r].h, req[r].fd, req[r].res)
    BY <1>0, <2>2, <2>3, Updates, ZenonT(60)
  <2>5. QED
    BY <2>2, <2>3, <2>4, Zenon
<1>5. ASSUME FindSession(r)
      PROVE  \/ Same(r, "reply", "error")
             \/ \E p \in {"remove", "get"} :
                  /\ sessions[req[r].c] # None
                  /\ Becomes(r, p, sessions[req[r].c], req[r].h, req[r].fd, req[r].res)
  <2>1. sessions[req[r].c] \in Objects
    BY <1>0, <1>5, Belongs, Zenon DEF FindSession, TypeOK
  <2>2. QED
    BY <1>0, <1>5, <2>1, Updates, Zenon DEF FindSession
<1>6. Remove(r) => \E v \in Results : Same(r, "reply", v)
  BY <1>0, Updates, ZenonT(60) DEF Remove
<1>7. ASSUME GetFile(r)
      PROVE  \/ Same(r, "reply", "error")
             \/ \E d \in Reqs : Becomes(r, "work", req[r].g, req[r].h, d, req[r].res)
  <2>1. Named(r) # {} => (CHOOSE e \in Named(r) : TRUE).fd \in Reqs
    BY <1>0, Zenon DEF Named, TypeOK
  <2>2. QED
    BY <1>0, <1>7, <2>1, Updates, ZenonT(60) DEF GetFile
<1>8. Work(r) => \E v \in Results : Same(r, "reply", v)
  BY <1>0, Updates, ZenonT(60) DEF Work
<1>9. WriteResponse(r) =>
        Same(r, "done", IF req[r].c \in sock \cap peer THEN "sent" ELSE "lost")
  BY <1>0, Updates, Zenon DEF WriteResponse
<1>10. QED
  BY <1>1, <1>2, <1>3, <1>4, <1>5, <1>6, <1>7, <1>8, <1>9, Zenon

\* Where an open that has found its session object puts its file.
LEMMA OpenInsertEffect ==
  ASSUME TInv, NEW r \in Reqs, OpenInsert(r)
  PROVE  LET g == req[r].g  h == Next1(next[g]) IN
         /\ req[r].pc = "insert" /\ req[r].kind = "open"
         /\ g \in Reqs /\ next[g] \in Handles /\ h \in Handles
         /\ next' = [next EXCEPT ![g] = h]
         /\ \/ /\ Becomes(r, "reply", g, h, req[r].fd, "ok") /\ h # 0 /\ fds' = fds
               /\ handles' = {e \in handles : <<e.g, e.h>> # <<g, h>>}
                             \cup {[g |-> g, h |-> h, fd |-> r]}
            \/ /\ Same(r, "reply", "error") /\ handles' = handles
               /\ fds' = [fds EXCEPT ![r] = "closed"]
<1> DEFINE g == req[r].g  h == Next1(next[g])
<1>0. TypeOK /\ Fields
  BY Zenon DEF TInv
<1>1. req[r].pc = "insert" /\ req[r].kind = "open" /\ g \in Reqs
  BY <1>0, Zenon DEF OpenInsert, Fields, TypeOK, Request, Objects
<1>2. next[g] \in Handles
  BY <1>0, <1>1, Zenon DEF TypeOK
<1>3. h \in Handles
  BY <1>2, ServerAssumption DEF Handles, Next1
<1>4. next' = [next EXCEPT ![g] = h]
  BY Zenon DEF OpenInsert
<1>5. \/ /\ Becomes(r, "reply", g, h, req[r].fd, "ok") /\ h # 0 /\ fds' = fds
         /\ handles' = {e \in handles : <<e.g, e.h>> # <<g, h>>}
                       \cup {[g |-> g, h |-> h, fd |-> r]}
      \/ /\ Same(r, "reply", "error") /\ handles' = handles
         /\ fds' = [fds EXCEPT ![r] = "closed"]
  BY <1>0, <1>3, Updates, Zenon DEF OpenInsert, Same, Reply, PCs, Results
<1>6. QED
  BY <1>1, <1>2, <1>3, <1>4, <1>5, Zenon

\* What reading a request does.
LEMMA ReadEffect ==
  ASSUME TypeOK, Fields, NEW c \in Conns, NEW r \in scn.reqs, NEW k \in scn.kinds,
         NEW h \in Handles, ReadRequest(c, r, k, h)
  PROVE  /\ r \in Reqs /\ req[r].pc = "new" /\ req[r].g = None /\ req[r].c = None
         /\ req' \in [Reqs -> Request]
         /\ \A q \in Reqs : q # r => req'[q] = req[q]
         /\ req'[r].pc = "add" /\ req'[r].kind = k /\ req'[r].c = c /\ req'[r].g = None
<1> DEFINE x == [NoRequest EXCEPT !.pc = "add", !.kind = k, !.c = c, !.h = h]
<1>1. r \in Reqs /\ k \in {"open", "close", "use", "other"}
  BY ServerAssumption, Zenon DEF TypeOK, Scenario
<1>2. NoRequest \in Request
  BY ServerAssumption DEF NoRequest, Request, Objects, Handles
<1>3. x \in Request /\ x.pc = "add" /\ x.kind = k /\ x.c = c /\ x.g = NoRequest.g
  BY <1>1, <1>2, Zenon DEF Request
<1>4. NoRequest.g = None
  BY Zenon DEF NoRequest
<1>5. req \in [Reqs -> Request] /\ req' = [req EXCEPT ![r] = x] /\ req[r].pc = "new"
  BY Zenon DEF ReadRequest, TypeOK
<1>6. req[r].g = None /\ req[r].c = None
  BY <1>1, <1>5, Zenon DEF Fields
<1> HIDE DEF x
<1>7. QED
  BY <1>1, <1>3, <1>4, <1>5, <1>6, Zenon

\* ... and each step keeps it.
LEMMA NextTInv == TInv /\ [Next]_vars => TInv'
<1> SUFFICES ASSUME TInv, [Next]_vars PROVE TInv'
  BY Zenon
<1> USE ServerAssumption DEF srvVars, connVars, fsVars
<1>0. TypeOK /\ Fields
  BY Zenon DEF TInv
<1>1. CASE UNCHANGED vars
  BY <1>1, Zenon DEF TInv, TypeOK, Fields, vars, stepVars
<1> SUFFICES ASSUME Next PROVE TInv'
  BY <1>1, Zenon
<1>2. scn' = scn
  BY Zenon DEF Next
<1>3. CASE Serve \/ Shutdown \/ Wait
  BY <1>0, <1>2, <1>3, ZenonT(60) DEF TInv, Fields, Serve, Shutdown, Wait, TypeOK
<1>4. ASSUME NEW c \in Conns, Accept(c) \/ handleHandshake(c) \/ ConnStep(c) \/ Drop(c)
      PROVE  TInv'
  <2> USE <1>0, <1>2, <1>4
  <2>1. UNCHANGED <<scn, req>>
    BY Zenon DEF Accept, handleHandshake, ConnStep, Drop, Register, ReadFail, CloseSession,
           CloseFiles, Forget
  <2>2. CASE Accept(c) \/ handleHandshake(c) \/ Drop(c)
    BY <2>1, <2>2, ZenonT(60) DEF TInv, Fields, Accept, handleHandshake, Drop, TypeOK
  <2>3. CASE Register(c) \/ ReadFail(c) \/ Forget(c)
    BY <2>1, <2>3, ZenonT(60) DEF TInv, Fields, Register, ReadFail, Forget, TypeOK
  <2>4. CASE CloseSession(c)
    <3>1. sessions' \in [Conns -> Objects] /\ ending' \in [Conns -> Objects]
      BY <2>4, ZenonT(60) DEF CloseSession, TypeOK, Objects
    <3>2. QED
      BY <2>1, <2>4, <3>1 DEF TInv, Fields, CloseSession, TypeOK
  <2>5. CASE CloseFiles(c)
    BY <2>1, <2>5, Zenon DEF TInv, Fields, CloseFiles, TypeOK
  <2>6. QED
    BY <2>2, <2>3, <2>4, <2>5, Zenon DEF ConnStep
<1>5. ASSUME NEW c \in Conns, NEW r \in scn.reqs, NEW k \in scn.kinds, NEW h \in Handles,
             ReadRequest(c, r, k, h)
      PROVE  TInv'
  <2>1. TypeOK'
    BY <1>0, <1>2, <1>5, ReadEffect, Zenon DEF ReadRequest, TypeOK
  <2>2. Fields'
    BY <1>0, <1>5, ReadEffect DEF Fields
  <2>3. QED
    BY <2>1, <2>2, Zenon DEF TInv
<1>6. ASSUME NEW r \in Reqs, ReqStep(r)
      PROVE  TInv'
  <2> USE <1>0 DEF Becomes, Same
  <2>2. CASE Start(r)
    <3>1. Same(r, "start", req[r].res)
      BY <2>2, Effects, Zenon
    <3>2. TypeOK'
      BY <1>2, <2>2, <3>1, Belongs, Zenon DEF Start, TypeOK
    <3>3. QED
      BY <2>2, <3>1, <3>2 DEF TInv, Start, Fields
  <2>3. CASE Other(r) \/ Work(r)
    <3>1. PICK v \in Results : Same(r, "reply", v)
      BY <2>3, Effects, Zenon
    <3>2. TypeOK'
      BY <1>2, <2>3, <3>1, Zenon DEF Other, Work, TypeOK
    <3>3. req[r].pc # "new"
      BY <2>3, Zenon DEF Other, Work
    <3>4. QED
      BY <3>1, <3>2, <3>3 DEF TInv, Fields
  <2>4. CASE OpenFile(r)
    <3>1. /\ \/ Same(r, "opened", req[r].res)
             \/ Same(r, "reply", "error")
          /\ fds' \in [Reqs -> {"none", "open", "closed"}]
      BY <2>4, Effects, ZenonT(60) DEF TypeOK
    <3>2. TypeOK'
      BY <1>2, <2>4, <3>1, Zenon DEF OpenFile, TypeOK
    <3>3. QED
      BY <2>4, <3>1, <3>2 DEF TInv, OpenFile, Fields
  <2>5. CASE OpenSession(r)
    <3>1. req[r].c \in Conns /\ req[r].pc = "opened"
      BY <2>5, Belongs, Zenon DEF OpenSession
    <3>2. PICK g \in Reqs :
              /\ Becomes(r, "insert", g, req[r].h, req[r].fd, req[r].res)
              /\ sessions' = [sessions EXCEPT ![req[r].c] = g]
      BY <2>5, Effects, Zenon
    <3>3. TypeOK'
      BY <1>2, <2>5, <3>2, ZenonT(60) DEF OpenSession, TypeOK, Objects
    <3>4. Fields'
      BY <3>1, <3>2 DEF Fields
    <3>5. QED
      BY <3>3, <3>4, Zenon DEF TInv
  <2>6. CASE OpenInsert(r)
    <3> DEFINE g == req[r].g  h == Next1(next[g])
    <3>1. g \in Reqs /\ h \in Handles /\ req[r].pc = "insert" /\ req[r].kind = "open"
      BY <2>6, OpenInsertEffect, Zenon
    <3>2. \/ Becomes(r, "reply", g, h, req[r].fd, "ok")
          \/ Same(r, "reply", "error")
      BY <2>6, OpenInsertEffect, Zenon
    <3>3. next' \in [Reqs -> Handles] /\ fds' \in [Reqs -> {"none", "open", "closed"}]
      BY <2>6, <3>1, Zenon DEF OpenInsert, TypeOK
    <3>4. handles' \subseteq [g : Reqs, h : Handles \ {0}, fd : Reqs]
      <4> DEFINE new == [g |-> g, h |-> h, fd |-> r]
      <4>1. handles' \subseteq handles \/ (h # 0 /\ handles' \subseteq handles \cup {new})
        BY <2>6, OpenInsertEffect, Zenon
      <4>2. h # 0 => new \in [g : Reqs, h : Handles \ {0}, fd : Reqs]
        BY <3>1, Zenon
      <4> HIDE DEF h, new
      <4>3. QED
        BY <4>1, <4>2, Zenon DEF TypeOK
    <3>5. TypeOK'
      BY <1>2, <2>6, <3>2, <3>3, <3>4, Zenon DEF OpenInsert, TypeOK
    <3>6. Fields'
      <4> HIDE DEF h
      <4>1. QED
        BY <3>1, <3>2 DEF Fields
    <3>7. QED
      BY <3>5, <3>6, Zenon DEF TInv
  <2>7. CASE FindSession(r)
    <3>0. req[r].pc = "start" /\ req[r].c \in Conns /\ req[r].kind \in {"close", "use"}
      BY <2>7, Belongs, Zenon DEF FindSession, Fields
    <3>1. CASE Same(r, "reply", "error")
      <4>1. TypeOK'
        BY <1>2, <2>7, <3>1, Zenon DEF FindSession, TypeOK
      <4>2. QED
        BY <2>7, <3>0, <3>1, <4>1 DEF TInv, FindSession, Fields
    <3>2. ASSUME NEW p \in {"remove", "get"}, sessions[req[r].c] # None,
                 Becomes(r, p, sessions[req[r].c], req[r].h, req[r].fd, req[r].res)
          PROVE  TInv'
      <4>1. TypeOK'
        BY <1>2, <2>7, <3>2, Zenon DEF FindSession, TypeOK
      <4>2. Fields'
        BY <3>0, <3>2 DEF Fields
      <4>3. QED
        BY <4>1, <4>2, Zenon DEF TInv
    <3>3. QED
      BY <2>7, <3>1, <3>2, Effects, ZenonT(60)
  <2>8. CASE Remove(r)
    <3>1. PICK v \in Results : Same(r, "reply", v)
      BY <2>8, Effects, Zenon
    <3>2. TypeOK'
      BY <1>2, <2>8, <3>1, ZenonT(60) DEF Remove, TypeOK
    <3>3. QED
      BY <2>8, <3>1, <3>2 DEF TInv, Remove, Fields
  <2>9. CASE GetFile(r)
    <3>0. req[r].pc = "get" /\ req[r].c \in Conns /\ req[r].kind # "open"
      BY <2>9, Belongs, Zenon DEF GetFile, Fields
    <3>1. PICK d \in Reqs : \/ Same(r, "reply", "error")
                            \/ Becomes(r, "work", req[r].g, req[r].h, d, req[r].res)
      BY <2>9, Effects, Zenon
    <3>2. TypeOK'
      BY <1>2, <2>9, <3>1, Zenon DEF GetFile, TypeOK
    <3>3. Fields'
      BY <3>0, <3>1 DEF Fields
    <3>4. QED
      BY <3>2, <3>3, Zenon DEF TInv
  <2>10. CASE WriteResponse(r)
    <3>1. PICK v \in Results : Same(r, "done", v)
      BY <2>10, Effects, Zenon DEF Results
    <3>2. TypeOK'
      BY <1>2, <2>10, <3>1, Zenon DEF WriteResponse, TypeOK
    <3>3. QED
      BY <2>10, <3>1, <3>2 DEF TInv, WriteResponse, Fields
  <2>11. QED
    BY <1>6, <2>2, <2>3, <2>4, <2>5, <2>6, <2>7, <2>8, <2>9, <2>10, Zenon DEF ReqStep
<1>7. QED
  BY <1>3, <1>4, <1>5, <1>6, Zenon DEF Next, Step

(***************************************************************************)
(* Every variable of the server keeps to its range: in particular every    *)
(* request uses a session object some open made, and no entry of a table   *)
(* has a handle outside the range of srvSession.next.                      *)
(***************************************************************************)
THEOREM TypeCorrect == Spec => []TypeOK
<1>1. TInv => TypeOK
  BY Zenon DEF TInv
<1>2. QED
  BY <1>1, InitTInv, NextTInv, PTL DEF Spec

-----------------------------------------------------------------------------
(* Shutdown *)

Early == {"new", "accepted", "handshake"}
Ending == {"teardown", "closefiles", "forget", "gone"}

\* Server.active counts the requests whose goroutine has not returned, and a
\* connection stands between reading and counting with one request.
Accounted ==
  /\ active = {r \in Reqs : req[r].pc \notin {"new", "add", "done"}}
  /\ \A r \in Reqs : req[r].pc = "add" => at[req[r].c] = "add"
  /\ \A r, q \in Reqs : req[r].pc = "add" /\ req[q].pc = "add" /\ req[r].c = req[q].c => r = q
  /\ \A r \in Reqs, c \in Conns : at[c] \in Early => req[r].c # c

\* Until the wait ends, a connection is closed only by its client's leaving.
ClosedByClient ==
  shut \in {"no", "wait"} =>
    /\ \A c \in Conns : at[c] \notin Ending \cup {"new"} => c \in sock
    /\ \A r \in Reqs, c \in Conns : req[r].c = c /\ at[c] \in Ending => c \notin peer

Promises ==
  /\ shut = "no" => promised = {}
  /\ \A r \in promised : req[r].pc \notin {"new", "add"}
  /\ \A r \in promised : shut # "expired" /\ req[r].pc = "done" =>
       req[r].res = "sent" \/ req[r].c \notin peer
  /\ shut = "clean" => \A r \in promised : req[r].pc = "done"

GInv == TInv /\ Accounted /\ ClosedByClient /\ Promises

\* The steps that carry a request out, between Start and WriteResponse.
Carry(r) ==
  \/ Other(r) \/ OpenFile(r) \/ OpenSession(r) \/ OpenInsert(r)
  \/ FindSession(r) \/ Remove(r) \/ GetFile(r) \/ Work(r)

\* They neither count the request nor answer it.
LEMMA CarryEffect ==
  ASSUME TInv, NEW r \in Reqs, Carry(r)
  PROVE  /\ UNCHANGED <<srvVars, connVars>>
         /\ \A q \in Reqs : q # r => req'[q] = req[q]
         /\ req'[r].c = req[r].c /\ req'[r].kind = req[r].kind
         /\ req[r].pc \in PCs \ {"new", "add", "reply", "done"}
         /\ req'[r].pc \in PCs \ {"new", "add", "done"}
<1>1. UNCHANGED <<srvVars, connVars>>
  BY Zenon DEF Carry, Other, OpenFile, OpenSession, OpenInsert, FindSession, Remove, GetFile, Work
<1>2. req[r].pc \in PCs \ {"new", "add", "reply", "done"}
  BY Zenon DEF Carry, Other, OpenFile, OpenSession, OpenInsert, FindSession, Remove, GetFile, Work, PCs
<1>3. \E p \in PCs \ {"new", "add", "done"} : \E g, h, d, v : Becomes(r, p, g, h, d, v)
  BY Effects, OpenInsertEffect, Zenon DEF Carry, Same, PCs
<1>4. QED
  BY <1>1, <1>2, <1>3, Zenon DEF Becomes

\* Shutdown: the inductive invariant holds at first ...
LEMMA InitGInv == Init => GInv
<1> SUFFICES ASSUME Init PROVE GInv
  BY Zenon
<1>1. TInv
  BY InitTInv, Zenon
<1>2. Accounted /\ ClosedByClient /\ Promises
  BY ServerAssumption, Zenon DEF Init, Accounted, ClosedByClient, Promises, NoRequest, Early, Ending
<1>3. QED
  BY <1>1, <1>2, Zenon DEF GInv

\* ... Server.active keeps counting the requests being handled ...
LEMMA NextAccounted == TInv /\ Accounted /\ [Next]_vars => Accounted'
<1> SUFFICES ASSUME TInv, Accounted, [Next]_vars PROVE Accounted'
  BY Zenon
<1> USE DEF srvVars, connVars, fsVars
<1>0. TypeOK /\ Fields
  BY Zenon DEF TInv
<1>1. CASE UNCHANGED vars \/ Serve \/ Shutdown \/ Wait
  BY <1>1, Zenon DEF Accounted, vars, stepVars, Serve, Shutdown, Wait
<1>2. ASSUME NEW c \in Conns, Accept(c) \/ handleHandshake(c) \/ ConnStep(c) \/ Drop(c)
      PROVE  Accounted'
  <2>1. UNCHANGED <<active, req>>
    BY <1>2, Zenon DEF Accept, handleHandshake, ConnStep, Drop, Register, ReadFail, CloseSession,
                CloseFiles, Forget
  <2>2. /\ \A d \in Conns : d # c => at'[d] = at[d]
        /\ at[c] = "add" => at'[c] = "add"
        /\ at'[c] \in Early => at[c] \in Early
    BY <1>0, <1>2, Zenon DEF Accept, handleHandshake, ConnStep, Drop, Register, ReadFail, CloseSession,
                CloseFiles, Forget, TypeOK, Early
  <2>3. \A r \in Reqs : req[r].pc = "add" => req[r].c \in Conns
    BY <1>0, Belongs, Zenon
  <2>4. QED
    BY <2>1, <2>2, <2>3, Zenon DEF Accounted
<1>3. ASSUME NEW c \in Conns, NEW r \in scn.reqs, NEW k \in scn.kinds, NEW h \in Handles,
             ReadRequest(c, r, k, h)
      PROVE  Accounted'
  <2>1. at[c] = "loop" /\ at' = [at EXCEPT ![c] = "add"] /\ active' = active
    BY <1>3, Zenon DEF ReadRequest
  <2>2. at \in [Conns -> {"new", "accepted", "handshake", "loop", "add", "teardown",
                       "closefiles", "forget", "gone"}]
    BY <1>0, Zenon DEF TypeOK
  <2>3. \A q \in Reqs : req[q].pc = "add" => req[q].c \in Conns \ {c}
    BY <1>0, <2>1, Belongs, Zenon DEF Accounted
  <2>4. QED
    BY <1>0, <1>3, <2>1, <2>2, <2>3, ReadEffect DEF Accounted, Early
<1>4. ASSUME NEW r \in Reqs, Start(r)
      PROVE  Accounted'
  <2>1. /\ req[r].pc = "add" /\ req[r].c \in Conns /\ active' = active \cup {r}
        /\ at' = [at EXCEPT ![req[r].c] = "loop"]
    BY <1>0, <1>4, Belongs, Zenon DEF Start
  <2>2. at \in [Conns -> {"new", "accepted", "handshake", "loop", "add", "teardown",
                       "closefiles", "forget", "gone"}]
    BY <1>0, Zenon DEF TypeOK
  <2>3. /\ \A q \in Reqs : q # r => req'[q] = req[q]
        /\ req'[r].c = req[r].c /\ req'[r].pc = "start"
    BY <1>4, Effects, ZenonT(60) DEF Same, Becomes
  <2>4. QED
    BY <1>0, <2>1, <2>2, <2>3, Belongs DEF Accounted, Early
<1>5. ASSUME NEW r \in Reqs, Carry(r)
      PROVE  Accounted'
  <2>1. /\ UNCHANGED <<active, at>> /\ \A q \in Reqs : q # r => req'[q] = req[q]
        /\ req'[r].c = req[r].c /\ req[r].pc \notin {"new", "add", "done"}
        /\ req'[r].pc \notin {"new", "add", "done"}
    BY <1>5, CarryEffect, Zenon DEF PCs
  <2>2. QED
    BY <2>1 DEF Accounted
<1>6. ASSUME NEW r \in Reqs, WriteResponse(r)
      PROVE  Accounted'
  <2>1. req[r].pc = "reply" /\ active' = active \ {r} /\ at' = at
    BY <1>6, Zenon DEF WriteResponse
  <2>2. /\ \A q \in Reqs : q # r => req'[q] = req[q]
        /\ req'[r].c = req[r].c /\ req'[r].pc = "done"
    BY <1>6, Effects, ZenonT(60) DEF Same, Becomes
  <2>3. QED
    BY <2>1, <2>2 DEF Accounted
<1>7. QED
  BY <1>1, <1>2, <1>3, <1>4, <1>5, <1>6, Zenon DEF Next, Step, ReqStep, Carry

\* ... until the wait is over only a client closes a connection ...
LEMMA NextClosedByClient == TInv /\ Accounted /\ ClosedByClient /\ [Next]_vars => ClosedByClient'
<1> SUFFICES ASSUME TInv, Accounted, ClosedByClient, [Next]_vars, shut' \in {"no", "wait"}
             PROVE  ClosedByClient'
  BY Zenon DEF ClosedByClient
<1> USE DEF srvVars, connVars, fsVars
<1>0. /\ TypeOK /\ Fields
      /\ at \in [Conns -> {"new", "accepted", "handshake", "loop", "add", "teardown",
                          "closefiles", "forget", "gone"}]
  BY Zenon DEF TInv, TypeOK
<1>1. CASE UNCHANGED vars \/ Serve \/ Shutdown \/ Wait
  BY <1>1, Zenon DEF ClosedByClient, vars, stepVars, Serve, Shutdown, Wait
<1>2. ASSUME NEW c \in Conns, Accept(c) \/ handleHandshake(c) \/ ConnStep(c) \/ Drop(c)
      PROVE  ClosedByClient'
  <2>1. UNCHANGED <<shut, req>>
    BY <1>2, Zenon DEF Accept, handleHandshake, ConnStep, Drop, Register, ReadFail, CloseSession,
                CloseFiles, Forget
  <2>2. CASE Accept(c) \/ Register(c) \/ Drop(c)
    BY <1>0, <2>1, <2>2, Zenon DEF ClosedByClient, Accept, Register, Drop, Ending
  <2>3. CASE handleHandshake(c)
    BY <1>0, <2>1, <2>3, Zenon DEF ClosedByClient, Accounted, handleHandshake, Ending, Early
  <2>4. CASE ReadFail(c)
    BY <1>0, <2>1, <2>4, Zenon DEF ClosedByClient, ReadFail, Ending
  <2>5. CASE CloseSession(c) \/ CloseFiles(c) \/ Forget(c)
    BY <1>0, <2>1, <2>5, Zenon DEF ClosedByClient, CloseSession, CloseFiles, Forget, Ending
  <2>6. QED
    BY <1>2, <2>2, <2>3, <2>4, <2>5, Zenon DEF ConnStep
<1>3. ASSUME NEW c \in Conns, NEW r \in scn.reqs, NEW k \in scn.kinds, NEW h \in Handles,
             ReadRequest(c, r, k, h)
      PROVE  ClosedByClient'
  <2>1. UNCHANGED <<shut, sock, peer>> /\ at[c] = "loop" /\ at' = [at EXCEPT ![c] = "add"]
    BY <1>3, Zenon DEF ReadRequest
  <2>2. QED
    BY <1>0, <1>3, <2>1, ReadEffect DEF ClosedByClient, Ending
<1>4. ASSUME NEW r \in Reqs, Start(r)
      PROVE  ClosedByClient'
  <2>1. /\ req[r].pc = "add" /\ req[r].c \in Conns /\ at[req[r].c] = "add"
        /\ at' = [at EXCEPT ![req[r].c] = "loop"] /\ UNCHANGED <<shut, sock, peer>>
    BY <1>0, <1>4, Belongs, Zenon DEF Start, Accounted
  <2>2. \A q \in Reqs : req'[q].c = req[q].c
    BY <1>4, Effects, ZenonT(60) DEF Same, Becomes
  <2>3. QED
    BY <1>0, <2>1, <2>2, Zenon DEF ClosedByClient, Ending
<1>5. ASSUME NEW r \in Reqs, Carry(r) \/ WriteResponse(r)
      PROVE  ClosedByClient'
  <2>1. UNCHANGED <<shut, at, sock, peer>>
    BY <1>5, CarryEffect, Zenon DEF WriteResponse
  <2>2. \A q \in Reqs : req'[q].c = req[q].c
    BY <1>5, CarryEffect, Effects, ZenonT(60) DEF Same, Becomes
  <2>3. QED
    BY <2>1, <2>2, Zenon DEF ClosedByClient
<1>6. QED
  BY <1>1, <1>2, <1>3, <1>4, <1>5, Zenon DEF Next, Step, ReqStep, Carry

\* ... and so each request Shutdown found answers.
LEMMA NextPromises == GInv /\ [Next]_vars => Promises'
<1> SUFFICES ASSUME GInv, [Next]_vars PROVE Promises'
  BY Zenon
<1> USE DEF srvVars, connVars, fsVars
<1>0. /\ TInv /\ TypeOK /\ Fields /\ Accounted /\ ClosedByClient /\ Promises
      /\ promised \subseteq Reqs /\ shut \in {"no", "wait", "clean", "expired"}
  BY Zenon DEF GInv, TInv, TypeOK
<1>1. CASE UNCHANGED vars \/ Serve
  BY <1>0, <1>1, Zenon DEF Promises, vars, stepVars, Serve
<1>2. CASE Shutdown
  BY <1>0, <1>2, Zenon DEF Promises, Shutdown, Accounted
<1>3. CASE Wait
  BY <1>0, <1>3, Zenon DEF Promises, Wait, Accounted
<1>4. ASSUME NEW c \in Conns, Accept(c) \/ handleHandshake(c) \/ ConnStep(c) \/ Drop(c)
      PROVE  Promises'
  <2>1. UNCHANGED <<shut, promised, req>> /\ peer' \subseteq peer
    BY <1>4, Zenon DEF Accept, handleHandshake, ConnStep, Drop, Register, ReadFail, CloseSession,
                CloseFiles, Forget
  <2>2. QED
    BY <1>0, <2>1, Zenon DEF Promises
<1>5. ASSUME NEW c \in Conns, NEW r \in scn.reqs, NEW k \in scn.kinds, NEW h \in Handles,
             ReadRequest(c, r, k, h)
      PROVE  Promises'
  <2>1. UNCHANGED <<shut, promised, peer>>
    BY <1>5, Zenon DEF ReadRequest
  <2>2. QED
    BY <1>0, <1>5, <2>1, ReadEffect DEF Promises
<1>6. ASSUME NEW r \in Reqs, Start(r)
      PROVE  Promises'
  <2>1. req[r].pc = "add" /\ UNCHANGED <<shut, promised, peer>>
    BY <1>6, Zenon DEF Start
  <2>2. r \notin promised /\ \A q \in Reqs : q # r => req'[q] = req[q]
    BY <1>0, <1>6, <2>1, Effects, Zenon DEF Same, Becomes, Promises
  <2>3. QED
    BY <1>0, <2>1, <2>2, Zenon DEF Promises
<1>7. ASSUME NEW r \in Reqs, Carry(r)
      PROVE  Promises'
  BY <1>0, <1>7, CarryEffect DEF Promises
<1>8. ASSUME NEW r \in Reqs, WriteResponse(r)
      PROVE  Promises'
  <2> DEFINE c == req[r].c
  <2>1. /\ req[r].pc = "reply" /\ c \in Conns /\ UNCHANGED <<shut, promised, peer>>
    BY <1>0, <1>8, Belongs, Zenon DEF WriteResponse
  <2>2. /\ \A q \in Reqs : q # r => req'[q] = req[q]
        /\ req'[r].c = c /\ req'[r].pc = "done"
        /\ req'[r].res = IF c \in sock \cap peer THEN "sent" ELSE "lost"
    BY <1>0, <1>8, Effects, ZenonT(60) DEF Same, Becomes
  <2>3. r \in promised => shut \in {"wait", "expired"}
    BY <1>0, <2>1, Zenon DEF Promises
  <2>4. shut = "wait" => c \in sock \/ c \notin peer
    BY <1>0, <2>1, Zenon DEF ClosedByClient, Accounted, Early
  <2>5. QED
    BY <1>0, <2>1, <2>2, <2>3, <2>4, Zenon DEF Promises
<1>9. QED
  BY <1>1, <1>2, <1>3, <1>4, <1>5, <1>6, <1>7, <1>8, Zenon DEF Next, Step, ReqStep, Carry

\* The three together.
LEMMA GInvHolds == Spec => []GInv
<1>1. GInv /\ [Next]_vars => GInv'
  BY NextTInv, NextAccounted, NextClosedByClient, NextPromises, Zenon DEF GInv
<1>2. QED
  BY <1>1, InitGInv, PTL DEF Spec

(***************************************************************************)
(* Shutdown waits on Server.active: a Shutdown that returns without error  *)
(* leaves no request it found being handled unfinished, and each was       *)
(* answered unless its client had left, whatever else connections, clients *)
(* and requests do while it waits.                                         *)
(***************************************************************************)
THEOREM GraceIsKept == Spec => []GraceKept
<1>1. GInv => GraceKept
  BY Zenon DEF GInv, Promises, GraceKept
<1>2. QED
  BY <1>1, GInvHolds, PTL

\* With connections established beforehand.
Swept ==
  scn.established =>
    /\ \A c \in Conns : at[c] \notin Early
    /\ \A c \in Conns : at[c] \in {"loop", "add"} => c \in activeConn
    /\ shut \in {"clean", "expired"} =>
         \A c \in Conns : at[c] \in {"loop", "add"} => c \notin sock

\* Every established connection is in activeConn, and the sweep closes it.
LEMMA NextSwept == TInv /\ Accounted /\ Swept /\ [Next]_vars => Swept'
<1> SUFFICES ASSUME TInv, Accounted, Swept, [Next]_vars, scn'.established PROVE Swept'
  BY Zenon DEF Swept
<1> USE DEF srvVars, connVars, fsVars
<1>0. /\ TypeOK /\ Fields /\ scn' = scn
      /\ at \in [Conns -> {"new", "accepted", "handshake", "loop", "add", "teardown",
                          "closefiles", "forget", "gone"}]
  BY Zenon DEF TInv, TypeOK, Next, vars
<1>1. CASE UNCHANGED vars \/ Serve \/ Shutdown \/ Wait
  BY <1>0, <1>1, Zenon DEF Swept, vars, stepVars, Serve, Shutdown, Wait
<1>2. ASSUME NEW c \in Conns, Accept(c) \/ handleHandshake(c) \/ ConnStep(c) \/ Drop(c)
      PROVE  Swept'
  BY <1>0, <1>2, ZenonT(60) DEF Swept, Early, Accept, handleHandshake, ConnStep, Drop, Register, ReadFail,
                    CloseSession, CloseFiles, Forget
<1>3. ASSUME NEW c \in Conns, NEW r \in scn.reqs, NEW k \in scn.kinds, NEW h \in Handles,
             ReadRequest(c, r, k, h)
      PROVE  Swept'
  BY <1>0, <1>3, Zenon DEF Swept, Early, ReadRequest
<1>4. ASSUME NEW r \in Reqs, Start(r)
      PROVE  Swept'
  BY <1>0, <1>4, Belongs, Zenon DEF Swept, Early, Start, Accounted
<1>5. ASSUME NEW r \in Reqs, Carry(r) \/ WriteResponse(r)
      PROVE  Swept'
  <2>1. UNCHANGED <<shut, at, sock, activeConn>>
    BY <1>5, CarryEffect, Zenon DEF WriteResponse
  <2>2. QED
    BY <1>0, <2>1, Zenon DEF Swept
<1>6. QED
  BY <1>1, <1>2, <1>3, <1>4, <1>5, Zenon DEF Next, Step, ReqStep, Carry

(***************************************************************************)
(* Shutdown closes every connection that was established when it was       *)
(* called: once it has returned no client can go on using one, although    *)
(* requests are read, carried out and abandoned meanwhile.  (A connection  *)
(* being accepted as Shutdown runs may be left open.)                      *)
(***************************************************************************)
THEOREM EstablishedAreClosed == Spec => [](scn.established => ConnectionsClosed)
<1>1. Init => Swept
  BY DEF Init, Swept, Early
<1>2. GInv /\ Swept => (scn.established => ConnectionsClosed)
  BY Zenon DEF Swept, ConnectionsClosed, GInv, TInv, TypeOK, Early
<1>3. GInv /\ Swept /\ [Next]_vars => Swept'
  BY NextSwept, Zenon DEF GInv
<1>4. QED
  BY <1>1, <1>2, <1>3, GInvHolds, PTL DEF Spec

-----------------------------------------------------------------------------
(* Handles and descriptors *)

\* srvSession.next does not come round: an open finds it below 2^32 - 1.
CountsUp == \A g \in Reqs : next[g] < next'[g] \/ next'[g] = next[g]

\* The open files of a session and the table of its handles.
Tables ==
  /\ \A e \in handles :
       /\ e.h <= next[e.g]
       /\ req[e.fd].pc \in {"reply", "done"} /\ req[e.fd].kind = "open"
       /\ req[e.fd].g = e.g /\ req[e.fd].h = e.h
  /\ \A d, e \in handles : d.g = e.g /\ d.h = e.h => d = e
  /\ \A r \in Reqs : fds[r] = "open" =>
       \/ req[r].pc \in {"opened", "insert"}
       \/ \E e \in handles : e.fd = r

\* Steps that neither open, close nor number a file.
LEMMA QuietTables ==
  ASSUME TInv, Tables, UNCHANGED <<next, handles, fds>>,
         \A r \in Reqs :
           \/ /\ req'[r].pc = req[r].pc /\ req'[r].kind = req[r].kind
              /\ req'[r].g = req[r].g /\ req'[r].h = req[r].h
           \/ req[r].pc = "opened" /\ req'[r].pc = "insert"
           \/ req[r].pc \notin {"opened", "insert", "reply", "done"}
           \/ /\ req[r].pc = "reply" /\ req'[r].pc = "done" /\ req'[r].kind = req[r].kind
              /\ req'[r].g = req[r].g /\ req'[r].h = req[r].h
  PROVE  Tables'
<1>1. \A e \in handles : e.fd \in Reqs
  BY Zenon DEF TInv, TypeOK
<1>2. QED
  BY <1>1 DEF Tables

\* An open takes a handle nobody has, and a close removes one entry.
LEMMA NextTables == TInv /\ Tables /\ [Next]_vars /\ [CountsUp]_next => Tables'
<1> SUFFICES ASSUME TInv, Tables, [Next]_vars, [CountsUp]_next PROVE Tables'
  BY Zenon
<1> USE DEF srvVars, connVars, fsVars
<1>0. /\ TypeOK /\ Fields
      /\ \A e \in handles : e.g \in Reqs /\ e.h \in Nat /\ e.fd \in Reqs /\ next[e.g] \in Nat
  BY DEF TInv, TypeOK, Handles
<1>1. CASE UNCHANGED vars \/ Serve \/ Shutdown \/ Wait
  <2>1. UNCHANGED <<next, handles, fds, req>>
    BY <1>1, Zenon DEF vars, stepVars, Serve, Shutdown, Wait
  <2>2. QED
    BY <2>1, QuietTables, Zenon
<1>2. ASSUME NEW c \in Conns, Accept(c) \/ handleHandshake(c) \/ ConnStep(c) \/ Drop(c)
      PROVE  Tables'
  <2>1. CASE CloseFiles(c)
    <3>1. UNCHANGED <<next, handles, req>> /\ \A r \in Reqs : fds'[r] = "open" => fds[r] = "open"
      BY <2>1, Zenon DEF CloseFiles
    <3>2. QED
      BY <3>1, Zenon DEF Tables
  <2>2. CASE ~CloseFiles(c)
    <3>1. UNCHANGED <<next, handles, fds, req>>
      BY <1>2, <2>2, Zenon DEF Accept, handleHandshake, ConnStep, Drop, Register, ReadFail,
                        CloseSession, Forget
    <3>2. QED
      BY <3>1, QuietTables, Zenon
  <2>3. QED
    BY <2>1, <2>2, Zenon
<1>3. ASSUME NEW c \in Conns, NEW r \in scn.reqs, NEW k \in scn.kinds, NEW h \in Handles,
             ReadRequest(c, r, k, h)
      PROVE  Tables'
  <2>1. UNCHANGED <<next, handles, fds>>
    BY <1>3, Zenon DEF ReadRequest
  <2>2. QED
    BY <1>0, <1>3, <2>1, ReadEffect, QuietTables, Zenon
<1>4. ASSUME NEW r \in Reqs,
             Start(r) \/ Other(r) \/ OpenSession(r) \/ FindSession(r) \/ GetFile(r) \/ Work(r)
               \/ WriteResponse(r)
      PROVE  Tables'
  <2>1. UNCHANGED <<next, handles, fds>>
    BY <1>4, Zenon DEF Start, Other, OpenSession, FindSession, GetFile, Work, WriteResponse
  <2>2. CASE OpenSession(r) \/ WriteResponse(r)
    BY <2>1, <2>2, Effects, QuietTables, ZenonT(60) DEF Same, Becomes, OpenSession, WriteResponse
  <2>3. CASE ~(OpenSession(r) \/ WriteResponse(r))
    <3>1. req[r].pc \notin {"opened", "insert", "reply", "done"}
      BY <1>4, <2>3, Zenon DEF Start, Other, FindSession, GetFile, Work
    <3>2. \A q \in Reqs : q # r => req'[q] = req[q]
      BY <1>4, <2>3, Effects, Zenon DEF Same, Becomes
    <3>3. QED
      BY <2>1, <3>1, <3>2, QuietTables, Zenon
  <2>4. QED
    BY <2>2, <2>3, Zenon
<1>5. ASSUME NEW r \in Reqs, OpenFile(r)
      PROVE  Tables'
  <2>1. UNCHANGED <<next, handles>> /\ req[r].pc = "start"
    BY <1>5, Zenon DEF OpenFile
  <2>2. CASE Same(r, "reply", "error") /\ fds' = fds
    BY <2>1, <2>2, QuietTables, Zenon DEF Same, Becomes
  <2>3. CASE Same(r, "opened", req[r].res) /\ fds' = [fds EXCEPT ![r] = "open"]
    <3>1. \A q \in Reqs : q # r => fds'[q] = fds[q]
      BY <1>0, <2>3, Zenon DEF TypeOK
    <3>2. QED
      BY <1>0, <2>1, <2>3, <3>1 DEF Tables, Same, Becomes
  <2>4. QED
    BY <1>5, <2>2, <2>3, Effects, ZenonT(60)
<1>6. ASSUME NEW r \in Reqs, OpenInsert(r)
      PROVE  Tables'
  <2> DEFINE g == req[r].g  h == Next1(next[g])  new == [g |-> g, h |-> h, fd |-> r]
  <2>1. /\ req[r].pc = "insert" /\ g \in Reqs /\ next[g] \in Handles /\ h \in Handles
        /\ next' = [next EXCEPT ![g] = h]
    BY <1>6, OpenInsertEffect, Zenon
  <2>2. \A i \in Reqs : next'[i] = IF i = g THEN h ELSE next[i]
    BY <1>0, <2>1, Zenon DEF TypeOK
  <2>3. h = next[g] + 1
    BY <2>1, <2>2, ServerAssumption DEF Next1, Handles, CountsUp
  <2>4. /\ \A q \in Reqs : q # r => req'[q] = req[q]
        /\ req'[r].pc = "reply" /\ req'[r].kind = "open" /\ req'[r].g = g
    BY <1>6, OpenInsertEffect, Zenon DEF Same, Becomes
  <2>5. /\ \/ handles' = handles /\ fds' = [fds EXCEPT ![r] = "closed"]
           \/ /\ handles' = {e \in handles : <<e.g, e.h>> # <<g, h>>} \cup {new}
              /\ fds' = fds /\ req'[r].h = h
    BY <1>6, OpenInsertEffect, Zenon DEF Becomes
  <2> HIDE DEF h
  <2>6. h \in Nat /\ \A e \in handles : /\ e.h <= next'[e.g] /\ e.fd # r
                                        /\ ~(e.g = g /\ e.h = h)
    BY <1>0, <2>1, <2>2, <2>3 DEF Tables, Handles
  <2>7. CASE handles' = handles /\ fds' = [fds EXCEPT ![r] = "closed"]
    <3>1. \A q \in Reqs : fds'[q] = "open" => q # r /\ fds[q] = "open"
      BY <1>0, <2>7, Zenon DEF TypeOK
    <3>2. QED
      BY <1>0, <2>4, <2>6, <2>7, <3>1 DEF Tables
  <2>8. CASE handles' = handles \cup {new} /\ fds' = fds /\ req'[r].h = h
    <3>1. new.g = g /\ new.h = h /\ new.fd = r /\ h <= next'[g]
      BY <2>1, <2>2, <2>6
    <3> HIDE DEF new
    <3>2. \A e \in handles' :
            /\ e.h <= next'[e.g]
            /\ req'[e.fd].pc \in {"reply", "done"} /\ req'[e.fd].kind = "open"
            /\ req'[e.fd].g = e.g /\ req'[e.fd].h = e.h
      BY <1>0, <2>4, <2>6, <2>8, <3>1 DEF Tables
    <3>3. \A d, e \in handles' : d.g = e.g /\ d.h = e.h => d = e
      BY <2>6, <2>8, <3>1 DEF Tables
    <3>4. \A q \in Reqs : fds'[q] = "open" =>
            \/ req'[q].pc \in {"opened", "insert"}
            \/ \E e \in handles' : e.fd = q
      BY <2>4, <2>8, <3>1 DEF Tables
    <3>5. QED
      BY <3>2, <3>3, <3>4, Zenon DEF Tables
  <2>9. {e \in handles : <<e.g, e.h>> # <<g, h>>} = handles
    BY <2>6, Zenon
  <2>10. QED
    BY <2>5, <2>7, <2>8, <2>9, Zenon
<1>7. ASSUME NEW r \in Reqs, Remove(r)
      PROVE  Tables'
  <2>1. req[r].pc = "remove" /\ next' = next
    BY <1>7, Zenon DEF Remove
  <2>2. \A q \in Reqs : q # r => req'[q] = req[q]
    BY <1>7, Effects, ZenonT(60) DEF Same, Becomes
  <2>3. CASE Named(r) = {}
    <3>1. handles' = handles /\ fds' = fds
      BY <1>7, <2>3, Zenon DEF Remove
    <3>2. QED
      BY <2>1, <2>2, <3>1, QuietTables, Zenon
  <2>4. CASE Named(r) # {}
    <3> DEFINE x == CHOOSE e \in Named(r) : TRUE
    <3>1. x \in Named(r)
      BY <2>4, Zenon
    <3>2. Named(r) = {x} /\ x \in handles /\ x.fd \in Reqs
      BY <1>0, <3>1 DEF Named, Tables
    <3>3. handles' = handles \ {x} /\ fds' = [fds EXCEPT ![x.fd] = "closed"]
      BY <1>7, <2>4, <3>2, Zenon DEF Remove
    <3> HIDE DEF x
    <3>4. \A q \in Reqs : fds'[q] = "open" => q # x.fd /\ fds[q] = "open"
      BY <1>0, <3>2, <3>3, Zenon DEF TypeOK
    <3>5. \A e \in handles : e.fd \in Reqs \ {r}
      BY <1>0, <2>1, Zenon DEF Tables
    <3>6. QED
      BY <2>1, <2>2, <3>3, <3>4, <3>5 DEF Tables
  <2>5. QED
    BY <2>3, <2>4, Zenon
<1>8. QED
  BY <1>1, <1>2, <1>3, <1>4, <1>5, <1>6, <1>7, Zenon DEF Next, Step, ReqStep

\* The tables, with what is known of connections and requests.
LEMMA TablesHold == Spec /\ [][CountsUp]_next => [](GInv /\ Tables)
<1>1. Init => Tables
  BY Zenon DEF Init, Tables
<1>2. GInv /\ Tables /\ [Next]_vars /\ [CountsUp]_next => Tables'
  BY NextTables, Zenon DEF GInv
<1>3. QED
  BY <1>1, <1>2, GInvHolds, PTL DEF Spec

(***************************************************************************)
(* While the counter of a session has not come round (srvSession.next is a *)
(* uint32), a descriptor that Open handed out and nobody has closed is in  *)
(* the table under its own handle: no later Open takes its place, and      *)
(* Close closes the file it was asked to.                                  *)
(***************************************************************************)
THEOREM HandlesStayDistinct == Spec /\ [][CountsUp]_next => []HandlesDistinct
<1>1. GInv /\ Tables => HandlesDistinct
  BY DEF GInv, TInv, TypeOK, Tables, HandlesDistinct
<1>2. QED
  BY <1>1, TablesHold, PTL

\* Connections that end between requests use one session object, which the
\* table holds until CloseSession takes it out.
OneSession ==
  ~scn.dropBusy /\ ~scn.canShutdown =>
    /\ shut = "no"
    /\ \A c \in Conns, r \in Reqs : req[r].c = c =>
         /\ c \notin peer \/ at[c] \in Ending => req[r].pc = "done"
         /\ at[c] \notin {"closefiles", "forget", "gone"} => req[r].g \in {None, sessions[c]}
         /\ at[c] = "closefiles" => req[r].g \in {None, ending[c]}
         /\ at[c] \in {"forget", "gone"} => fds[r] # "open"

\* A connection that ends between requests has one session object to close.
LEMMA NextOneSession == GInv /\ Tables /\ OneSession /\ [Next]_vars => OneSession'
<1> SUFFICES ASSUME GInv, Tables, OneSession, [Next]_vars,
                    ~scn'.dropBusy, ~scn'.canShutdown
             PROVE  OneSession'
  BY Zenon DEF OneSession
<1> USE DEF srvVars, connVars, fsVars
<1>0. /\ TInv /\ TypeOK /\ Fields /\ Accounted /\ ClosedByClient /\ scn' = scn
      /\ at \in [Conns -> {"new", "accepted", "handshake", "loop", "add", "teardown",
                          "closefiles", "forget", "gone"}]
      /\ sessions \in [Conns -> Objects] /\ ending \in [Conns -> Objects]
      /\ fds \in [Reqs -> {"none", "open", "closed"}]
  BY Zenon DEF GInv, TInv, TypeOK, Next, vars
<1>1. CASE UNCHANGED vars \/ Serve \/ Shutdown \/ Wait
  BY <1>0, <1>1 DEF OneSession, vars, stepVars, Serve, Shutdown, Wait
<1>2. ASSUME NEW c \in Conns, Accept(c) \/ Register(c)
      PROVE  OneSession'
  <2>1. /\ UNCHANGED <<shut, peer, sessions, ending, fds, req>> /\ c \in Conns
        /\ at[c] \in Early /\ \E p \in Early : at' = [at EXCEPT ![c] = p]
    BY <1>2, Zenon DEF Accept, Register, Early
  <2>2. QED
    BY <1>0, <2>1 DEF OneSession, Early, Ending
<1>3. ASSUME NEW c \in Conns, handleHandshake(c)
      PROVE  OneSession'
  BY <1>0, <1>3 DEF OneSession, handleHandshake, Ending, Accounted, Early
<1>4. ASSUME NEW c \in Conns, ReadFail(c)
      PROVE  OneSession'
  BY <1>0, <1>4 DEF OneSession, ReadFail, Ending, ClosedByClient
<1>5. ASSUME NEW c \in Conns, CloseSession(c)
      PROVE  OneSession'
  <2>1. UNCHANGED <<shut, peer, fds, req>> /\ at[c] = "teardown"
    BY <1>5, Zenon DEF CloseSession
  <2>2. CASE sessions[c] = None
    <3>1. at' = [at EXCEPT ![c] = "forget"] /\ UNCHANGED <<sessions, ending>>
      BY <1>5, <2>2, Zenon DEF CloseSession
    <3>2. \A e \in handles : e.g # None
      BY <1>0, ServerAssumption, Zenon DEF TypeOK
    <3>3. \A r \in Reqs : req[r].c = c => fds[r] # "open"
      BY <1>0, <2>1, <2>2, <3>2 DEF OneSession, Tables, Ending
    <3>4. QED
      BY <1>0, <2>1, <3>1, <3>3 DEF OneSession, Ending
  <2>3. CASE sessions[c] # None
    BY <1>0, <1>5, <2>1, <2>3 DEF CloseSession, OneSession, Ending
  <2>4. QED
    BY <2>2, <2>3, Zenon
<1>6. ASSUME NEW c \in Conns, CloseFiles(c)
      PROVE  OneSession'
  <2>1. /\ UNCHANGED <<shut, peer, sessions, ending, req>> /\ at[c] = "closefiles"
        /\ at' = [at EXCEPT ![c] = "forget"]
        /\ \A r \in Reqs : fds'[r] = "open" => fds[r] = "open"
    BY <1>6, Zenon DEF CloseFiles
  <2>2. ASSUME NEW r \in Reqs, req[r].c = c, fds[r] = "open" PROVE fds'[r] = "closed"
    <3>1. PICK e \in handles : e.fd = r
      BY <1>0, <2>1, <2>2, Zenon DEF OneSession, Tables, Ending
    <3>2. e.g # None
      BY <1>0, <3>1, ServerAssumption, Zenon DEF TypeOK
    <3>3. e.g = ending[c]
      BY <1>0, <2>1, <2>2, <3>1, <3>2 DEF OneSession, Tables
    <3>4. QED
      BY <1>6, <3>1, <3>3, Zenon DEF CloseFiles
  <2>3. \A r \in Reqs : req[r].c = c => fds'[r] # "open"
    BY <2>1, <2>2, Zenon
  <2>4. QED
    BY <1>0, <2>1, <2>3 DEF OneSession, Ending
<1>7. ASSUME NEW c \in Conns, Forget(c)
      PROVE  OneSession'
  BY <1>0, <1>7 DEF OneSession, Forget, Ending
<1>8. ASSUME NEW c \in Conns, Drop(c)
      PROVE  OneSession'
  <2>1. \A r \in Reqs : req[r].c = c => req[r].pc = "done"
    BY <1>0, <1>8, ServerAssumption DEF Drop, Busy, Accounted, Fields
  <2>2. QED
    BY <1>0, <1>8, <2>1, ZenonT(60) DEF OneSession, Drop
<1>9. ASSUME NEW c \in Conns, NEW r \in scn.reqs, NEW k \in scn.kinds, NEW h \in Handles,
             ReadRequest(c, r, k, h)
      PROVE  OneSession'
  <2>1. /\ UNCHANGED <<shut, peer, sessions, ending, fds>> /\ at[c] = "loop" /\ c \in peer
        /\ at' = [at EXCEPT ![c] = "add"]
    BY <1>9, Zenon DEF ReadRequest
  <2>2. QED
    BY <1>0, <1>9, <2>1, ReadEffect DEF OneSession, Ending
<1>10. ASSUME NEW r \in Reqs, ReqStep(r)
       PROVE  OneSession'
  <2>0. req[r].c \in Conns /\ req[r].pc \notin {"new", "done"}
    BY <1>0, <1>10, Belongs, Zenon DEF ReqStep, Start, Other, OpenFile, OpenSession, OpenInsert,
                                FindSession, Remove, GetFile, Work, WriteResponse
  <2>1. at[req[r].c] \notin Ending /\ req[r].c \in peer
    BY <1>0, <2>0, Zenon DEF OneSession
  <2>2. CASE OpenSession(r)
    <3>1. UNCHANGED <<shut, at, peer, ending, fds>>
      BY <2>2, Zenon DEF OpenSession
    <3>2. PICK g \in Reqs :
              /\ Becomes(r, "insert", g, req[r].h, req[r].fd, req[r].res)
              /\ sessions' = [sessions EXCEPT ![req[r].c] = g]
              /\ sessions[req[r].c] \in {None, g}
      BY <1>0, <2>2, Effects, Zenon
    <3>3. /\ sessions'[req[r].c] = g
          /\ \A d \in Conns : d # req[r].c => sessions'[d] = sessions[d]
      BY <1>0, <2>0, <3>2, Zenon
    <3>4. /\ \A q \in Reqs : q # r => req'[q] = req[q]
          /\ req'[r].c = req[r].c /\ req'[r].g = g
      BY <3>2, Zenon DEF Becomes
    <3>5. \A q \in Reqs, d \in Conns : req'[q].c = d =>
            /\ d \notin peer \/ at[d] \in Ending => req'[q].pc = "done"
            /\ at[d] = "closefiles" => req'[q].g \in {None, ending[d]}
            /\ at[d] \in {"forget", "gone"} => fds[q] # "open"
      BY <1>0, <2>1, <3>4 DEF OneSession, Ending
    <3>6. \A q \in Reqs, d \in Conns :
            req'[q].c = d /\ at[d] \notin {"closefiles", "forget", "gone"} => req'[q].g \in {None, sessions'[d]}
      BY <1>0, <3>2, <3>3, <3>4 DEF OneSession
    <3>7. QED
      BY <1>0, <3>1, <3>5, <3>6, Zenon DEF OneSession
  <2>3. CASE ~OpenSession(r)
    <3>1. /\ UNCHANGED <<sessions, ending, peer, shut>>
          /\ \A c \in Conns : at'[c] = at[c] \/ (at'[c] = "loop" /\ at[c] = "add")
      BY <1>0, <1>10, <2>0, <2>3, Zenon DEF ReqStep, Start, Other, OpenFile, OpenInsert, Accounted,
                                FindSession, Remove, GetFile, Work, WriteResponse
    <3>2. /\ \A q \in Reqs : q # r => req'[q] = req[q]
          /\ req'[r].c = req[r].c /\ req'[r].g \in {req[r].g, sessions[req[r].c]}
      BY <1>0, <1>10, <2>3, Effects, OpenInsertEffect, ZenonT(60) DEF ReqStep, Same, Becomes
    <3>3. \A q \in Reqs : fds'[q] = "open" => fds[q] = "open" \/ q = r
      BY <1>0, <1>10, <2>3, Zenon DEF ReqStep, Start, Other, OpenFile, OpenInsert,
                                FindSession, Remove, GetFile, Work, WriteResponse
    <3>4. QED
      BY <1>0, <2>0, <2>1, <3>1, <3>2, <3>3 DEF OneSession, Ending
  <2>4. QED
    BY <2>2, <2>3, Zenon
<1>11. QED
  BY <1>1, <1>2, <1>3, <1>4, <1>5, <1>6, <1>7, <1>8, <1>9, <1>10, ZenonT(60) DEF Next, Step, ConnStep

(***************************************************************************)
(* When connections end between requests, and the counters have not come   *)
(* round, the CloseSession of a connection closes every file its requests  *)
(* left open, so a connection that is gone leaves no descriptor behind.    *)
(***************************************************************************)
THEOREM NothingLeaks == Spec /\ [][CountsUp]_next => []NoDescriptorLeak
<1>1. Init => OneSession
  BY ServerAssumption DEF Init, OneSession, NoRequest, Ending
<1>2. GInv /\ Tables /\ OneSession => NoDescriptorLeak
  <2> SUFFICES ASSUME GInv, Tables, OneSession, ~scn.dropBusy, ~scn.canShutdown,
                      NEW r \in Reqs, fds[r] = "open", at[req[r].c] = "gone"
               PROVE  FALSE
    BY Zenon DEF NoDescriptorLeak
  <2>1. req[r].c \in Conns
    BY Belongs, Zenon DEF Tables, GInv, TInv
  <2>2. QED
    BY <2>1, Zenon DEF OneSession
<1>3. QED
  BY <1>1, <1>2, TablesHold, NextOneSession, PTL DEF Spec

=============================================================================
