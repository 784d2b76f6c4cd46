---------------------------- MODULE ClientProofs ----------------------------
(***************************************************************************)
(* What holds of the client for every number of goroutines, files,         *)
(* addresses and sessions, and in all circumstances or in those a theorem  *)
(* names.                                                                  *)
(***************************************************************************)
EXTENDS Client, TLAPS

-----------------------------------------------------------------------------
(* Types *)

PCs == {"idle", "begin", "get", "lock", "dial", "login", "send", "wait", "update"}

\* The records an operation goes through.
LEMMA IdleType ==
  ASSUME TypeOK, NEW l \in 0 .. MaxOps
  PROVE  /\ Idle(l) \in OpState
         /\ \A f \in Files :
              [Idle(l) EXCEPT !.pc = "get", !.f = f, !.cnt = scn.maxRedir] \in OpState
         /\ \A f \in Files, h \in Nat :
              [Idle(l) EXCEPT !.pc = "begin", !.req = "use", !.f = f,
                              !.h = h, !.cnt = scn.maxRedir] \in OpState
<1>0. scn.maxRedir \in Nat
  BY ClientAssumption, Zenon DEF TypeOK, Scenario
<1>1. scn.maxRedir \in 0 .. scn.maxRedir /\ 0 \in 0 .. scn.maxRedir
  BY <1>0
<1>2. Idle(l) \in OpState
  BY <1>1, ClientAssumption, Zenon DEF OpState, Idle
<1>3. ASSUME NEW f \in Files, NEW x \in OpState, NEW m \in 0 .. scn.maxRedir
      PROVE  [x EXCEPT !.pc = "get", !.f = f, !.cnt = m] \in OpState
  BY ZenonT(60) DEF OpState
<1>4. ASSUME NEW f \in Files, NEW h \in Nat, NEW x \in OpState, NEW m \in 0 .. scn.maxRedir
      PROVE  [x EXCEPT !.pc = "begin", !.req = "use", !.f = f, !.h = h, !.cnt = m] \in OpState
  BY ZenonT(60) DEF OpState
<1>5. QED
  BY <1>1, <1>2, <1>3, <1>4, Zenon

LEMMA StepTypes ==
  ASSUME NEW x \in OpState
  PROVE  /\ \A p \in PCs : [x EXCEPT !.pc = p] \in OpState
         /\ \A p \in PCs, a \in Addrs : [x EXCEPT !.pc = p, !.sid = a] \in OpState
         /\ \A p \in PCs, s \in Sess : [x EXCEPT !.pc = p, !.on = s] \in OpState
         /\ \A p \in PCs, v \in {"no", "yes", "refused"} :
              [x EXCEPT !.pc = p, !.ran = v] \in OpState
         /\ [x EXCEPT !.ended = TRUE] \in OpState
         /\ [x EXCEPT !.ran = "refused"] \in OpState
         /\ \A p \in PCs : [x EXCEPT !.pc = p, !.req = "use"] \in OpState
         /\ \A p \in PCs, s \in Sess \cup {0} :
              [x EXCEPT !.pc = p, !.req = "use", !.on = s] \in OpState
         /\ \A h \in Nat : [x EXCEPT !.ran = "yes", !.h = h] \in OpState
         /\ \A n \in Nat, f \in Files :
              [x EXCEPT !.ran = "yes", !.times = n, !.did = f] \in OpState
         /\ \A a \in Addrs, m \in 0 .. scn.maxRedir :
              [x EXCEPT !.pc = "get", !.sid = a, !.sub = m] \in OpState
         /\ \A a \in Addrs, m \in 0 .. scn.maxRedir, b \in BOOLEAN :
              [x EXCEPT !.pc = "get", !.sid = a, !.cnt = m, !.moved = b] \in OpState
         /\ \A s \in Sess, a \in Addrs, m \in 0 .. scn.maxRedir :
              [x EXCEPT !.pc = "get", !.req = "reopen", !.moved = FALSE, !.keep = s,
                        !.home = a, !.sub = m] \in OpState
<1> USE DEF OpState
<1>1. ASSUME NEW p \in PCs
      PROVE  [x EXCEPT !.pc = p] \in OpState
  BY ZenonT(60) DEF PCs
<1>2. ASSUME NEW p \in PCs, NEW a \in Addrs
      PROVE  [x EXCEPT !.pc = p, !.sid = a] \in OpState
  BY ZenonT(60) DEF PCs
<1>3. ASSUME NEW p \in PCs, NEW s \in Sess
      PROVE  [x EXCEPT !.pc = p, !.on = s] \in OpState
  BY ZenonT(60) DEF PCs
<1>4. ASSUME NEW p \in PCs, NEW v \in {"no", "yes", "refused"}
      PROVE  [x EXCEPT !.pc = p, !.ran = v] \in OpState
  BY ZenonT(60) DEF PCs
<1>5. [x EXCEPT !.ended = TRUE] \in OpState
  BY Zenon
<1>6. [x EXCEPT !.ran = "refused"] \in OpState
  BY ZenonT(60)
<1>7. ASSUME NEW p \in PCs
      PROVE  [x EXCEPT !.pc = p, !.req = "use"] \in OpState
  BY ZenonT(60) DEF PCs
<1>8. ASSUME NEW p \in PCs, NEW s \in Sess \cup {0}
      PROVE  [x EXCEPT !.pc = p, !.req = "use", !.on = s] \in OpState
  BY ZenonT(60) DEF PCs
<1>9. ASSUME NEW h \in Nat
      PROVE  [x EXCEPT !.ran = "yes", !.h = h] \in OpState
  BY ZenonT(60) DEF PCs
<1>10. ASSUME NEW n \in Nat, NEW f \in Files
      PROVE  [x EXCEPT !.ran = "yes", !.times = n, !.did = f] \in OpState
  BY ZenonT(60) DEF PCs
<1>11. ASSUME NEW a \in Addrs, NEW m \in 0 .. scn.maxRedir
      PROVE  [x EXCEPT !.pc = "get", !.sid = a, !.sub = m] \in OpState
  BY ZenonT(60) DEF PCs
<1>12. ASSUME NEW a \in Addrs, NEW m \in 0 .. scn.maxRedir, NEW b \in BOOLEAN
      PROVE  [x EXCEPT !.pc = "get", !.sid = a, !.cnt = m, !.moved = b] \in OpState
  BY ZenonT(60) DEF PCs
<1>13. ASSUME NEW s \in Sess, NEW a \in Addrs, NEW m \in 0 .. scn.maxRedir
      PROVE  [x EXCEPT !.pc = "get", !.req = "reopen", !.moved = FALSE, !.keep = s, !.home = a, !.sub = m] \in OpState
  BY ZenonT(60) DEF PCs
<1> HIDE DEF OpState
<1>14. QED
  BY <1>1, <1>2, <1>3, <1>4, <1>5, <1>6, <1>7, <1>8, <1>9, <1>10, <1>11, <1>12, <1>13, Zenon

LEMMA IdleFields ==
  ASSUME NEW l
  PROVE  LET x == Idle(l) IN
         /\ x.pc = "idle" /\ x.req = "open" /\ x.moved = FALSE /\ x.f = None /\ x.sid = First
         /\ x.on = 0 /\ x.keep = 0 /\ x.home = First /\ x.h = 0 /\ x.ran = "no" /\ x.times = 0
         /\ x.did = None /\ x.left = l
BY Zenon DEF Idle

LEMMA GotFields ==
  ASSUME TypeOK, NEW o \in Ops, NEW s \in Sess
  PROVE  LET x == Got(o, s)  y == op[o] IN
         /\ x \in OpState /\ x.moved = FALSE
         /\ x.f = y.f /\ x.sid = y.sid /\ x.h = y.h /\ x.ran = y.ran
         /\ x.times = y.times /\ x.did = y.did
         /\ \/ /\ y.moved /\ x.pc = "get" /\ x.req = "reopen" /\ x.on = y.on
               /\ x.keep = s /\ x.home = y.sid
            \/ /\ ~y.moved /\ x.pc = "send" /\ x.req = y.req /\ x.on = s
               /\ x.keep = y.keep /\ x.home = y.home
<1>1. op[o] \in OpState /\ op[o].sid \in Addrs
  BY Zenon DEF TypeOK, OpState
<1>2. scn.maxRedir \in 0 .. scn.maxRedir
  BY ClientAssumption DEF TypeOK, Scenario
<1>3. CASE op[o].moved
  <2> DEFINE x == [op[o] EXCEPT !.pc = "get", !.req = "reopen", !.moved = FALSE, !.keep = s,
                       !.home = op[o].sid, !.sub = scn.maxRedir]
  <2>1. x \in OpState
    BY <1>1, <1>2, StepTypes, Zenon
  <2>2. /\ x.moved = FALSE /\ x.f = op[o].f /\ x.sid = op[o].sid /\ x.h = op[o].h /\ x.ran = op[o].ran
        /\ x.times = op[o].times /\ x.did = op[o].did /\ x.pc = "get" /\ x.req = "reopen"
        /\ x.on = op[o].on /\ x.keep = s /\ x.home = op[o].sid
    BY <1>1, Zenon DEF OpState
  <2>3. Got(o, s) = x
    BY <1>3, Zenon DEF Got
  <2> HIDE DEF x
  <2>4. QED
    BY <1>3, <2>1, <2>2, <2>3, Zenon
<1>4. CASE ~op[o].moved
  <2> DEFINE x == [op[o] EXCEPT !.pc = "send", !.on = s]
  <2>1. x \in OpState
    BY <1>1, StepTypes, Zenon DEF PCs
  <2>2. /\ x.moved = op[o].moved /\ x.f = op[o].f /\ x.sid = op[o].sid /\ x.h = op[o].h
        /\ x.ran = op[o].ran /\ x.times = op[o].times /\ x.did = op[o].did /\ x.pc = "send"
        /\ x.req = op[o].req /\ x.on = s /\ x.keep = op[o].keep /\ x.home = op[o].home
    BY <1>1, Zenon DEF OpState
  <2>3. Got(o, s) = x
    BY <1>4, Zenon DEF Got
  <2>4. op[o].moved = FALSE
    BY <1>1, <1>4, Zenon DEF OpState
  <2> HIDE DEF x
  <2>5. QED
    BY <1>4, <2>1, <2>2, <2>3, <2>4, Zenon
<1>5. QED
  BY <1>3, <1>4, Zenon

LEMMA FollowFields ==
  ASSUME TypeOK, NEW o \in Ops, NEW a \in Addrs, Budget(o) > 0
  PROVE  LET x == Follow(o, a)  y == op[o] IN
         /\ x \in OpState /\ x.pc = "get" /\ x.sid = a /\ x.req = y.req
         /\ x.f = y.f /\ x.h = y.h /\ x.ran = y.ran /\ x.times = y.times /\ x.did = y.did
         /\ x.on = y.on /\ x.keep = y.keep /\ x.home = y.home
         /\ x.moved = IF y.req = "reopen" THEN y.moved ELSE y.req = "use"
<1>1. /\ op[o] \in OpState /\ op[o].sub \in 0 .. scn.maxRedir /\ op[o].cnt \in 0 .. scn.maxRedir
      /\ scn.maxRedir \in Nat
  BY ClientAssumption, Zenon DEF TypeOK, OpState, Scenario
<1>2. CASE op[o].req = "reopen"
  <2> DEFINE m == op[o].sub - 1  x == [op[o] EXCEPT !.pc = "get", !.sid = a, !.sub = m]
  <2>1. m \in 0 .. scn.maxRedir
    BY <1>1, <1>2 DEF Budget
  <2>2. Follow(o, a) = x
    BY <1>2, Zenon DEF Follow
  <2> HIDE DEF m
  <2>3. x \in OpState
    BY <1>1, <2>1, StepTypes, Zenon
  <2>4. /\ x.pc = "get" /\ x.sid = a /\ x.req = op[o].req
        /\ x.f = op[o].f /\ x.h = op[o].h /\ x.ran = op[o].ran /\ x.times = op[o].times
        /\ x.did = op[o].did /\ x.on = op[o].on /\ x.keep = op[o].keep /\ x.home = op[o].home
        /\ x.moved = op[o].moved
    BY <1>1, Zenon DEF OpState
  <2> HIDE DEF x
  <2>5. QED
    BY <1>2, <2>2, <2>3, <2>4, Zenon
<1>3. CASE op[o].req # "reopen"
  <2> DEFINE m == op[o].cnt - 1  b == op[o].req = "use"
             x == [op[o] EXCEPT !.pc = "get", !.sid = a, !.cnt = m, !.moved = b]
  <2>1. m \in 0 .. scn.maxRedir /\ b \in BOOLEAN
    BY <1>1, <1>3 DEF Budget
  <2>2. Follow(o, a) = x
    BY <1>3, Zenon DEF Follow
  <2> HIDE DEF m, b
  <2>3. x \in OpState
    BY <1>1, <2>1, StepTypes, Zenon
  <2>4. /\ x.pc = "get" /\ x.sid = a /\ x.req = op[o].req
        /\ x.f = op[o].f /\ x.h = op[o].h /\ x.ran = op[o].ran /\ x.times = op[o].times
        /\ x.did = op[o].did /\ x.on = op[o].on /\ x.keep = op[o].keep /\ x.home = op[o].home
        /\ x.moved = b
    BY <1>1, Zenon DEF OpState
  <2> HIDE DEF x
  <2>5. QED
    BY <1>3, <2>2, <2>3, <2>4, Zenon DEF b
<1>4. QED
  BY <1>2, <1>3, Zenon

\* What the place an operation has reached says about its fields.
Shape ==
  \A o \in Ops :
    /\ op[o].pc = "idle" <=> op[o].f = None
    /\ op[o].pc \in {"begin", "update"} => op[o].req = "use"
    /\ op[o].moved => op[o].req = "use" /\ op[o].pc \in {"get", "lock", "dial", "login"}
    /\ op[o].pc \in {"login", "send", "wait"} => op[o].on \in Sess
    /\ op[o].req = "reopen" => op[o].keep \in Sess

TInv == TypeOK /\ Shape

\* How a step changes the operation it is a step of: where it leaves it ...
Is(o, p, r, m, a, s, v) ==
  /\ op'[o].pc = p /\ op'[o].req = r /\ op'[o].moved = m /\ op'[o].sid = a
  /\ op'[o].on = s /\ op'[o].ran = v
At(o, p, r, m, a, s, v) ==
  /\ op' \in [Ops -> OpState]
  /\ \A q \in Ops : q # o => op'[q] = op[q]
  /\ Is(o, p, r, m, a, s, v)

\* ... with its other fields as they were, or new.
Same(o) ==
  /\ op'[o].f = op[o].f /\ op'[o].h = op[o].h /\ op'[o].keep = op[o].keep
  /\ op'[o].home = op[o].home /\ op'[o].times = op[o].times /\ op'[o].did = op[o].did
Fresh(o, f, h) ==
  /\ op'[o].f = f /\ op'[o].h = h /\ op'[o].keep = 0
  /\ op'[o].home = First /\ op'[o].times = 0 /\ op'[o].did = None

Failed(o) == At(o, "idle", "open", FALSE, First, 0, "no") /\ Fresh(o, None, 0) /\ Unopened(o)

\* The operation has been given session s: it goes on, or opens its file first.
HasGot(o, s) ==
  \/ At(o, "send", op[o].req, FALSE, op[o].sid, s, op[o].ran) /\ Same(o) /\ ~op[o].moved
  \/ /\ At(o, "get", "reopen", FALSE, op[o].sid, op[o].on, op[o].ran) /\ op[o].moved
     /\ op'[o].f = op[o].f /\ op'[o].h = op[o].h /\ op'[o].keep = s
     /\ op'[o].home = op[o].sid /\ op'[o].times = op[o].times /\ op'[o].did = op[o].did

LEMMA FailFields ==
  ASSUME TypeOK, UNCHANGED scn, NEW o \in Ops, Fail(o)
  PROVE  Failed(o)
<1>1. op \in [Ops -> OpState]
  BY Zenon DEF TypeOK
<1>2. Idle(op[o].left) \in OpState
  <2>1. op[o].left \in 0 .. MaxOps
    BY <1>1, Zenon DEF OpState
  <2>2. QED
    BY <2>1, IdleType, Zenon
<1>3. op' = [op EXCEPT ![o] = Idle(op[o].left)] /\ Unopened(o)
  BY Zenon DEF Fail, Set
<1> DEFINE x == Idle(op[o].left)
<1>4. op'[o] = x /\ op' \in [Ops -> OpState] /\ \A q \in Ops : q # o => op'[q] = op[q]
  BY <1>1, <1>2, <1>3, Zenon
<1>5. /\ x.pc = "idle" /\ x.req = "open" /\ x.moved = FALSE /\ x.f = None /\ x.sid = First
      /\ x.on = 0 /\ x.keep = 0 /\ x.home = First /\ x.h = 0 /\ x.ran = "no" /\ x.times = 0
      /\ x.did = None
  BY IdleFields, Zenon
<1> HIDE DEF x
<1>6. QED
  BY <1>3, <1>4, <1>5, Zenon DEF Failed, At, Is, Fresh

LEMMA HasGotFields ==
  ASSUME TypeOK, UNCHANGED scn, NEW o \in Ops, NEW s \in Sess, Set(o, Got(o, s))
  PROVE  HasGot(o, s)
<1>1. op \in [Ops -> OpState]
  BY Zenon DEF TypeOK
<1> DEFINE x == Got(o, s)  y == op[o]
<1>2. op' = [op EXCEPT ![o] = x] /\ op'[o] = x
  BY <1>1, Zenon DEF Set
<1>3. /\ x \in OpState /\ x.moved = FALSE
      /\ x.f = y.f /\ x.sid = y.sid /\ x.h = y.h /\ x.ran = y.ran
      /\ x.times = y.times /\ x.did = y.did
      /\ \/ /\ y.moved /\ x.pc = "get" /\ x.req = "reopen" /\ x.on = y.on
            /\ x.keep = s /\ x.home = y.sid
         \/ /\ ~y.moved /\ x.pc = "send" /\ x.req = y.req /\ x.on = s
            /\ x.keep = y.keep /\ x.home = y.home
  BY GotFields, Zenon
<1> HIDE DEF x
<1>4. QED
  BY <1>1, <1>2, <1>3, Zenon DEF HasGot, At, Is, Same

\* A step that sets one record, seen field by field.
LEMMA SetFields ==
  ASSUME TypeOK, NEW o \in Ops, NEW x \in OpState, Set(o, x)
  PROVE  At(o, x.pc, x.req, x.moved, x.sid, x.on, x.ran) /\ op'[o] = x
BY Zenon DEF TypeOK, Set, At, Is

LEMMA BeginEffects ==
  ASSUME TInv, UNCHANGED scn, NEW o \in Ops, NEW f \in Files
  PROVE  /\ Open(o, f) =>
              At(o, "get", "open", FALSE, First, 0, "no") /\ Fresh(o, f, 0)
         /\ ReadHandle(o, f) =>
              At(o, "begin", "use", FALSE, First, 0, "no") /\ Fresh(o, f, file[f].h)
<1>0. TypeOK
  BY Zenon DEF TInv
<1>1. op[o].left \in 0 .. MaxOps /\ op[o].left \in Nat /\ op \in [Ops -> OpState] /\ file[f].h \in Nat
  BY <1>0, ClientAssumption DEF TypeOK, OpState, FileState
<1>2. ASSUME Open(o, f)
      PROVE  At(o, "get", "open", FALSE, First, 0, "no") /\ Fresh(o, f, 0)
  <2> DEFINE x == [Idle(op[o].left - 1) EXCEPT !.pc = "get", !.f = f, !.cnt = scn.maxRedir]
  <2>1. op[o].left - 1 \in 0 .. MaxOps
    BY <1>1, <1>2, ClientAssumption DEF Open
  <2>2. x \in OpState
    BY <1>0, <2>1, IdleType, Zenon
  <2>3. /\ x.pc = "get" /\ x.req = "open" /\ x.moved = FALSE /\ x.f = f /\ x.sid = First
        /\ x.on = 0 /\ x.keep = 0 /\ x.home = First /\ x.h = 0 /\ x.ran = "no" /\ x.times = 0
        /\ x.did = None
    BY Zenon DEF Idle
  <2>4. Set(o, x)
    BY <1>2, Zenon DEF Open
  <2> HIDE DEF x
  <2>5. QED
    BY <1>0, <2>2, <2>3, <2>4, SetFields, Zenon DEF Fresh
<1>3. ASSUME ReadHandle(o, f)
      PROVE  At(o, "begin", "use", FALSE, First, 0, "no") /\ Fresh(o, f, file[f].h)
  <2> DEFINE x == [Idle(op[o].left - 1) EXCEPT !.pc = "begin", !.req = "use", !.f = f,
                                         !.h = file[f].h, !.cnt = scn.maxRedir]
  <2>1. op[o].left - 1 \in 0 .. MaxOps
    BY <1>1, <1>3, ClientAssumption DEF ReadHandle
  <2>2. x \in OpState
    BY <1>0, <1>1, <2>1, IdleType, Zenon
  <2>3. /\ x.pc = "begin" /\ x.req = "use" /\ x.moved = FALSE /\ x.f = f /\ x.sid = First
        /\ x.on = 0 /\ x.keep = 0 /\ x.home = First /\ x.h = file[f].h /\ x.ran = "no"
        /\ x.times = 0 /\ x.did = None
    BY Zenon DEF Idle
  <2>4. Set(o, x)
    BY <1>3, Zenon DEF ReadHandle
  <2> HIDE DEF x
  <2>5. QED
    BY <1>0, <2>2, <2>3, <2>4, SetFields, Zenon DEF Fresh
<1>4. QED
  BY <1>2, <1>3, Zenon

LEMMA OpEffects ==
  ASSUME TInv, UNCHANGED scn, NEW o \in Ops
  PROVE  LET y == op[o]  s == sessions[y.sid] IN
         /\ ReadSession(o) => At(o, "get", y.req, y.moved, file[y.f].sid, y.on, y.ran) /\ Same(o)
         /\ Lookup(o) => \/ s # 0 /\ HasGot(o, s)
                         \/ s = 0 /\ At(o, "lock", y.req, y.moved, y.sid, y.on, y.ran) /\ Same(o)
         /\ Lock(o) => \/ s # 0 /\ HasGot(o, s) /\ mu' = mu
                       \/ /\ s = 0 /\ mu' = o
                          /\ At(o, "dial", y.req, y.moved, y.sid, y.on, y.ran) /\ Same(o)
         /\ Dial(o) => /\ At(o, "login", y.req, y.moved, y.sid, dialled + 1, y.ran) /\ Same(o)
                       /\ dialled + 1 \in Sess
         /\ DialFail(o) => Failed(o)
         /\ Login(o) => HasGot(o, y.on) /\ y.on \in Sess
         /\ LoginFail(o) => Failed(o)
         /\ Send(o) => \/ At(o, "wait", y.req, y.moved, y.sid, y.on, "no") /\ Same(o)
                          /\ file' = file /\ st[y.on] \in {"up", "lost"}
                       \/ Failed(o)
         /\ Update(o) => At(o, "idle", "open", FALSE, First, 0, "no") /\ Fresh(o, None, 0)
         /\ CtxEnd(o) => At(o, y.pc, y.req, y.moved, y.sid, y.on, y.ran) /\ Same(o)
         /\ GiveUp(o) => Failed(o)
<1>0. TypeOK /\ op \in [Ops -> OpState] /\ op[o] \in OpState
  BY Zenon DEF TInv, TypeOK
<1> DEFINE y == op[o]  s == sessions[y.sid]
<1>1. ASSUME ReadSession(o)
      PROVE  At(o, "get", y.req, y.moved, file[y.f].sid, y.on, y.ran) /\ Same(o)
  <2> DEFINE a == file[y.f].sid  x == [y EXCEPT !.pc = "get", !.sid = a]
  <2>1. a \in Addrs
    BY <1>0, <1>1, Zenon DEF ReadSession, TInv, Shape, TypeOK, FileState, OpState
  <2>2. Set(o, x)
    BY <1>1, Zenon DEF ReadSession
  <2> HIDE DEF a
  <2>3. x \in OpState
    BY <1>0, <2>1, StepTypes, Zenon DEF PCs
  <2>4. /\ x.pc = "get" /\ x.req = y.req /\ x.moved = y.moved /\ x.sid = a /\ x.on = y.on
        /\ x.ran = y.ran /\ x.f = y.f /\ x.h = y.h /\ x.keep = y.keep /\ x.home = y.home
        /\ x.times = y.times /\ x.did = y.did
    BY <1>0, Zenon DEF OpState
  <2> HIDE DEF x
  <2>5. QED
    BY <1>0, <2>2, <2>3, <2>4, SetFields, Zenon DEF Same, a
<1>2. s \in Sess \cup {0} /\ (y.pc \in {"login", "send", "wait"} => y.on \in Sess)
  BY <1>0, Zenon DEF TypeOK, OpState, TInv, Shape
<1>3. ASSUME NEW p \in PCs, Set(o, [y EXCEPT !.pc = p])
      PROVE  At(o, p, y.req, y.moved, y.sid, y.on, y.ran) /\ Same(o)
  <2> DEFINE x == [y EXCEPT !.pc = p]
  <2>1. x \in OpState
    BY <1>0, StepTypes, Zenon
  <2>2. /\ x.pc = p /\ x.req = y.req /\ x.moved = y.moved /\ x.sid = y.sid /\ x.on = y.on
        /\ x.ran = y.ran /\ x.f = y.f /\ x.h = y.h /\ x.keep = y.keep /\ x.home = y.home
        /\ x.times = y.times /\ x.did = y.did
    BY <1>0, Zenon DEF OpState
  <2>3. Set(o, x)
    BY <1>3, Zenon
  <2> HIDE DEF x
  <2>4. QED
    BY <1>0, <2>1, <2>2, <2>3, SetFields, Zenon DEF Same
<1>4. ASSUME Lookup(o)
      PROVE  \/ s # 0 /\ HasGot(o, s)
             \/ s = 0 /\ At(o, "lock", y.req, y.moved, y.sid, y.on, y.ran) /\ Same(o)
  <2>1. CASE s # 0
    BY <1>0, <1>2, <1>4, <2>1, HasGotFields, Zenon DEF Lookup
  <2>2. CASE s = 0
    BY <1>3, <1>4, <2>2, Zenon DEF Lookup, PCs
  <2>3. QED
    BY <2>1, <2>2, Zenon
<1>5. ASSUME Lock(o)
      PROVE  \/ s # 0 /\ HasGot(o, s) /\ mu' = mu
             \/ /\ s = 0 /\ mu' = o
                /\ At(o, "dial", y.req, y.moved, y.sid, y.on, y.ran) /\ Same(o)
  <2>1. CASE s # 0
    BY <1>0, <1>2, <1>5, <2>1, HasGotFields, Zenon DEF Lock
  <2>2. CASE s = 0
    BY <1>3, <1>5, <2>2, Zenon DEF Lock, PCs
  <2>3. QED
    BY <2>1, <2>2, Zenon
<1>6. ASSUME Dial(o)
      PROVE  /\ At(o, "login", y.req, y.moved, y.sid, dialled + 1, y.ran) /\ Same(o)
             /\ dialled + 1 \in Sess
  <2> DEFINE n == dialled + 1  x == [y EXCEPT !.pc = "login", !.on = n]
  <2>1. n \in Sess
    BY <1>0, <1>6, ClientAssumption DEF Dial, TypeOK, Scenario, Sess
  <2>2. Set(o, x)
    BY <1>6, Zenon DEF Dial
  <2> HIDE DEF n
  <2>3. x \in OpState
    BY <1>0, <2>1, StepTypes, Zenon DEF PCs
  <2>4. /\ x.pc = "login" /\ x.req = y.req /\ x.moved = y.moved /\ x.sid = y.sid /\ x.on = n
        /\ x.ran = y.ran /\ x.f = y.f /\ x.h = y.h /\ x.keep = y.keep /\ x.home = y.home
        /\ x.times = y.times /\ x.did = y.did
    BY <1>0, Zenon DEF OpState
  <2> HIDE DEF x
  <2>5. QED
    BY <1>0, <2>1, <2>2, <2>3, <2>4, SetFields, Zenon DEF Same, n
<1>7. DialFail(o) \/ LoginFail(o) \/ GiveUp(o) => Failed(o)
  BY <1>0, FailFields, Zenon DEF DialFail, LoginFail, GiveUp
<1>8. Login(o) => HasGot(o, y.on) /\ y.on \in Sess
  BY <1>0, <1>2, HasGotFields, Zenon DEF Login
<1>9. ASSUME Send(o)
      PROVE  \/ At(o, "wait", y.req, y.moved, y.sid, y.on, "no") /\ Same(o)
                /\ file' = file /\ st[y.on] \in {"up", "lost"}
             \/ Failed(o)
  <2>1. CASE Fail(o)
    BY <1>0, <2>1, FailFields, Zenon
  <2> DEFINE x == [y EXCEPT !.pc = "wait", !.ran = "no"]
  <2>2. x \in OpState
    BY <1>0, StepTypes, Zenon DEF PCs
  <2>3. /\ x.pc = "wait" /\ x.req = y.req /\ x.moved = y.moved /\ x.sid = y.sid /\ x.on = y.on
        /\ x.ran = "no" /\ x.f = y.f /\ x.h = y.h /\ x.keep = y.keep /\ x.home = y.home
        /\ x.times = y.times /\ x.did = y.did
    BY <1>0, Zenon DEF OpState
  <2>4. (Set(o, x) /\ file' = file /\ st[y.on] \in {"up", "lost"}) \/ Fail(o)
    BY <1>9, Zenon DEF Send
  <2> HIDE DEF x
  <2>5. QED
    BY <1>0, <2>1, <2>2, <2>3, <2>4, SetFields, Zenon DEF Same
<1>10. ASSUME Update(o)
       PROVE  At(o, "idle", "open", FALSE, First, 0, "no") /\ Fresh(o, None, 0)
  <2>1. y.left \in 0 .. MaxOps
    BY <1>0, Zenon DEF OpState
  <2>2. Idle(y.left) \in OpState
    BY <1>0, <2>1, IdleType, Zenon
  <2> DEFINE x == Idle(y.left)
  <2>3. Set(o, x)
    BY <1>10, Zenon DEF Update
  <2>4. /\ x.pc = "idle" /\ x.req = "open" /\ x.moved = FALSE /\ x.f = None /\ x.sid = First
        /\ x.on = 0 /\ x.keep = 0 /\ x.home = First /\ x.h = 0 /\ x.ran = "no" /\ x.times = 0
        /\ x.did = None
    BY IdleFields, Zenon
  <2>5. x \in OpState
    BY <2>2, Zenon
  <2> HIDE DEF x
  <2>6. QED
    BY <1>0, <2>3, <2>4, <2>5, SetFields, Zenon DEF Fresh
<1>11. ASSUME CtxEnd(o)
       PROVE  At(o, y.pc, y.req, y.moved, y.sid, y.on, y.ran) /\ Same(o)
  <2> DEFINE x == [y EXCEPT !.ended = TRUE]
  <2>1. x \in OpState
    BY <1>0, StepTypes, Zenon
  <2>2. /\ x.pc = y.pc /\ x.req = y.req /\ x.moved = y.moved /\ x.sid = y.sid /\ x.on = y.on
        /\ x.ran = y.ran /\ x.f = y.f /\ x.h = y.h /\ x.keep = y.keep /\ x.home = y.home
        /\ x.times = y.times /\ x.did = y.did
    BY <1>0, Zenon DEF OpState
  <2>3. Set(o, x)
    BY <1>11, Zenon DEF CtxEnd
  <2> HIDE DEF x
  <2>4. QED
    BY <1>0, <2>1, <2>2, <2>3, SetFields, Zenon DEF Same
<1>12. QED
  BY <1>1, <1>4, <1>5, <1>6, <1>7, <1>8, <1>9, <1>10, <1>11, ZenonT(60)

\* What a redirection to address a leaves of an operation.
Followed(o, a) ==
  /\ Is(o, "get", op[o].req, IF op[o].req = "reopen" THEN op[o].moved ELSE op[o].req = "use",
        a, op[o].on, op[o].ran)
  /\ Same(o)

LEMMA ServerEffects ==
  ASSUME TInv, UNCHANGED scn, NEW o \in Ops
  PROVE  LET y == op[o]  hs == handles[y.on] IN
         /\ \A a \in Addrs : Redirect(o, a) =>
              \/ Failed(o)
              \/ /\ op' \in [Ops -> OpState] /\ \A q \in Ops : q # o => op'[q] = op[q]
                 /\ Followed(o, a) /\ file' = file
         /\ Execute(o) =>
              \/ /\ At(o, "wait", "use", y.moved, y.sid, y.on, "yes") /\ y.req = "use"
                 /\ y.h \in DOMAIN hs /\ handles' = handles
                 /\ op'[o].f = y.f /\ op'[o].h = y.h /\ op'[o].keep = y.keep
                 /\ op'[o].home = y.home /\ op'[o].times = y.times + 1 /\ op'[o].did = hs[y.h]
              \/ /\ At(o, "wait", "use", y.moved, y.sid, y.on, "refused") /\ Same(o)
                 /\ y.req = "use" /\ handles' = handles
              \/ /\ At(o, "wait", y.req, y.moved, y.sid, y.on, "yes") /\ y.req # "use"
                 /\ handles' = [handles EXCEPT ![y.on] = Append(@, y.f)]
                 /\ op'[o].f = y.f /\ op'[o].h = Len(hs) + 1 /\ op'[o].keep = y.keep
                 /\ op'[o].home = y.home /\ op'[o].times = y.times /\ op'[o].did = y.did
         /\ Answer(o) =>
              \/ Failed(o)
              \/ /\ At(o, "idle", "open", FALSE, First, 0, "no") /\ Fresh(o, None, 0)
                 /\ y.req = "open" /\ y.ran = "yes" /\ file' = [file EXCEPT ![y.f] = Reopened(o)]
              \/ /\ \/ At(o, "send", "use", y.moved, y.sid, y.keep, y.ran) /\ y.sid = y.home
                    \/ At(o, "get", "use", y.moved, y.sid, y.on, y.ran)
                 /\ Same(o) /\ y.req = "reopen" /\ y.ran = "yes"
                 /\ file' = [file EXCEPT ![y.f] = Reopened(o)]
              \/ /\ At(o, "update", "use", y.moved, y.sid, y.on, y.ran) /\ Same(o)
                 /\ y.req = "use" /\ y.ran = "yes" /\ file' = file
<1>0. TypeOK /\ op \in [Ops -> OpState] /\ op[o] \in OpState /\ op[o].left \in 0 .. MaxOps
  BY Zenon DEF TInv, TypeOK, OpState
<1> DEFINE y == op[o]  hs == handles[y.on]
<1>1. ASSUME NEW x \in OpState, Set(o, x)
      PROVE  At(o, x.pc, x.req, x.moved, x.sid, x.on, x.ran) /\ op'[o] = x
  BY <1>0, <1>1, SetFields, Zenon
<1>2. ASSUME NEW a \in Addrs, Redirect(o, a)
      PROVE  \/ Failed(o)
             \/ /\ op' \in [Ops -> OpState] /\ \A q \in Ops : q # o => op'[q] = op[q]
                /\ Followed(o, a) /\ file' = file
  <2>1. CASE Budget(o) > 0
    <3> DEFINE x == Follow(o, a)  b == IF y.req = "reopen" THEN y.moved ELSE y.req = "use"
    <3>1. Set(o, x) /\ file' = file
      BY <1>2, <2>1, Zenon DEF Redirect
    <3>2. /\ x \in OpState /\ x.pc = "get" /\ x.sid = a /\ x.req = y.req
          /\ x.f = y.f /\ x.h = y.h /\ x.ran = y.ran /\ x.times = y.times /\ x.did = y.did
          /\ x.on = y.on /\ x.keep = y.keep /\ x.home = y.home /\ x.moved = b
      BY <1>0, <2>1, FollowFields, Zenon
    <3> HIDE DEF x
    <3>3. At(o, "get", y.req, b, a, y.on, y.ran) /\ op'[o] = x
      BY <1>1, <3>1, <3>2, Zenon
    <3>4. QED
      BY <3>1, <3>2, <3>3, Zenon DEF At, Followed, Same
  <2>2. CASE ~(Budget(o) > 0)
    BY <1>0, <1>2, <2>2, FailFields, Zenon DEF Redirect
  <2>3. QED
    BY <2>1, <2>2, Zenon
<1>3. ASSUME Execute(o)
      PROVE  \/ /\ At(o, "wait", "use", y.moved, y.sid, y.on, "yes") /\ y.req = "use"
                /\ y.h \in DOMAIN hs /\ handles' = handles
                /\ op'[o].f = y.f /\ op'[o].h = y.h /\ op'[o].keep = y.keep
                /\ op'[o].home = y.home /\ op'[o].times = y.times + 1 /\ op'[o].did = hs[y.h]
             \/ /\ At(o, "wait", "use", y.moved, y.sid, y.on, "refused") /\ Same(o)
                /\ y.req = "use" /\ handles' = handles
             \/ /\ At(o, "wait", y.req, y.moved, y.sid, y.on, "yes") /\ y.req # "use"
                /\ handles' = [handles EXCEPT ![y.on] = Append(@, y.f)]
                /\ op'[o].f = y.f /\ op'[o].h = Len(hs) + 1 /\ op'[o].keep = y.keep
                /\ op'[o].home = y.home /\ op'[o].times = y.times /\ op'[o].did = y.did
  <2>0. y.pc = "wait" /\ y.on \in Sess /\ hs \in Seq(Files) /\ y.times \in Nat
    BY <1>0, <1>3, Zenon DEF Execute, TInv, Shape, TypeOK, OpState
  <2>1. CASE y.req = "use" /\ y.h \in DOMAIN hs
    <3> DEFINE n == y.times + 1  g == hs[y.h]
               x == [y EXCEPT !.ran = "yes", !.times = n, !.did = g]
    <3>1. n \in Nat /\ g \in Files
      BY <2>0, <2>1
    <3>2. Set(o, x) /\ handles' = handles
      BY <1>3, <2>1, Zenon DEF Execute
    <3> HIDE DEF n, g
    <3>3. x \in OpState
      BY <1>0, <3>1, StepTypes, Zenon
    <3>4. /\ x.pc = "wait" /\ x.req = "use" /\ x.moved = y.moved /\ x.sid = y.sid /\ x.on = y.on
          /\ x.ran = "yes" /\ x.f = y.f /\ x.h = y.h /\ x.keep = y.keep /\ x.home = y.home
          /\ x.times = n /\ x.did = g
      BY <1>0, <2>0, <2>1, Zenon DEF OpState
    <3> HIDE DEF x
    <3>5. QED
      BY <1>1, <2>1, <3>2, <3>3, <3>4, Zenon DEF n, g
  <2>2. CASE y.req = "use" /\ y.h \notin DOMAIN hs
    <3> DEFINE x == [y EXCEPT !.ran = "refused"]
    <3>2. Set(o, x) /\ handles' = handles
      BY <1>3, <2>2, Zenon DEF Execute
    <3>3. x \in OpState
      BY <1>0, StepTypes, Zenon
    <3>4. /\ x.pc = "wait" /\ x.req = "use" /\ x.moved = y.moved /\ x.sid = y.sid /\ x.on = y.on
          /\ x.ran = "refused" /\ x.f = y.f /\ x.h = y.h /\ x.keep = y.keep /\ x.home = y.home
          /\ x.times = y.times /\ x.did = y.did
      BY <1>0, <2>0, <2>2, Zenon DEF OpState
    <3> HIDE DEF x
    <3>5. QED
      BY <1>1, <2>2, <3>2, <3>3, <3>4, Zenon DEF Same
  <2>3. CASE y.req # "use"
    <3> DEFINE n == Len(hs) + 1  x == [y EXCEPT !.ran = "yes", !.h = n]
    <3>1. n \in Nat
      BY <2>0
    <3>2. Set(o, x) /\ handles' = [handles EXCEPT ![y.on] = Append(@, y.f)]
      BY <1>3, <2>3, Zenon DEF Execute
    <3> HIDE DEF n
    <3>3. x \in OpState
      BY <1>0, <3>1, StepTypes, Zenon
    <3>4. /\ x.pc = "wait" /\ x.req = y.req /\ x.moved = y.moved /\ x.sid = y.sid /\ x.on = y.on
          /\ x.ran = "yes" /\ x.f = y.f /\ x.h = n /\ x.keep = y.keep /\ x.home = y.home
          /\ x.times = y.times /\ x.did = y.did
      BY <1>0, <2>0, <2>3, Zenon DEF OpState
    <3> HIDE DEF x
    <3>5. QED
      BY <1>1, <2>3, <3>2, <3>3, <3>4, Zenon DEF n
  <2>4. QED
    BY <2>1, <2>2, <2>3, ZenonT(60)
<1>4. ASSUME Answer(o)
      PROVE  \/ Failed(o)
             \/ /\ At(o, "idle", "open", FALSE, First, 0, "no") /\ Fresh(o, None, 0)
                /\ y.req = "open" /\ y.ran = "yes" /\ file' = [file EXCEPT ![y.f] = Reopened(o)]
             \/ /\ \/ At(o, "send", "use", y.moved, y.sid, y.keep, y.ran) /\ y.sid = y.home
                   \/ At(o, "get", "use", y.moved, y.sid, y.on, y.ran)
                /\ Same(o) /\ y.req = "reopen" /\ y.ran = "yes"
                /\ file' = [file EXCEPT ![y.f] = Reopened(o)]
             \/ /\ At(o, "update", "use", y.moved, y.sid, y.on, y.ran) /\ Same(o)
                /\ y.req = "use" /\ y.ran = "yes" /\ file' = file
  <2>1. CASE y.ran = "refused"
    BY <1>0, <1>4, <2>1, FailFields, ZenonT(60) DEF Answer
  <2>2. CASE y.ran = "yes" /\ y.req = "open"
    <3> DEFINE x == Idle(y.left)
    <3>1. Set(o, x) /\ file' = [file EXCEPT ![y.f] = Reopened(o)]
      BY <1>4, <2>2, Zenon DEF Answer, Reopened
    <3>2. x \in OpState
      BY <1>0, IdleType, Zenon
    <3>3. /\ x.pc = "idle" /\ x.req = "open" /\ x.moved = FALSE /\ x.f = None /\ x.sid = First
          /\ x.on = 0 /\ x.keep = 0 /\ x.home = First /\ x.h = 0 /\ x.ran = "no" /\ x.times = 0
          /\ x.did = None
      BY IdleFields, Zenon
    <3> HIDE DEF x
    <3>4. QED
      BY <1>1, <2>2, <3>1, <3>2, <3>3, ZenonT(60) DEF Fresh
  <2>3. CASE y.ran = "yes" /\ y.req = "reopen" /\ y.sid = y.home
    <3> DEFINE x == [y EXCEPT !.pc = "send", !.req = "use", !.on = y.keep]
    <3>1. Set(o, x) /\ file' = [file EXCEPT ![y.f] = Reopened(o)]
      BY <1>4, <2>3, Zenon DEF Answer
    <3>2. y.keep \in Sess \cup {0}
      BY <1>0, Zenon DEF OpState
    <3>3. x \in OpState
      BY <1>0, <3>2, StepTypes, ZenonT(60) DEF PCs
    <3>4. /\ x.pc = "send" /\ x.req = "use" /\ x.moved = y.moved /\ x.sid = y.sid /\ x.on = y.keep
          /\ x.ran = y.ran /\ x.f = y.f /\ x.h = y.h /\ x.keep = y.keep /\ x.home = y.home
          /\ x.times = y.times /\ x.did = y.did
      BY <1>0, Zenon DEF OpState
    <3> HIDE DEF x
    <3>5. QED
      BY <1>1, <2>3, <3>1, <3>3, <3>4, Zenon DEF Same
  <2>4. CASE y.ran = "yes" /\ y.req = "reopen" /\ y.sid # y.home
    <3> DEFINE x == [y EXCEPT !.pc = "get", !.req = "use"]
    <3>1. Set(o, x) /\ file' = [file EXCEPT ![y.f] = Reopened(o)]
      BY <1>4, <2>4, Zenon DEF Answer
    <3>3. x \in OpState
      BY <1>0, StepTypes, Zenon DEF PCs
    <3>4. /\ x.pc = "get" /\ x.req = "use" /\ x.moved = y.moved /\ x.sid = y.sid /\ x.on = y.on
          /\ x.ran = y.ran /\ x.f = y.f /\ x.h = y.h /\ x.keep = y.keep /\ x.home = y.home
          /\ x.times = y.times /\ x.did = y.did
      BY <1>0, ZenonT(60) DEF OpState
    <3> HIDE DEF x
    <3>5. QED
      BY <1>1, <2>4, <3>1, <3>3, <3>4, Zenon DEF Same
  <2>5. CASE y.ran = "yes" /\ y.req = "use"
    <3> DEFINE x == [y EXCEPT !.pc = "update"]
    <3>1. Set(o, x) /\ file' = file
      BY <1>4, <2>5, Zenon DEF Answer
    <3>3. x \in OpState
      BY <1>0, StepTypes, Zenon DEF PCs
    <3>4. /\ x.pc = "update" /\ x.req = "use" /\ x.moved = y.moved /\ x.sid = y.sid /\ x.on = y.on
          /\ x.ran = y.ran /\ x.f = y.f /\ x.h = y.h /\ x.keep = y.keep /\ x.home = y.home
          /\ x.times = y.times /\ x.did = y.did
      BY <1>0, <2>5, Zenon DEF OpState
    <3> HIDE DEF x
    <3>5. QED
      BY <1>1, <2>5, <3>1, <3>3, <3>4, Zenon DEF Same
  <2>6. QED
    BY <1>4, <2>1, <2>2, <2>3, <2>4, <2>5, Zenon DEF Answer
<1>5. QED
  BY <1>2, <1>3, <1>4, Zenon

\* The file objects after the operations in os have ended, some of them with an error.
Dropped(os) ==
  /\ file' \in [Files -> FileState]
  /\ \A f \in Files :
       /\ file'[f].h = file[f].h /\ file'[f].sid = file[f].sid
       /\ file'[f].state = IF \E q \in os : op[q].req = "open" /\ op[q].f = f /\ op'[q].pc = "idle"
                             THEN "none" ELSE file[f].state

LEMMA FileTypes ==
  ASSUME NEW x \in FileState
  PROVE  /\ \A v \in {"none", "opening", "open"} :
              /\ [x EXCEPT !.state = v] \in FileState
              /\ LET z == [x EXCEPT !.state = v] IN z.state = v /\ z.h = x.h /\ z.sid = x.sid
         /\ \A a \in Addrs :
              /\ [x EXCEPT !.sid = a] \in FileState
              /\ LET z == [x EXCEPT !.sid = a] IN z.state = x.state /\ z.h = x.h /\ z.sid = a
BY Zenon DEF FileState

LEMMA FileEffects ==
  ASSUME TInv, UNCHANGED scn, NEW o \in Ops
  PROVE  LET y == op[o] IN
         /\ \A f \in Files : Open(o, f) =>
              /\ file' \in [Files -> FileState]
              /\ \A g \in Files : /\ file'[g].h = file[g].h /\ file'[g].sid = file[g].sid
                                  /\ file'[g].state = IF g = f THEN "opening" ELSE file[g].state
         /\ y.pc # "idle" /\ Failed(o) => Dropped({o})
         /\ y.pc # "idle" /\ file' = [file EXCEPT ![y.f] = Reopened(o)] =>
              /\ file' \in [Files -> FileState]
              /\ \A g \in Files : g # y.f => file'[g] = file[g]
              /\ file'[y.f].state = "open" /\ file'[y.f].h = y.h /\ file'[y.f].sid = y.sid
         /\ Update(o) =>
              /\ file' \in [Files -> FileState]
              /\ \A g \in Files : /\ file'[g].h = file[g].h /\ file'[g].state = file[g].state
                                  /\ file'[g].sid = IF g = y.f THEN y.sid ELSE file[g].sid
<1>0. /\ op[o] \in OpState /\ op[o].sid \in Addrs /\ op[o].h \in Nat
      /\ file \in [Files -> FileState] /\ (op[o].pc # "idle" => op[o].f \in Files)
  BY Zenon DEF TInv, TypeOK, OpState, Shape
<1> DEFINE y == op[o]
<1>1. ASSUME NEW f \in Files, Open(o, f)
      PROVE  /\ file' \in [Files -> FileState]
             /\ \A g \in Files : /\ file'[g].h = file[g].h /\ file'[g].sid = file[g].sid
                                 /\ file'[g].state = IF g = f THEN "opening" ELSE file[g].state
  <2> DEFINE z == [file[f] EXCEPT !.state = "opening"]
  <2>1. z \in FileState /\ z.state = "opening" /\ z.h = file[f].h /\ z.sid = file[f].sid
    BY <1>0, FileTypes, Zenon
  <2>2. file' = [file EXCEPT ![f] = z]
    BY <1>1, Zenon DEF Open
  <2> HIDE DEF z
  <2>3. QED
    BY <1>0, <2>1, <2>2, Zenon
<1>2. ASSUME y.pc # "idle", Failed(o)
      PROVE  Dropped({o})
  <2>1. op'[o].pc = "idle" /\ Unopened(o)
    BY <1>2, Zenon DEF Failed, At, Is
  <2>2. CASE y.req = "open"
    <3> DEFINE z == [file[y.f] EXCEPT !.state = "none"]
    <3>1. z \in FileState /\ z.state = "none" /\ z.h = file[y.f].h /\ z.sid = file[y.f].sid
      BY <1>0, <1>2, FileTypes, Zenon
    <3>2. file' = [file EXCEPT ![y.f] = z]
      BY <2>1, <2>2, Zenon DEF Unopened
    <3> HIDE DEF z
    <3>3. QED
      BY <1>0, <1>2, <2>1, <2>2, <3>1, <3>2, Zenon DEF Dropped
  <2>3. CASE y.req # "open"
    BY <1>0, <2>1, <2>3, Zenon DEF Dropped, Unopened
  <2>4. QED
    BY <2>2, <2>3, ZenonT(60)
<1>3. ASSUME y.pc # "idle", file' = [file EXCEPT ![y.f] = Reopened(o)]
      PROVE  /\ file' \in [Files -> FileState]
             /\ \A g \in Files : g # y.f => file'[g] = file[g]
             /\ file'[y.f].state = "open" /\ file'[y.f].h = y.h /\ file'[y.f].sid = y.sid
  <2> DEFINE z == Reopened(o)
  <2>1. z \in FileState /\ z.state = "open" /\ z.h = y.h /\ z.sid = y.sid
    BY <1>0, Zenon DEF Reopened, FileState
  <2> HIDE DEF z
  <2>2. QED
    BY <1>0, <1>3, <2>1, Zenon DEF z
<1>4. ASSUME Update(o)
      PROVE  /\ file' \in [Files -> FileState]
             /\ \A g \in Files : /\ file'[g].h = file[g].h /\ file'[g].state = file[g].state
                                 /\ file'[g].sid = IF g = y.f THEN y.sid ELSE file[g].sid
  <2> DEFINE z == [file[y.f] EXCEPT !.sid = y.sid]
  <2>1. y.f \in Files
    BY <1>0, <1>4, Zenon DEF Update
  <2>2. z \in FileState /\ z.state = file[y.f].state /\ z.h = file[y.f].h /\ z.sid = y.sid
    BY <1>0, <2>1, Zenon DEF FileState
  <2>3. file' = [file EXCEPT ![y.f] = z]
    BY <1>4, Zenon DEF Update
  <2> HIDE DEF z
  <2>4. QED
    BY <1>0, <2>1, <2>2, <2>3, Zenon
<1>5. QED
  BY <1>1, <1>2, <1>3, <1>4, Zenon

\* The end of sessions, told to the operations in os that wait on them.
LEMMA ToldEffects ==
  ASSUME TInv, UNCHANGED scn, NEW os \in SUBSET Ops, NEW b \in BOOLEAN, Told(os, b)
  PROVE  /\ op' \in [Ops -> OpState]
         /\ \A q \in Ops :
              \/ q \notin os /\ op'[q] = op[q]
              \/ q \in os /\ Is(q, "idle", "open", FALSE, First, 0, "no") /\ Fresh(q, None, 0)
              \/ q \in os /\ b /\ Followed(q, First)
         /\ Dropped(os)
<1>0. TypeOK /\ op \in [Ops -> OpState] /\ file \in [Files -> FileState] /\ First \in Addrs
  BY ClientAssumption, Zenon DEF TInv, TypeOK
<1>1. ASSUME NEW q \in Ops
      PROVE  /\ op'[q] \in OpState
             /\ \/ q \notin os /\ op'[q] = op[q]
                \/ q \in os /\ Is(q, "idle", "open", FALSE, First, 0, "no") /\ Fresh(q, None, 0)
                \/ q \in os /\ b /\ Followed(q, First)
  <2>1. CASE q \notin os
    BY <1>0, <2>1, Zenon DEF Told
  <2>2. CASE q \in os /\ b /\ Budget(q) > 0
    <3> DEFINE x == Follow(q, First)  y == op[q]
               c == IF y.req = "reopen" THEN y.moved ELSE y.req = "use"
    <3>1. op'[q] = x
      BY <2>2, Zenon DEF Told
    <3>2. /\ x \in OpState /\ x.pc = "get" /\ x.sid = First /\ x.req = y.req
          /\ x.f = y.f /\ x.h = y.h /\ x.ran = y.ran /\ x.times = y.times /\ x.did = y.did
          /\ x.on = y.on /\ x.keep = y.keep /\ x.home = y.home /\ x.moved = c
      BY <1>0, <2>2, FollowFields, Zenon
    <3> HIDE DEF x
    <3>3. QED
      BY <2>2, <3>1, <3>2, Zenon DEF Followed, Is, Same
  <2>3. CASE q \in os /\ ~(b /\ Budget(q) > 0)
    <3> DEFINE x == Idle(op[q].left)
    <3>1. op'[q] = x
      BY <2>3, Zenon DEF Told
    <3>2. op[q].left \in 0 .. MaxOps
      BY <1>0, Zenon DEF OpState
    <3>3. /\ x \in OpState /\ x.pc = "idle" /\ x.req = "open" /\ x.moved = FALSE /\ x.f = None
          /\ x.sid = First /\ x.on = 0 /\ x.keep = 0 /\ x.home = First /\ x.h = 0
          /\ x.ran = "no" /\ x.times = 0 /\ x.did = None
      BY <1>0, <3>2, IdleType, IdleFields, Zenon
    <3> HIDE DEF x
    <3>4. QED
      BY <2>3, <3>1, <3>3, Zenon DEF Is, Fresh
  <2>4. QED
    BY <2>1, <2>2, <2>3, Zenon
<1>2. op' \in [Ops -> OpState]
  <2>1. DOMAIN op' = Ops /\ op' = [q \in Ops |-> op'[q]]
    BY Zenon DEF Told
  <2>2. QED
    BY <1>1, <2>1, Zenon
<1>3. Dropped(os)
  <2>1. ASSUME NEW f \in Files
        PROVE  /\ file'[f] \in FileState /\ file'[f].h = file[f].h /\ file'[f].sid = file[f].sid
               /\ file'[f].state =
                     IF \E q \in os : op[q].req = "open" /\ op[q].f = f /\ op'[q].pc = "idle"
                       THEN "none" ELSE file[f].state
    <3> DEFINE z == [file[f] EXCEPT !.state = "none"]
               dropped == \E q \in os : op[q].req = "open" /\ op[q].f = f /\ op'[q].pc = "idle"
    <3>1. z \in FileState /\ z.state = "none" /\ z.h = file[f].h /\ z.sid = file[f].sid
      BY <1>0, FileTypes, ZenonT(60)
    <3>2. file'[f] = IF dropped THEN z ELSE file[f]
      BY Zenon DEF Told
    <3> HIDE DEF z, dropped
    <3>3. QED
      BY <1>0, <3>1, <3>2, Zenon DEF dropped
  <2>2. file' = [f \in Files |-> file'[f]]
    BY Zenon DEF Told
  <2>3. QED
    BY <2>1, <2>2, Zenon DEF Dropped
<1>4. QED
  BY <1>1, <1>2, <1>3, Zenon

LEMMA OpsTyped ==
  ASSUME TInv, Next
  PROVE  op' \in [Ops -> OpState] /\ Shape' /\ file' \in [Files -> FileState]
<1>0. /\ op \in [Ops -> OpState] /\ file \in [Files -> FileState] /\ Shape
      /\ None \notin Files /\ 0 \notin Sess /\ First \in Addrs /\ UNCHANGED scn
      /\ scn.ops \subseteq Ops /\ scn.files \subseteq Files /\ scn.addrs \subseteq Addrs
  BY ClientAssumption DEF TInv, TypeOK, Next, Sess, Scenario
<1>1. ASSUME NEW o \in Ops, NEW f \in Files, Open(o, f)
      PROVE  op' \in [Ops -> OpState] /\ Shape' /\ file' \in [Files -> FileState]
  <2>1. At(o, "get", "open", FALSE, First, 0, "no") /\ Fresh(o, f, 0)
    BY <1>0, <1>1, BeginEffects, Zenon
  <2>2. file' \in [Files -> FileState]
    BY <1>0, <1>1, FileEffects, Zenon
  <2>3. QED
    BY <1>0, <2>1, <2>2 DEF At, Is, Fresh, Shape
<1>2. ASSUME NEW o \in Ops, NEW f \in Files, ReadHandle(o, f)
      PROVE  op' \in [Ops -> OpState] /\ Shape' /\ file' \in [Files -> FileState]
  <2>1. At(o, "begin", "use", FALSE, First, 0, "no") /\ Fresh(o, f, file[f].h)
    BY <1>0, <1>2, BeginEffects, Zenon
  <2>2. file' = file
    BY <1>2, Zenon DEF ReadHandle
  <2>3. QED
    BY <1>0, <2>1, <2>2 DEF At, Is, Fresh, Shape
<1>3. ASSUME NEW o \in Ops, Failed(o), op[o].pc # "idle"
      PROVE  op' \in [Ops -> OpState] /\ Shape' /\ file' \in [Files -> FileState]
  <2>1. file' \in [Files -> FileState]
    BY <1>0, <1>3, FileEffects, Zenon DEF Dropped
  <2>2. QED
    BY <1>0, <1>3, <2>1 DEF Failed, At, Is, Fresh, Shape
<1>4. ASSUME NEW o \in Ops, NEW s \in Sess, HasGot(o, s), op[o].pc # "idle"
      PROVE  op' \in [Ops -> OpState] /\ Shape'
  BY <1>0, <1>4 DEF HasGot, At, Is, Same, Shape
<1>5. ASSUME NEW o \in Ops, ReadSession(o)
      PROVE  op' \in [Ops -> OpState] /\ Shape' /\ file' \in [Files -> FileState]
  <2>1. op[o].pc = "begin" /\ file' = file
    BY <1>5, Zenon DEF ReadSession
  <2>2. At(o, "get", op[o].req, op[o].moved, file[op[o].f].sid, op[o].on, op[o].ran) /\ Same(o)
    BY <1>0, <1>5, OpEffects, ZenonT(60)
  <2>3. QED
    BY <1>0, <2>1, <2>2 DEF At, Is, Same, Shape
<1>6. ASSUME NEW o \in Ops, Lookup(o) \/ Lock(o)
      PROVE  op' \in [Ops -> OpState] /\ Shape' /\ file' \in [Files -> FileState]
  <2> DEFINE s == sessions[op[o].sid]
  <2>1. op[o].pc \in {"get", "lock"} /\ file' = file /\ s \in Sess \cup {0}
    BY <1>0, <1>6, Zenon DEF Lookup, Lock, TInv, TypeOK, OpState
  <2>2. \/ s # 0 /\ HasGot(o, s)
        \/ /\ \/ At(o, "lock", op[o].req, op[o].moved, op[o].sid, op[o].on, op[o].ran)
              \/ At(o, "dial", op[o].req, op[o].moved, op[o].sid, op[o].on, op[o].ran)
           /\ Same(o)
    BY <1>0, <1>6, OpEffects, Zenon
  <2> HIDE DEF s
  <2>3. CASE s # 0 /\ HasGot(o, s)
    BY <1>0, <1>4, <2>1, <2>3, Zenon
  <2>4. QED
    BY <1>0, <2>1, <2>2, <2>3 DEF At, Is, Same, Shape
<1>7. ASSUME NEW o \in Ops, Dial(o)
      PROVE  op' \in [Ops -> OpState] /\ Shape' /\ file' \in [Files -> FileState]
  <2>1. op[o].pc = "dial" /\ file' = file
    BY <1>7, Zenon DEF Dial
  <2> DEFINE n == dialled + 1
  <2>2. /\ At(o, "login", op[o].req, op[o].moved, op[o].sid, n, op[o].ran) /\ Same(o)
        /\ n \in Sess
    BY <1>0, <1>7, OpEffects, Zenon
  <2> HIDE DEF n
  <2>3. QED
    BY <1>0, <2>1, <2>2 DEF At, Is, Same, Shape
<1>8. ASSUME NEW o \in Ops, DialFail(o) \/ LoginFail(o) \/ GiveUp(o)
      PROVE  op' \in [Ops -> OpState] /\ Shape' /\ file' \in [Files -> FileState]
  <2>1. op[o].pc # "idle"
    BY <1>8, Zenon DEF DialFail, LoginFail, GiveUp
  <2>2. Failed(o)
    BY <1>0, <1>8, OpEffects, ZenonT(60)
  <2>3. QED
    BY <1>3, <2>1, <2>2, Zenon
<1>9. ASSUME NEW o \in Ops, Login(o)
      PROVE  op' \in [Ops -> OpState] /\ Shape' /\ file' \in [Files -> FileState]
  <2>1. op[o].pc # "idle" /\ file' = file
    BY <1>9, Zenon DEF Login
  <2>2. HasGot(o, op[o].on) /\ op[o].on \in Sess
    BY <1>0, <1>9, OpEffects, ZenonT(60)
  <2>3. QED
    BY <1>0, <1>4, <2>1, <2>2, Zenon
<1>10. ASSUME NEW o \in Ops, Send(o)
       PROVE  op' \in [Ops -> OpState] /\ Shape' /\ file' \in [Files -> FileState]
  <2>1. op[o].pc = "send"
    BY <1>10, Zenon DEF Send
  <2>2. \/ At(o, "wait", op[o].req, op[o].moved, op[o].sid, op[o].on, "no") /\ Same(o) /\ file' = file
        \/ Failed(o)
    BY <1>0, <1>10, OpEffects, Zenon
  <2>3. CASE Failed(o)
    BY <1>3, <2>1, <2>3, Zenon
  <2>4. QED
    BY <1>0, <2>1, <2>2, <2>3 DEF At, Is, Same, Shape
<1>11. ASSUME NEW o \in Ops, Update(o)
       PROVE  op' \in [Ops -> OpState] /\ Shape' /\ file' \in [Files -> FileState]
  <2>1. At(o, "idle", "open", FALSE, First, 0, "no") /\ Fresh(o, None, 0)
    BY <1>0, <1>11, OpEffects, ZenonT(60)
  <2>2. file' \in [Files -> FileState]
    BY <1>0, <1>11, FileEffects, ZenonT(60)
  <2>3. QED
    BY <1>0, <2>1, <2>2 DEF At, Is, Fresh, Shape
<1>12. ASSUME NEW o \in Ops, CtxEnd(o)
       PROVE  op' \in [Ops -> OpState] /\ Shape' /\ file' \in [Files -> FileState]
  <2>1. file' = file
    BY <1>12, Zenon DEF CtxEnd
  <2>2. At(o, op[o].pc, op[o].req, op[o].moved, op[o].sid, op[o].on, op[o].ran) /\ Same(o)
    BY <1>0, <1>12, OpEffects, Zenon
  <2>3. QED
    BY <1>0, <2>1, <2>2 DEF At, Is, Same, Shape
<1>13. ASSUME NEW o \in Ops, NEW a \in Addrs, Redirect(o, a)
       PROVE  op' \in [Ops -> OpState] /\ Shape' /\ file' \in [Files -> FileState]
  <2>1. op[o].pc = "wait"
    BY <1>13, Zenon DEF Redirect
  <2>2. \/ Failed(o)
        \/ /\ op' \in [Ops -> OpState] /\ \A q \in Ops : q # o => op'[q] = op[q]
           /\ Followed(o, a) /\ file' = file
    BY <1>0, <1>13, ServerEffects, ZenonT(60)
  <2>3. CASE Failed(o)
    BY <1>3, <2>1, <2>3, Zenon
  <2>4. CASE /\ op' \in [Ops -> OpState] /\ \A q \in Ops : q # o => op'[q] = op[q]
             /\ Followed(o, a) /\ file' = file
    <3>1. /\ op'[o].pc = "get" /\ op'[o].req = op[o].req /\ op'[o].f = op[o].f
          /\ op'[o].keep = op[o].keep /\ (op'[o].moved => op'[o].req = "use")
      BY <1>0, <2>1, <2>4, Zenon DEF Followed, Is, Same, Shape
    <3>2. QED
      BY <1>0, <2>1, <2>4, <3>1 DEF Shape
  <2>5. QED
    BY <2>2, <2>3, <2>4, Zenon
<1>14. ASSUME NEW o \in Ops, Execute(o)
       PROVE  op' \in [Ops -> OpState] /\ Shape' /\ file' \in [Files -> FileState]
  <2>1. op[o].pc = "wait" /\ file' = file
    BY <1>14, Zenon DEF Execute
  <2>2. /\ \/ At(o, "wait", op[o].req, op[o].moved, op[o].sid, op[o].on, "yes")
           \/ At(o, "wait", op[o].req, op[o].moved, op[o].sid, op[o].on, "refused")
        /\ op'[o].f = op[o].f /\ op'[o].keep = op[o].keep
    BY <1>0, <1>14, ServerEffects, Zenon DEF Same
  <2>3. QED
    BY <1>0, <2>1, <2>2 DEF At, Is, Shape
<1>15. ASSUME NEW o \in Ops, Answer(o)
       PROVE  op' \in [Ops -> OpState] /\ Shape' /\ file' \in [Files -> FileState]
  <2> DEFINE y == op[o]
  <2>1. y.pc = "wait"
    BY <1>15, Zenon DEF Answer
  <2>2. \/ Failed(o)
        \/ /\ At(o, "idle", "open", FALSE, First, 0, "no") /\ Fresh(o, None, 0)
           /\ file' = [file EXCEPT ![y.f] = Reopened(o)]
        \/ /\ \/ At(o, "send", "use", y.moved, y.sid, y.keep, y.ran) /\ y.sid = y.home
              \/ At(o, "get", "use", y.moved, y.sid, y.on, y.ran)
           /\ Same(o) /\ y.req = "reopen"
           /\ file' = [file EXCEPT ![y.f] = Reopened(o)]
        \/ /\ At(o, "update", "use", y.moved, y.sid, y.on, y.ran) /\ Same(o)
           /\ y.req = "use" /\ file' = file
    BY <1>0, <1>15, ServerEffects, ZenonT(60)
  <2>3. CASE Failed(o)
    BY <1>3, <2>1, <2>3, Zenon
  <2>4. file' = [file EXCEPT ![y.f] = Reopened(o)] => file' \in [Files -> FileState]
    BY <1>0, <2>1, FileEffects, ZenonT(60)
  <2>5. CASE ~Failed(o)
    BY <1>0, <2>1, <2>2, <2>4, <2>5 DEF At, Is, Same, Fresh, Shape
  <2>6. QED
    BY <2>3, <2>5, Zenon
<1>16. ASSUME NEW os \in SUBSET Ops, NEW b \in BOOLEAN, Told(os, b), \A q \in os : op[q].pc = "wait"
       PROVE  op' \in [Ops -> OpState] /\ Shape' /\ file' \in [Files -> FileState]
  <2>1. /\ op' \in [Ops -> OpState] /\ Dropped(os)
        /\ \A q \in Ops :
             \/ q \notin os /\ op'[q] = op[q]
             \/ q \in os /\ Is(q, "idle", "open", FALSE, First, 0, "no") /\ Fresh(q, None, 0)
             \/ q \in os /\ b /\ Followed(q, First)
    BY <1>0, <1>16, ToldEffects, ZenonT(60)
  <2>2. ASSUME NEW q \in Ops
        PROVE  /\ op'[q].pc = "idle" <=> op'[q].f = None
               /\ op'[q].pc \in {"begin", "update"} => op'[q].req = "use"
               /\ op'[q].moved => op'[q].req = "use" /\ op'[q].pc \in {"get", "lock", "dial", "login"}
               /\ op'[q].pc \in {"login", "send", "wait"} => op'[q].on \in Sess
               /\ op'[q].req = "reopen" => op'[q].keep \in Sess
    <3>1. CASE q \notin os /\ op'[q] = op[q]
      BY <1>0, <3>1, ZenonT(60) DEF Shape
    <3>2. CASE Is(q, "idle", "open", FALSE, First, 0, "no") /\ Fresh(q, None, 0)
      BY <3>2, Zenon DEF Is, Fresh
    <3>3. CASE q \in os /\ Followed(q, First)
      <4>1. /\ op'[q].pc = "get" /\ op'[q].req = op[q].req /\ op'[q].f = op[q].f
            /\ op'[q].keep = op[q].keep /\ (op'[q].moved => op'[q].req = "use")
        BY <1>0, <3>3, ZenonT(60) DEF Followed, Is, Same, Shape
      <4>2. QED
        BY <1>0, <1>16, <3>3, <4>1, ZenonT(60) DEF Shape
    <3>4. QED
      BY <2>1, <3>1, <3>2, <3>3, ZenonT(60)
  <2>3. QED
    BY <2>1, <2>2, Zenon DEF Shape, Dropped
<1>17. ASSUME NEW s \in Sess, Lose(s)
       PROVE  op' \in [Ops -> OpState] /\ Shape' /\ file' \in [Files -> FileState]
  BY <1>0, <1>17, Zenon DEF Lose, Shape
<1>18. ASSUME NEW s \in Sess, handleReadError(s)
       PROVE  op' \in [Ops -> OpState] /\ Shape' /\ file' \in [Files -> FileState]
  <2>1. Told(Waiting(s), addr[s] # First) /\ (addr[s] # First) \in BOOLEAN
    BY <1>18, Zenon DEF handleReadError
  <2>2. Waiting(s) \subseteq Ops /\ \A q \in Waiting(s) : op[q].pc = "wait"
    BY Zenon DEF Waiting
  <2>3. QED
    BY <1>16, <2>1, <2>2, Zenon
<1>19. ASSUME Close
       PROVE  op' \in [Ops -> OpState] /\ Shape' /\ file' \in [Files -> FileState]
  <2> DEFINE held == {s \in Sess : \E a \in Addrs : sessions[a] = s}
             os == UNION {Waiting(s) : s \in held}
  <2>1. Told(os, FALSE)
    BY <1>19, ZenonT(60) DEF Close
  <2>2. os \subseteq Ops /\ \A q \in os : op[q].pc = "wait"
    BY Zenon DEF Waiting
  <2> HIDE DEF os
  <2>3. QED
    BY <1>16, <2>1, <2>2, Zenon
<1>20. QED
  <2>1. Step
    BY Zenon DEF Next
  <2>2. QED
    BY <1>0, <1>1, <1>2, <1>5, <1>6, <1>7, <1>8, <1>9, <1>10, <1>11, <1>12, <1>13, <1>14, <1>15,
       <1>17, <1>18, <1>19, <2>1, Zenon DEF Step, OpStep, ServerStep

LEMMA OthersTyped ==
  ASSUME TInv, Next
  PROVE  /\ mu' \in Ops \cup {None} /\ sessions' \in [Addrs -> Sess \cup {0}]
         /\ dialled' \in 0 .. MaxSess /\ addr' \in [Sess -> Addrs] /\ closed' \in BOOLEAN
         /\ st' \in [Sess -> {"none", "up", "lost", "dead"}] /\ handles' \in [Sess -> Seq(Files)]
<1> DEFINE Typed == /\ mu' \in Ops \cup {None} /\ sessions' \in [Addrs -> Sess \cup {0}]
                    /\ dialled' \in 0 .. MaxSess /\ addr' \in [Sess -> Addrs] /\ closed' \in BOOLEAN
                    /\ st' \in [Sess -> {"none", "up", "lost", "dead"}]
                    /\ handles' \in [Sess -> Seq(Files)]
<1>0. /\ TypeOK /\ scn.ops \subseteq Ops /\ scn.files \subseteq Files /\ UNCHANGED scn
      /\ FirstFull \in Addrs
  BY ClientAssumption, Zenon DEF TInv, TypeOK, Next, Scenario
<1>1. ASSUME NEW o \in Ops
      PROVE  op[o].sid \in Addrs /\ (op[o].pc # "idle" => op[o].f \in Files)
             /\ (op[o].pc \in {"login", "wait"} => op[o].on \in Sess)
  BY Zenon DEF TInv, TypeOK, OpState, Shape
<1>2. ASSUME NEW o \in Ops, NEW f \in Files, Open(o, f) \/ ReadHandle(o, f)
      PROVE  Typed
  BY <1>0, <1>2, Zenon DEF Open, ReadHandle, TypeOK
<1>3. ASSUME NEW o \in Ops,
             \/ ReadSession(o) \/ Lookup(o) \/ Lock(o) \/ Send(o) \/ Update(o) \/ GiveUp(o)
             \/ DialFail(o) \/ Answer(o) \/ CtxEnd(o) \/ \E a \in scn.addrs : Redirect(o, a)
      PROVE  Typed
  BY <1>0, <1>3, Zenon DEF ReadSession, Lookup, Lock, Send, Update, GiveUp, DialFail, Answer, CtxEnd,
     Redirect,
                    TypeOK
<1>4. ASSUME NEW o \in Ops, Dial(o)
      PROVE  Typed
  <2>1. dialled + 1 \in Sess /\ dialled + 1 \in 0 .. MaxSess
    <3>1. dialled + 1 \in Sess
      BY <1>0, <1>4, OpEffects, Zenon
    <3>2. QED
      BY <3>1, ClientAssumption DEF Sess
  <2>2. parseAddr(op[o].sid) \in Addrs
    BY <1>0, <1>1, Zenon DEF parseAddr
  <2>3. QED
    BY <1>0, <1>4, <2>1, <2>2, ZenonT(60) DEF Dial, TypeOK
<1>5. ASSUME NEW o \in Ops, Login(o) \/ LoginFail(o)
      PROVE  Typed
  BY <1>0, <1>1, <1>5, Zenon DEF Login, LoginFail, TypeOK
<1>6. ASSUME NEW o \in Ops, Execute(o)
      PROVE  Typed
  <2>1. handles' \in [Sess -> Seq(Files)]
    <3>1. op[o].on \in Sess /\ op[o].f \in Files
      BY <1>1, <1>6, Zenon DEF Execute
    <3>2. Append(handles[op[o].on], op[o].f) \in Seq(Files)
      BY <1>0, <3>1 DEF TypeOK
    <3>3. \/ handles' = handles
          \/ handles' = [handles EXCEPT ![op[o].on] = Append(@, op[o].f)]
      BY <1>6, Zenon DEF Execute
    <3>4. QED
      BY <1>0, <3>1, <3>2, <3>3, Zenon DEF TypeOK
  <2>2. QED
    BY <1>0, <1>6, <2>1, Zenon DEF Execute, TypeOK
<1>7. ASSUME NEW s \in Sess, Lose(s) \/ handleReadError(s)
      PROVE  Typed
  BY <1>0, <1>7, ZenonT(60) DEF Lose, handleReadError, TypeOK
<1>8. ASSUME Close
      PROVE  Typed
  BY <1>0, <1>8, Zenon DEF Close, TypeOK
<1>9. QED
  <2>1. Step
    BY Zenon DEF Next
  <2>2. QED
    BY <1>0, <1>2, <1>3, <1>4, <1>5, <1>6, <1>7, <1>8, <2>1, Zenon DEF Step, OpStep, ServerStep

LEMMA TypeInit == Init => TInv
<1> SUFFICES ASSUME Init
             PROVE  TInv
  BY Zenon
<1>1. /\ scn \in Scenarios /\ scn.left \in 0 .. MaxOps /\ scn.maxRedir \in Nat
      /\ First \in Addrs /\ FirstFull \in Addrs /\ 1 \in Sess /\ MaxSess \in Nat \ {0}
      /\ None \notin Files
  BY ClientAssumption DEF Init, Scenario, Sess
<1>2. Idle(scn.left) \in OpState
  BY <1>1, ClientAssumption DEF OpState, Idle
<1>3. op \in [Ops -> OpState] /\ \A o \in Ops : op[o] = Idle(scn.left)
  BY <1>2, Zenon DEF Init
<1>4. Shape
  <2> DEFINE x == Idle(scn.left)
  <2>0. \A o \in Ops : op[o] = x
    BY <1>3, Zenon
  <2>1. x.pc = "idle" /\ x.f = None /\ x.moved = FALSE /\ x.req = "open"
    BY IdleFields, Zenon
  <2> HIDE DEF x
  <2>2. QED
    BY <2>0, <2>1, Zenon DEF Shape
<1>5. file \in [Files -> FileState]
  BY <1>1, Zenon DEF Init, FileState
<1>6. handles \in [Sess -> Seq(Files)]
  BY DEF Init
<1>7. /\ mu \in Ops \cup {None} /\ sessions \in [Addrs -> Sess \cup {0}] /\ dialled \in 0 .. MaxSess
      /\ addr \in [Sess -> Addrs] /\ closed \in BOOLEAN
      /\ st \in [Sess -> {"none", "up", "lost", "dead"}]
  <2>1. mu \in Ops \cup {None} /\ closed \in BOOLEAN
    BY Zenon DEF Init
  <2>0. dialled \in 0 .. MaxSess
    BY <1>1 DEF Init
  <2>2. sessions \in [Addrs -> Sess \cup {0}]
    BY <1>1, Zenon DEF Init
  <2>3. addr \in [Sess -> Addrs]
    BY <1>1, Zenon DEF Init
  <2>4. st \in [Sess -> {"none", "up", "lost", "dead"}]
    BY <1>1, Zenon DEF Init
  <2>5. QED
    BY <2>0, <2>1, <2>2, <2>3, <2>4, Zenon
<1>8. QED
  BY <1>1, <1>3, <1>4, <1>5, <1>6, <1>7, Zenon DEF TInv, TypeOK

LEMMA TypeStep == TInv /\ [Next]_vars => TInv'
<1> SUFFICES ASSUME TInv, [Next]_vars
             PROVE  TInv'
  BY Zenon
<1>1. CASE UNCHANGED vars
  BY <1>1, Zenon DEF TInv, TypeOK, Shape, OpState, vars, stepVars
<1>2. CASE Next
  <2>1. scn' = scn /\ scn' \in Scenarios /\ OpState' = OpState
    BY <1>2, Zenon DEF Next, TInv, TypeOK, OpState
  <2>2. QED
    BY <1>2, <2>1, OpsTyped, OthersTyped, Zenon DEF TInv, TypeOK
<1>3. QED
  BY <1>1, <1>2, Zenon

(***************************************************************************)
(* The variables of the client keep their types: in particular the session *)
(* an operation sends on has been dialled, and no redirection count goes   *)
(* below zero.                                                             *)
(***************************************************************************)
THEOREM TypeCorrect == Spec => []TypeOK
<1>1. Init => TInv
  BY TypeInit, Zenon
<1>2. TInv /\ [Next]_vars => TInv'
  BY TypeStep, Zenon
<1>3. TInv => TypeOK
  BY Zenon DEF TInv
<1>4. QED
  BY <1>1, <1>2, <1>3, PTL DEF Spec

-----------------------------------------------------------------------------
(* The table of sessions *)

Dialling == {"dial", "login"}

\* client.mu is held exactly while a session is dialled and logged in, for an address
\* that has none in the table; that session is nobody else's.
LockInv ==
  /\ \A o \in Ops : mu = o <=> op[o].pc \in Dialling
  /\ \A o \in Ops : op[o].pc \in Dialling => sessions[op[o].sid] = 0
  /\ \A o \in Ops : op[o].pc = "login" =>
       /\ op[o].on \in 1 .. dialled /\ addr[op[o].on] = parseAddr(op[o].sid)
       /\ \A a \in Addrs : sessions[a] # op[o].on
  /\ \A s \in Sess : s > dialled => st[s] = "none"
  /\ \A a \in Addrs : sessions[a] # 0 =>
       sessions[a] <= dialled /\ addr[sessions[a]] = parseAddr(a)

SInv == TInv /\ LockInv /\ NoLeakedSession

\* A step that leaves the table, the lock and the operations that dial as they are.
Quiet ==
  /\ UNCHANGED <<mu, sessions, dialled, addr, st>>
  /\ \A q \in Ops : /\ op'[q].pc \in Dialling <=> op[q].pc \in Dialling
                    /\ op[q].pc \in Dialling =>
                         op'[q].pc = op[q].pc /\ op'[q].sid = op[q].sid /\ op'[q].on = op[q].on

\* What a step of operation o that is no Quiet step does to the others.
OthersKeep(o) == \A q \in Ops : q # o => op'[q] = op[q]

LEMMA QuietSteps ==
  ASSUME TInv, UNCHANGED scn, NEW o \in Ops
  PROVE  /\ \A f \in Files : Open(o, f) \/ ReadHandle(o, f) => Quiet
         /\ ReadSession(o) \/ Lookup(o) \/ Send(o) \/ Update(o) \/ CtxEnd(o) \/ GiveUp(o) => Quiet
         /\ Execute(o) \/ Answer(o) => Quiet
         /\ \A a \in Addrs : Redirect(o, a) => Quiet
         /\ Lock(o) /\ mu' = mu => Quiet
<1>0. ASSUME OthersKeep(o), UNCHANGED <<mu, sessions, dialled, addr, st>>,
             op[o].pc \in {"idle", "begin", "get", "lock", "send", "wait", "update"},
             op'[o].pc \in {"idle", "begin", "get", "lock", "send", "wait", "update"}
      PROVE  Quiet
  <2>1. op[o].pc \notin Dialling /\ op'[o].pc \notin Dialling
    BY <1>0, Zenon DEF Dialling
  <2>2. QED
    BY <1>0, <2>1, Zenon DEF OthersKeep, Quiet
<1>1. ASSUME NEW f \in Files, Open(o, f) \/ ReadHandle(o, f)
      PROVE  Quiet
  <2>1. UNCHANGED <<mu, sessions, dialled, addr, st>> /\ op[o].pc = "idle"
    BY <1>1, Zenon DEF Open, ReadHandle
  <2>2. OthersKeep(o) /\ op'[o].pc \in {"get", "begin"}
    BY <1>1, BeginEffects, Zenon DEF At, Is, OthersKeep
  <2>3. QED
    BY <1>0, <2>1, <2>2, Zenon
<1>2. HasGot(o, sessions[op[o].sid]) \/ Failed(o) =>
        OthersKeep(o) /\ op'[o].pc \in {"send", "get", "idle"}
  BY Zenon DEF HasGot, Failed, At, Is, OthersKeep
<1>3. ASSUME ReadSession(o) \/ Lookup(o) \/ Send(o) \/ Update(o) \/ GiveUp(o)
      PROVE  Quiet
  <2>1. /\ UNCHANGED <<mu, sessions, dialled, addr, st>>
        /\ op[o].pc \in {"begin", "get", "send", "update", "wait"}
    BY <1>3, Zenon DEF ReadSession, Lookup, Send, Update, GiveUp
  <2>2. OthersKeep(o) /\ op'[o].pc \in {"get", "lock", "send", "wait", "idle"}
    BY <1>2, <1>3, OpEffects, ZenonT(60) DEF At, Is, OthersKeep
  <2>3. QED
    BY <1>0, <2>1, <2>2, Zenon
<1>4. ASSUME CtxEnd(o)
      PROVE  Quiet
  <2>1. UNCHANGED <<mu, sessions, dialled, addr, st>>
    BY <1>4, Zenon DEF CtxEnd
  <2>2. OthersKeep(o) /\ op'[o].pc = op[o].pc /\ op'[o].sid = op[o].sid /\ op'[o].on = op[o].on
    BY <1>4, OpEffects, Zenon DEF At, Is, OthersKeep
  <2>3. QED
    BY <2>1, <2>2, Zenon DEF Quiet, OthersKeep
<1>5. ASSUME Execute(o) \/ Answer(o)
      PROVE  Quiet
  <2>1. UNCHANGED <<mu, sessions, dialled, addr, st>> /\ op[o].pc = "wait"
    BY <1>5, Zenon DEF Execute, Answer
  <2>2. OthersKeep(o) /\ op'[o].pc \in {"wait", "idle", "send", "get", "update"}
    <3>1. Execute(o) => OthersKeep(o) /\ op'[o].pc = "wait"
      BY ServerEffects, ZenonT(60) DEF At, Is, OthersKeep
    <3>2. Answer(o) => OthersKeep(o) /\ op'[o].pc \in {"idle", "send", "get", "update"}
      BY ServerEffects, Zenon DEF Failed, At, Is, OthersKeep
    <3>3. QED
      BY <1>5, <3>1, <3>2, Zenon
  <2>3. QED
    BY <1>0, <2>1, <2>2, Zenon
<1>6. ASSUME NEW a \in Addrs, Redirect(o, a)
      PROVE  Quiet
  <2>1. UNCHANGED <<mu, sessions, dialled, addr, st>> /\ op[o].pc = "wait"
    BY <1>6, Zenon DEF Redirect
  <2>2. OthersKeep(o) /\ op'[o].pc \in {"idle", "get"}
    BY <1>6, ServerEffects, Zenon DEF Failed, Followed, At, Is, OthersKeep
  <2>3. QED
    BY <1>0, <2>1, <2>2, Zenon
<1>7. ASSUME Lock(o), mu' = mu
      PROVE  Quiet
  <2>1. /\ UNCHANGED <<mu, sessions, dialled, addr, st>> /\ op[o].pc = "lock" /\ mu = None
        /\ None \notin Ops
    BY <1>7, ClientAssumption, Zenon DEF Lock
  <2>2. OthersKeep(o) /\ op'[o].pc \in {"send", "get", "idle"}
    BY <1>2, <1>7, <2>1, OpEffects, Zenon
  <2>3. QED
    BY <1>0, <2>1, <2>2, Zenon
<1>8. QED
  BY <1>1, <1>3, <1>4, <1>5, <1>6, <1>7, Zenon

LEMMA QuietKeeps ==
  ASSUME SInv, Quiet
  PROVE  LockInv' /\ NoLeakedSession'
<1>1. LockInv'
  BY ZenonT(60) DEF SInv, LockInv, Quiet, Dialling
<1>2. NoLeakedSession'
  BY DEF SInv, NoLeakedSession, Quiet, Dialling
<1>3. QED
  BY <1>1, <1>2, Zenon

LEMMA SessionStep == SInv /\ [Next]_vars => SInv'
<1> SUFFICES ASSUME SInv, [Next]_vars
             PROVE  SInv'
  BY Zenon
<1>0. TInv /\ TInv' /\ LockInv /\ NoLeakedSession
  BY TypeStep, Zenon DEF SInv
<1>1. CASE UNCHANGED vars
  BY <1>0, <1>1, QuietKeeps, Zenon DEF SInv, Quiet, vars, stepVars
<1>2. ASSUME Next
      PROVE  LockInv' /\ NoLeakedSession'
  <2>0. /\ UNCHANGED scn /\ None \notin Ops /\ sessions \in [Addrs -> Sess \cup {0}]
        /\ scn.ops \subseteq Ops /\ scn.files \subseteq Files /\ scn.addrs \subseteq Addrs
        /\ addr \in [Sess -> Addrs] /\ st \in [Sess -> {"none", "up", "lost", "dead"}]
        /\ dialled \in Nat /\ Sess \subseteq Nat /\ 0 \notin Sess
        /\ \A o \in Ops : op[o].sid \in Addrs
    <3>1. UNCHANGED scn /\ scn \in Scenario /\ None \notin Ops
      BY <1>0, <1>2, ClientAssumption, Zenon DEF TInv, TypeOK, Next
    <3>2. scn.ops \subseteq Ops /\ scn.files \subseteq Files /\ scn.addrs \subseteq Addrs
      BY <3>1, Zenon DEF Scenario
    <3>3. \A o \in Ops : op[o].sid \in Addrs
      BY <1>0, Zenon DEF TInv, TypeOK, OpState
    <3>4. dialled \in Nat /\ Sess \subseteq Nat /\ 0 \notin Sess
      BY <1>0, ClientAssumption DEF TInv, TypeOK, Sess
    <3>5. QED
      BY <1>0, <3>1, <3>2, <3>3, <3>4, Zenon DEF TInv, TypeOK
  <2>1. ASSUME Quiet
        PROVE  LockInv' /\ NoLeakedSession'
    BY <2>1, QuietKeeps, Zenon
  <2>2. mu = None => \A q \in Ops : op[q].pc \notin Dialling
    BY <1>0, <2>0, ZenonT(60) DEF LockInv
  <2>3. ASSUME NEW o \in Ops, op[o].pc \in Dialling
        PROVE  mu = o /\ \A q \in Ops : q # o => op[q].pc \notin Dialling
    BY <1>0, <2>3, Zenon DEF LockInv
  <2>4. ASSUME NEW o \in Ops, Lock(o), mu' # mu
        PROVE  LockInv' /\ NoLeakedSession'
    <3>1. /\ mu = None /\ mu' = o /\ sessions[op[o].sid] = 0 /\ op[o].pc = "lock" /\ OthersKeep(o)
          /\ op'[o].pc = "dial" /\ op'[o].sid = op[o].sid
          /\ UNCHANGED <<sessions, dialled, addr, st>>
      BY <1>0, <2>0, <2>4, OpEffects, Zenon DEF Lock, At, Is, OthersKeep
    <3>2. LockInv'
      BY <1>0, <2>0, <2>2, <3>1, ZenonT(60) DEF LockInv, OthersKeep, Dialling
    <3>3. NoLeakedSession'
      BY <1>0, <3>1 DEF NoLeakedSession, OthersKeep
    <3>4. QED
      BY <3>2, <3>3, Zenon
  <2>5. ASSUME NEW o \in Ops, Dial(o)
        PROVE  LockInv' /\ NoLeakedSession'
    <3> DEFINE n == dialled + 1
    <3>1. /\ op[o].pc = "dial" /\ dialled' = n /\ addr' = [addr EXCEPT ![n] = parseAddr(op[o].sid)]
          /\ st' = [st EXCEPT ![n] = "up"] /\ sessions' = sessions /\ mu' = mu
      BY <2>5, Zenon DEF Dial
    <3>2. /\ OthersKeep(o) /\ op'[o].pc = "login" /\ op'[o].sid = op[o].sid /\ op'[o].on = n
          /\ n \in Sess
      BY <1>0, <2>0, <2>5, OpEffects, Zenon DEF At, Is, OthersKeep
    <3>3. /\ n > dialled /\ (\A k \in Nat : k <= dialled => k <= n /\ k # n)
          /\ n \in 1 .. n /\ (\A k \in Nat : k > n => k > dialled /\ k # n)
      BY <2>0
    <3>4. \A a \in Addrs : sessions[a] \in Nat /\ (sessions[a] # 0 => sessions[a] \in Sess /\ sessions[a] # n)
      <4>1. ASSUME NEW a \in Addrs
            PROVE  sessions[a] \in Nat /\ (sessions[a] # 0 => sessions[a] \in Sess /\ sessions[a] # n)
        <5>1. sessions[a] \in Sess \cup {0} /\ (sessions[a] # 0 => sessions[a] <= dialled)
          BY <1>0, <2>0, Zenon DEF LockInv
        <5>2. \A k \in Sess \cup {0} : k \in Nat /\ (k <= dialled => k # n)
          BY <2>0
        <5>3. QED
          BY <5>1, <5>2, Zenon
      <4>2. QED
        BY <4>1, Zenon
    <3>5. \A q \in Ops : q # o => op'[q].pc \notin Dialling
      BY <2>3, <3>1, <3>2, Zenon DEF OthersKeep, Dialling
    <3> HIDE DEF n
    <3>6. mu = o
      BY <2>3, <3>1, Zenon DEF Dialling
    <3>7. \A q \in Ops : mu' = q <=> op'[q].pc \in Dialling
      BY <3>1, <3>2, <3>5, <3>6, Zenon DEF Dialling
    <3>8. \A q \in Ops : op'[q].pc \in Dialling => sessions'[op'[q].sid] = 0
      BY <1>0, <3>1, <3>2, <3>5 DEF LockInv, Dialling
    <3>9. \A q \in Ops : op'[q].pc = "login" =>
            /\ op'[q].on \in 1 .. dialled' /\ addr'[op'[q].on] = parseAddr(op'[q].sid)
            /\ \A a \in Addrs : sessions'[a] # op'[q].on
      BY <2>0, <3>1, <3>2, <3>3, <3>4, <3>5, Zenon DEF Dialling
    <3>10. \A s \in Sess : s > dialled' => st'[s] = "none"
      BY <1>0, <2>0, <3>1, <3>3, Zenon DEF LockInv
    <3>11. \A a \in Addrs : sessions'[a] # 0 =>
             sessions'[a] <= dialled' /\ addr'[sessions'[a]] = parseAddr(a)
      BY <1>0, <2>0, <3>1, <3>3, <3>4, Zenon DEF LockInv
    <3>12. NoLeakedSession'
      <4>1. ASSUME NEW t \in Sess, st'[t] = "up", t # n
            PROVE  \/ \E a \in Addrs : sessions'[a] = t
                   \/ \E q \in Ops : op'[q].pc = "login" /\ op'[q].on = t
        <5>1. st[t] = "up"
          BY <2>0, <3>1, <4>1, Zenon
        <5>2. \A q \in Ops : op[q].pc = "login" => op'[q] = op[q]
          BY <3>1, <3>2, Zenon DEF OthersKeep
        <5>3. QED
          BY <1>0, <3>1, <5>1, <5>2 DEF NoLeakedSession
      <4>2. QED
        BY <3>2, <4>1, Zenon DEF NoLeakedSession
    <3>13. QED
      BY <3>7, <3>8, <3>9, <3>10, <3>11, <3>12, Zenon DEF LockInv
  <2>6. ASSUME NEW o \in Ops, DialFail(o)
        PROVE  LockInv' /\ NoLeakedSession'
    <3>1. op[o].pc = "dial" /\ mu' = None /\ UNCHANGED <<sessions, dialled, addr, st>>
      BY <2>6, Zenon DEF DialFail
    <3>2. OthersKeep(o) /\ op'[o].pc = "idle"
      BY <1>0, <2>0, <2>6, OpEffects, ZenonT(60) DEF Failed, At, Is, OthersKeep
    <3>3. \A q \in Ops : op'[q].pc \notin Dialling
      BY <2>3, <3>1, <3>2, Zenon DEF OthersKeep, Dialling
    <3>4. LockInv'
      BY <1>0, <2>0, <3>1, <3>3, Zenon DEF LockInv, Dialling
    <3>5. NoLeakedSession'
      BY <1>0, <3>1, <3>2 DEF NoLeakedSession, OthersKeep
    <3>6. QED
      BY <3>4, <3>5, Zenon
  <2>7. ASSUME NEW o \in Ops, Login(o)
        PROVE  LockInv' /\ NoLeakedSession'
    <3> DEFINE s == op[o].on
    <3>1. /\ op[o].pc = "login" /\ mu' = None /\ UNCHANGED <<dialled, addr, st>>
          /\ sessions' = [sessions EXCEPT ![op[o].sid] = s]
      BY <2>7, Zenon DEF Login
    <3>2. OthersKeep(o) /\ op'[o].pc \in {"get", "send"} /\ s \in Sess
      BY <1>0, <2>0, <2>7, OpEffects, Zenon DEF HasGot, At, Is, OthersKeep
    <3>3. \A q \in Ops : op'[q].pc \notin Dialling
      BY <2>3, <3>1, <3>2, Zenon DEF OthersKeep, Dialling
    <3>4. /\ s <= dialled /\ addr[s] = parseAddr(op[o].sid) /\ sessions[op[o].sid] = 0
          /\ op[o].sid \in Addrs
      BY <1>0, <2>0, <3>1, <3>2 DEF LockInv, Dialling, Sess
    <3> HIDE DEF s
    <3>5. \A a \in Addrs : sessions'[a] = IF a = op[o].sid THEN s ELSE sessions[a]
      BY <2>0, <3>1, Zenon
    <3>6. LockInv'
      BY <1>0, <2>0, <3>1, <3>3, <3>4, <3>5, ZenonT(60) DEF LockInv, Dialling
    <3>7. ASSUME NEW t \in Sess, st'[t] = "up"
          PROVE  \/ \E a \in Addrs : sessions'[a] = t
                 \/ \E q \in Ops : op'[q].pc = "login" /\ op'[q].on = t
      <4>1. CASE t = s
        BY <3>4, <3>5, <4>1, Zenon
      <4>2. CASE t # s
        <5>1. \/ \E a \in Addrs : sessions[a] = t
              \/ \E q \in Ops : op[q].pc = "login" /\ op[q].on = t
          BY <1>0, <3>1, <3>7, Zenon DEF NoLeakedSession
        <5>2. ASSUME NEW q \in Ops, op[q].pc = "login", op[q].on = t
              PROVE  FALSE
          BY <2>3, <3>1, <4>2, <5>2, Zenon DEF Dialling, s
        <5>3. PICK a \in Addrs : sessions[a] = t
          BY <5>1, <5>2, Zenon
        <5>4. a # op[o].sid
          BY <2>0, <3>4, <5>3, Zenon
        <5>5. QED
          BY <3>5, <5>3, <5>4, Zenon
      <4>3. QED
        BY <4>1, <4>2, Zenon
    <3>8. QED
      BY <3>6, <3>7, Zenon DEF NoLeakedSession
  <2>8. ASSUME NEW o \in Ops, LoginFail(o)
        PROVE  LockInv' /\ NoLeakedSession'
    <3> DEFINE s == op[o].on
    <3>1. /\ op[o].pc = "login" /\ mu' = None /\ UNCHANGED <<sessions, dialled, addr>>
          /\ st' = [st EXCEPT ![s] = IF @ = "up" THEN "dead" ELSE @]
      BY <2>8, Zenon DEF LoginFail
    <3>2. OthersKeep(o) /\ op'[o].pc = "idle" /\ s \in Sess
      BY <1>0, <2>0, <2>8, <3>1, OpEffects, ZenonT(60) DEF Failed, At, Is, OthersKeep, TInv, Shape
    <3>3. \A q \in Ops : op'[q].pc \notin Dialling
      BY <2>3, <3>1, <3>2, Zenon DEF OthersKeep, Dialling
    <3>4. s <= dialled
      BY <1>0, <2>0, <3>1, <3>2 DEF LockInv, Sess
    <3> HIDE DEF s
    <3>5. \A t \in Sess : /\ t # s => st'[t] = st[t]
                         /\ st'[s] # "up" /\ (t > dialled => t # s)
      <4>1. \A t \in Sess : t > dialled => t # s
        BY <2>0, <3>2, <3>4
      <4>2. \A t \in Sess : t # s => st'[t] = st[t]
        BY <2>0, <3>1, <3>2, Zenon
      <4>3. st'[s] = IF st[s] = "up" THEN "dead" ELSE st[s]
        BY <2>0, <3>1, <3>2, Zenon
      <4>4. QED
        BY <4>1, <4>2, <4>3, Zenon
    <3>6. LockInv'
      BY <1>0, <2>0, <3>1, <3>3, <3>5, Zenon DEF LockInv, Dialling
    <3>7. NoLeakedSession'
      <4>1. \A t \in Sess : st'[t] = "up" => t # s /\ st[t] = "up"
        BY <3>2, <3>5, Zenon
      <4>2. \A q \in Ops : op[q].pc = "login" => op[q].on = s
        BY <2>3, <3>1, Zenon DEF Dialling, s
      <4>3. QED
        BY <1>0, <3>1, <4>1, <4>2 DEF NoLeakedSession
    <3>8. QED
      BY <3>6, <3>7, Zenon
  <2>9. ASSUME NEW s \in Sess, Lose(s)
        PROVE  LockInv' /\ NoLeakedSession'
    <3>1. /\ st[s] = "up" /\ st' = [st EXCEPT ![s] = "lost"] /\ UNCHANGED <<mu, sessions, dialled, addr, op>>
      BY <2>9, Zenon DEF Lose
    <3>2. LockInv'
      BY <1>0, <2>0, <3>1, Zenon DEF LockInv
    <3>3. NoLeakedSession'
      BY <1>0, <2>0, <3>1, Zenon DEF NoLeakedSession
    <3>4. QED
      BY <3>2, <3>3, Zenon
  <2>10. ASSUME NEW os \in SUBSET Ops, NEW b \in BOOLEAN, Told(os, b), mu = None,
                \A q \in os : op[q].pc = "wait"
         PROVE  \A q \in Ops : op'[q].pc \notin Dialling
    <3>1. \A q \in Ops : \/ op'[q] = op[q]
                         \/ Is(q, "idle", "open", FALSE, First, 0, "no")
                         \/ Followed(q, First)
      BY <1>0, <2>0, <2>10, ToldEffects, ZenonT(60)
    <3>2. \A q \in Ops : op'[q] = op[q] \/ op'[q].pc \in {"idle", "get"}
      BY <3>1, Zenon DEF Followed, Is
    <3>3. QED
      BY <2>2, <2>10, <3>2, Zenon DEF Dialling
  <2>11. ASSUME NEW s \in Sess, handleReadError(s)
         PROVE  LockInv' /\ NoLeakedSession'
    <3>1. /\ st[s] = "lost" /\ mu = None /\ st' = [st EXCEPT ![s] = "dead"]
          /\ sessions' = [sessions EXCEPT ![addr[s]] = IF @ = s THEN 0 ELSE @]
          /\ UNCHANGED <<mu, dialled, addr>> /\ Told(Waiting(s), addr[s] # First)
      BY <2>11, Zenon DEF handleReadError
    <3>2. \A q \in Ops : op'[q].pc \notin Dialling
      <4>1. Waiting(s) \subseteq Ops /\ \A q \in Waiting(s) : op[q].pc = "wait"
        BY Zenon DEF Waiting
      <4>2. QED
        BY <2>10, <3>1, <4>1, Zenon
    <3>3. \A a \in Addrs : sessions'[a] = sessions[a] \/ (sessions[a] = s /\ sessions'[a] = 0)
      <4>1. addr[s] \in Addrs
        BY <2>0, Zenon
      <4> DEFINE v == IF sessions[addr[s]] = s THEN 0 ELSE sessions[addr[s]]
      <4>2. sessions' = [sessions EXCEPT ![addr[s]] = v]
        BY <3>1, Zenon
      <4> HIDE DEF v
      <4>3. \A a \in Addrs : sessions'[a] = IF a = addr[s] THEN v ELSE sessions[a]
        BY <2>0, <4>1, <4>2, Zenon
      <4>4. (v = 0 /\ sessions[addr[s]] = s) \/ v = sessions[addr[s]]
        BY Zenon DEF v
      <4>5. QED
        BY <4>3, <4>4, Zenon
    <3>4. \A t \in Sess : IF t = s THEN st'[t] = "dead" ELSE st'[t] = st[t]
      BY <2>0, <3>1, Zenon
    <3>5. LockInv'
      <4>1. \A q \in Ops : mu' = q <=> op'[q].pc \in Dialling
        BY <2>0, <3>1, <3>2, ZenonT(60)
      <4>2. \A t \in Sess : t > dialled' => st'[t] = "none"
        BY <1>0, <3>1, <3>4, Zenon DEF LockInv
      <4>3. \A a \in Addrs : sessions'[a] # 0 =>
              sessions'[a] <= dialled' /\ addr'[sessions'[a]] = parseAddr(a)
        BY <1>0, <3>1, <3>3, Zenon DEF LockInv
      <4>4. QED
        BY <3>2, <4>1, <4>2, <4>3, Zenon DEF LockInv, Dialling
    <3>6. NoLeakedSession'
      BY <1>0, <2>2, <3>1, <3>3, <3>4 DEF NoLeakedSession, Dialling
    <3>7. QED
      BY <3>5, <3>6, Zenon
  <2>12. ASSUME Close
         PROVE  LockInv' /\ NoLeakedSession'
    <3> DEFINE held == {s \in Sess : \E a \in Addrs : sessions[a] = s}
               os == UNION {Waiting(s) : s \in held}
    <3>1. /\ mu = None /\ UNCHANGED <<mu, dialled, addr>> /\ Told(os, FALSE)
          /\ st' = [s \in Sess |-> IF s \in held THEN "dead" ELSE st[s]]
      BY <2>12, Zenon DEF Close
    <3>2. \A a \in Addrs : sessions'[a] = sessions[a] \/ sessions'[a] = 0
      BY <2>12, Zenon DEF Close
    <3>3. \A q \in Ops : op'[q].pc \notin Dialling
      <4>1. os \subseteq Ops /\ \A q \in os : op[q].pc = "wait"
        BY Zenon DEF Waiting
      <4> HIDE DEF os
      <4>2. QED
        BY <2>10, <3>1, <4>1, ZenonT(60)
    <3>4. \A t \in Sess : t > dialled => t \notin held
      BY <1>0, <2>0 DEF LockInv
    <3>5. \A t \in Sess : st'[t] # "up"
      BY <1>0, <2>2, <3>1, Zenon DEF NoLeakedSession, Dialling
    <3> HIDE DEF held
    <3>6. LockInv'
      <4>1. \A q \in Ops : mu' = q <=> op'[q].pc \in Dialling
        BY <2>0, <3>1, <3>3, Zenon
      <4>2. \A t \in Sess : t > dialled' => st'[t] = "none"
        BY <1>0, <3>1, <3>4, Zenon DEF LockInv
      <4>3. \A a \in Addrs : sessions'[a] # 0 =>
              sessions'[a] <= dialled' /\ addr'[sessions'[a]] = parseAddr(a)
        BY <1>0, <3>1, <3>2, Zenon DEF LockInv
      <4>4. QED
        BY <3>3, <4>1, <4>2, <4>3, Zenon DEF LockInv, Dialling
    <3>7. QED
      BY <3>5, <3>6, Zenon DEF NoLeakedSession
  <2>13. ASSUME NEW o \in Ops, OpStep(o) \/ ServerStep(o) \/ CtxEnd(o)
         PROVE  LockInv' /\ NoLeakedSession'
    BY <1>0, <2>0, <2>1, <2>4, <2>5, <2>6, <2>7, <2>8, <2>13, QuietSteps, ZenonT(60) DEF OpStep,
       ServerStep
  <2>14. ASSUME NEW o \in Ops, NEW f \in Files, Open(o, f) \/ ReadHandle(o, f)
         PROVE  LockInv' /\ NoLeakedSession'
    BY <1>0, <2>0, <2>1, <2>14, QuietSteps, Zenon
  <2>15. QED
    BY <1>2, <2>0, <2>9, <2>11, <2>12, <2>13, <2>14, Zenon DEF Next, Step
<1>3. QED
  BY <1>0, <1>1, <1>2, Zenon DEF SInv

LEMMA SessionInit == Init => SInv
<1> SUFFICES ASSUME Init
             PROVE  SInv
  BY Zenon
<1>1. TInv
  BY TypeInit, Zenon
<1>2. \A o \in Ops : op[o].pc = "idle"
  BY IdleFields, Zenon DEF Init
<1>3. /\ mu = None /\ None \notin Ops /\ dialled = 1 /\ First \in Addrs
      /\ (\A s \in Sess : s \in Nat /\ addr[s] = FirstFull /\ st[s] = IF s = 1 THEN "up" ELSE "none")
      /\ (\A a \in Addrs : sessions[a] = IF a = First THEN 1 ELSE 0) /\ 1 \in Sess
  BY ClientAssumption DEF Init, Sess
<1>4. LockInv
  BY <1>2, <1>3 DEF LockInv, Dialling, parseAddr
<1>5. NoLeakedSession
  BY <1>3, ZenonT(60) DEF NoLeakedSession
<1>6. QED
  BY <1>1, <1>4, <1>5, Zenon DEF SInv

(***************************************************************************)
(* A live connection is never unreferenced (getSession): every session     *)
(* that is up is in the table, or is being logged in by the operation that *)
(* holds client.mu.                                                        *)
(***************************************************************************)
THEOREM NoSessionLeaks == Spec => []NoLeakedSession
<1>1. Init => SInv
  BY SessionInit, Zenon
<1>2. SInv /\ [Next]_vars => SInv'
  BY SessionStep, Zenon
<1>3. SInv => NoLeakedSession
  BY Zenon DEF SInv
<1>4. QED
  BY <1>1, <1>2, <1>3, PTL DEF Spec

(***************************************************************************)
(* A session whose connection failed does not stay in the table, when the  *)
(* address the client was created against has a port.  (Without one the    *)
(* table and forget use different names for that session.)                 *)
(***************************************************************************)
THEOREM NoCorpseIsLeft ==
  ASSUME First = FirstFull
  PROVE  Spec => []NoCorpse
<1>1. Init => SInv /\ NoCorpse
  <2> SUFFICES ASSUME Init
               PROVE  NoCorpse
    BY SessionInit, Zenon
  <2>1. /\ 1 \in Sess /\ \A a \in Addrs : sessions[a] # 0 => sessions[a] = 1
        /\ \A t \in Sess : st[t] = IF t = 1 THEN "up" ELSE "none"
    BY ClientAssumption DEF Init, Sess
  <2>2. QED
    BY <2>1, Zenon DEF NoCorpse
<1>2. SInv /\ NoCorpse /\ [Next]_vars => SInv' /\ NoCorpse'
  <2> SUFFICES ASSUME SInv, NoCorpse, [Next]_vars
               PROVE  NoCorpse'
    BY SessionStep, Zenon
  <2>0. /\ TInv /\ LockInv /\ sessions \in [Addrs -> Sess \cup {0}] /\ 0 \notin Sess
        /\ addr \in [Sess -> Addrs] /\ st \in [Sess -> {"none", "up", "lost", "dead"}]
        /\ \A a \in Addrs : parseAddr(a) = a
    BY DEF SInv, TInv, TypeOK, parseAddr, Sess
  <2>1. ASSUME UNCHANGED <<sessions, st, closed>>
        PROVE  NoCorpse'
    BY <2>1, Zenon DEF NoCorpse
  <2>2. ASSUME NEW o \in Ops, UNCHANGED scn, Dial(o)
        PROVE  NoCorpse'
    <3>1. UNCHANGED <<sessions, closed>> /\ st' = [st EXCEPT ![dialled + 1] = "up"]
      BY <2>2, Zenon DEF Dial
    <3>2. \A t \in Sess : st'[t] = st[t] \/ st'[t] = "up"
      BY <2>0, <3>1, Zenon
    <3>3. QED
      BY <2>0, <3>1, <3>2, ZenonT(60) DEF NoCorpse
  <2>3. ASSUME NEW o \in Ops, UNCHANGED scn, Login(o)
        PROVE  NoCorpse'
    BY <2>0, <2>3, Zenon DEF NoCorpse, Login
  <2>4. ASSUME NEW o \in Ops, UNCHANGED scn, LoginFail(o)
        PROVE  NoCorpse'
    <3> DEFINE t == op[o].on
    <3>1. /\ UNCHANGED <<sessions, closed>> /\ op[o].pc = "login"
          /\ st' = [st EXCEPT ![t] = IF @ = "up" THEN "dead" ELSE @]
      BY <2>4, Zenon DEF LoginFail
    <3>2. \A a \in Addrs : sessions[a] # t
      BY <2>0, <3>1, Zenon DEF LockInv
    <3> HIDE DEF t
    <3>3. \A u \in Sess : u # t => st'[u] = st[u]
      BY <2>0, <3>1, Zenon
    <3>4. QED
      BY <2>0, <3>1, <3>2, <3>3, Zenon DEF NoCorpse
  <2>5. ASSUME NEW t \in Sess, Lose(t)
        PROVE  NoCorpse'
    BY <2>0, <2>5, Zenon DEF NoCorpse, Lose
  <2>6. ASSUME NEW t \in Sess, handleReadError(t)
        PROVE  NoCorpse'
    <3>1. /\ sessions' = [sessions EXCEPT ![addr[t]] = IF @ = t THEN 0 ELSE @]
          /\ st' = [st EXCEPT ![t] = "dead"] /\ closed' = closed
      BY <2>6, Zenon DEF handleReadError
    <3>2. ASSUME NEW a \in Addrs, sessions'[a] # 0
          PROVE  sessions'[a] = sessions[a] /\ sessions[a] # t
      <4>1. CASE a = addr[t]
        <5>1. sessions'[a] = IF sessions[a] = t THEN 0 ELSE sessions[a]
          BY <2>0, <3>1, <4>1, Zenon
        <5>2. QED
          BY <3>2, <5>1, Zenon
      <4>2. CASE a # addr[t]
        <5>1. sessions'[a] = sessions[a]
          BY <2>0, <3>1, <4>2, Zenon
        <5>2. sessions[a] = t => addr[t] = a
          BY <2>0, <3>2, <5>1, Zenon DEF LockInv
        <5>3. QED
          BY <4>2, <5>1, <5>2, Zenon
      <4>3. QED
        BY <4>1, <4>2, Zenon
    <3>3. \A u \in Sess : u # t => st'[u] = st[u]
      BY <2>0, <3>1, Zenon
    <3>4. QED
      BY <2>0, <3>1, <3>2, <3>3 DEF NoCorpse
  <2>7. ASSUME Close
        PROVE  NoCorpse'
    BY <2>7, Zenon DEF NoCorpse, Close
  <2>8. ASSUME NEW o \in Ops, OpStep(o) \/ ServerStep(o) \/ CtxEnd(o), UNCHANGED scn
        PROVE  NoCorpse'
    <3>1. CASE Dial(o) \/ Login(o) \/ LoginFail(o)
      BY <2>2, <2>3, <2>4, <2>8, <3>1, Zenon
    <3>2. CASE ~(Dial(o) \/ Login(o) \/ LoginFail(o))
      BY <2>1, <2>8, <3>2, Zenon DEF OpStep, ServerStep, ReadSession, Lookup, Lock, DialFail, Send,
         Update, GiveUp,
                              Execute, Answer, Redirect, CtxEnd
    <3>3. QED
      BY <3>1, <3>2, Zenon
  <2>9. ASSUME NEW o \in Ops, NEW f \in Files, Open(o, f) \/ ReadHandle(o, f)
        PROVE  NoCorpse'
    BY <2>1, <2>9, Zenon DEF Open, ReadHandle
  <2>10. scn.ops \subseteq Ops /\ scn.files \subseteq Files
    BY <2>0, ClientAssumption, Zenon DEF TInv, TypeOK, Scenario
  <2>11. CASE Next
    BY <2>5, <2>6, <2>7, <2>8, <2>9, <2>10, <2>11, Zenon DEF Next, Step
  <2>12. CASE UNCHANGED vars
    BY <2>1, <2>12, ZenonT(60) DEF vars, stepVars
  <2>13. QED
    BY <2>11, <2>12, Zenon
<1>3. QED
  BY <1>1, <1>2, PTL DEF Spec

-----------------------------------------------------------------------------
(* The sessions operations rely on *)

\* Where the session an operation sends on, and the one a redirected use goes back to,
\* come from: they are kept, or are taken from the table, or have just been logged in.
Origin(q) ==
  LET y == op[q]  z == op'[q] IN
  /\ z.pc \in {"send", "wait"} =>
       \/ y.pc \in {"send", "wait"} /\ z.on = y.on /\ z.sid = y.sid
       \/ sessions[z.sid] # 0 /\ z.on = sessions[z.sid]
       \/ Login(q) /\ z.on = y.on /\ z.sid = y.sid
       \/ y.req = "reopen" /\ z.on = y.keep /\ z.sid = y.home
  /\ z.req = "reopen" =>
       \/ y.req = "reopen" /\ z.keep = y.keep /\ z.home = y.home
       \/ sessions[z.home] # 0 /\ z.keep = sessions[z.home]
       \/ Login(q) /\ z.keep = y.on /\ z.home = y.sid

LEMMA Origins ==
  ASSUME TInv, Next
  PROVE  \A q \in Ops : Origin(q)
<1>0. /\ UNCHANGED scn /\ scn.ops \subseteq Ops /\ scn.files \subseteq Files /\ scn.addrs \subseteq Addrs
  BY ClientAssumption, Zenon DEF TInv, TypeOK, Next, Scenario
<1>1. ASSUME NEW q \in Ops, op'[q] = op[q]
      PROVE  Origin(q)
  BY <1>1, Zenon DEF Origin
<1>2. ASSUME NEW q \in Ops, op'[q].pc \notin {"send", "wait"}, op'[q].req # "reopen"
      PROVE  Origin(q)
  BY <1>2, Zenon DEF Origin
<1>3. ASSUME NEW o \in Ops, OthersKeep(o), Origin(o)
      PROVE  \A q \in Ops : Origin(q)
  BY <1>1, <1>3, Zenon DEF OthersKeep
<1>4. ASSUME NEW o \in Ops, NEW f \in Files, Open(o, f) \/ ReadHandle(o, f)
      PROVE  \A q \in Ops : Origin(q)
  <2>1. OthersKeep(o) /\ op'[o].pc \in {"get", "begin"} /\ op'[o].req \in {"open", "use"}
    BY <1>0, <1>4, BeginEffects, ZenonT(60) DEF At, Is, OthersKeep
  <2>2. QED
    BY <1>2, <1>3, <2>1, ZenonT(60)
<1>5. ASSUME NEW o \in Ops, Failed(o)
      PROVE  \A q \in Ops : Origin(q)
  <2>1. OthersKeep(o) /\ op'[o].pc = "idle" /\ op'[o].req = "open"
    BY <1>5, Zenon DEF Failed, At, Is, OthersKeep
  <2>2. QED
    BY <1>2, <1>3, <2>1, Zenon
<1>6. ASSUME NEW o \in Ops, NEW p \in PCs \ {"send", "wait"}, NEW a, NEW s,
             At(o, p, op[o].req, op[o].moved, a, s, op[o].ran), Same(o)
      PROVE  \A q \in Ops : Origin(q)
  <2>1. /\ OthersKeep(o) /\ op'[o].pc \notin {"send", "wait"} /\ op'[o].req = op[o].req
        /\ op'[o].keep = op[o].keep /\ op'[o].home = op[o].home
    BY <1>6, Zenon DEF At, Is, Same, OthersKeep
  <2>2. QED
    BY <1>3, <2>1, Zenon DEF Origin
<1>7. ASSUME NEW o \in Ops, NEW s, HasGot(o, s),
             (s = sessions[op[o].sid] /\ s # 0) \/ (Login(o) /\ s = op[o].on)
      PROVE  \A q \in Ops : Origin(q)
  <2>1. OthersKeep(o) /\ op'[o].sid = op[o].sid
    BY <1>7, Zenon DEF HasGot, At, Is, OthersKeep
  <2>2. \/ op'[o].pc = "send" /\ op'[o].on = s /\ op'[o].req = op[o].req
           /\ op'[o].keep = op[o].keep /\ op'[o].home = op[o].home
        \/ op'[o].pc = "get" /\ op'[o].req = "reopen" /\ op'[o].keep = s /\ op'[o].home = op[o].sid
    BY <1>7, Zenon DEF HasGot, At, Is, Same
  <2>3. QED
    BY <1>3, <1>7, <2>1, <2>2, ZenonT(60) DEF Origin
<1>8. ASSUME NEW o \in Ops, OpStep(o) \/ CtxEnd(o) \/ Login(o)
      PROVE  \A q \in Ops : Origin(q)
  <2>1. CASE ReadSession(o)
    BY <1>0, <1>6, <2>1, OpEffects, ZenonT(60) DEF PCs
  <2>2. CASE Lookup(o) \/ Lock(o)
    BY <1>0, <1>6, <1>7, <2>2, OpEffects, ZenonT(60) DEF PCs
  <2>3. CASE Dial(o)
    BY <1>0, <1>6, <2>3, OpEffects, Zenon DEF PCs
  <2>4. CASE DialFail(o) \/ LoginFail(o) \/ GiveUp(o)
    BY <1>0, <1>5, <2>4, OpEffects, ZenonT(60)
  <2>5. CASE Login(o)
    BY <1>0, <1>7, <2>5, OpEffects, ZenonT(60)
  <2>6. CASE Send(o)
    <3>1. \/ Failed(o)
          \/ /\ OthersKeep(o) /\ op'[o].pc = "wait" /\ op'[o].req = op[o].req /\ op'[o].on = op[o].on
             /\ op'[o].keep = op[o].keep /\ op'[o].home = op[o].home /\ op'[o].sid = op[o].sid
             /\ op[o].pc = "send"
      BY <1>0, <2>6, OpEffects, ZenonT(60) DEF At, Is, Same, OthersKeep, Send
    <3>2. QED
      BY <1>3, <1>5, <3>1, ZenonT(60) DEF Origin
  <2>7. CASE Update(o)
    <3>1. OthersKeep(o) /\ op'[o].pc = "idle" /\ op'[o].req = "open"
      BY <1>0, <2>7, OpEffects, ZenonT(60) DEF At, Is, OthersKeep
    <3>2. QED
      BY <1>2, <1>3, <3>1, Zenon
  <2>8. CASE CtxEnd(o)
    <3>1. /\ OthersKeep(o) /\ op'[o].pc = op[o].pc /\ op'[o].req = op[o].req /\ op'[o].on = op[o].on
          /\ op'[o].keep = op[o].keep /\ op'[o].home = op[o].home /\ op'[o].sid = op[o].sid
      BY <1>0, <2>8, OpEffects, ZenonT(60) DEF At, Is, Same, OthersKeep
    <3>2. QED
      BY <1>3, <3>1, ZenonT(60) DEF Origin
  <2>9. QED
    BY <1>8, <2>1, <2>2, <2>3, <2>4, <2>5, <2>6, <2>7, <2>8, ZenonT(60) DEF OpStep
<1>9. ASSUME NEW o \in Ops, NEW a \in Addrs, Redirect(o, a)
      PROVE  \A q \in Ops : Origin(q)
  <2>1. \/ Failed(o)
        \/ /\ OthersKeep(o) /\ op'[o].pc = "get" /\ op'[o].req = op[o].req
           /\ op'[o].keep = op[o].keep /\ op'[o].home = op[o].home
    BY <1>0, <1>9, ServerEffects, ZenonT(60) DEF Followed, Is, Same, OthersKeep
  <2>2. QED
    BY <1>3, <1>5, <2>1, ZenonT(60) DEF Origin
<1>10. ASSUME NEW o \in Ops, Execute(o)
       PROVE  \A q \in Ops : Origin(q)
  <2>1. /\ OthersKeep(o) /\ op'[o].pc = "wait" /\ op'[o].req = op[o].req /\ op'[o].on = op[o].on
        /\ op'[o].keep = op[o].keep /\ op'[o].home = op[o].home /\ op'[o].sid = op[o].sid
    BY <1>0, <1>10, ServerEffects, Zenon DEF At, Is, Same, OthersKeep
  <2>2. op[o].pc = "wait"
    BY <1>10, ZenonT(60) DEF Execute
  <2>3. QED
    BY <1>3, <2>1, <2>2, ZenonT(60) DEF Origin
<1>11. ASSUME NEW o \in Ops, Answer(o)
       PROVE  \A q \in Ops : Origin(q)
  <2>1. \/ Failed(o)
        \/ /\ OthersKeep(o) /\ op'[o].pc = "send" /\ op'[o].req = "use" /\ op'[o].on = op[o].keep
           /\ op'[o].sid = op[o].sid /\ op[o].sid = op[o].home /\ op[o].req = "reopen"
        \/ /\ OthersKeep(o) /\ op'[o].pc \in {"idle", "get", "update"} /\ op'[o].req \in {"open", "use"}
    BY <1>0, <1>11, ServerEffects, ZenonT(60) DEF At, Is, OthersKeep
  <2>2. QED
    BY <1>2, <1>3, <1>5, <2>1, ZenonT(60) DEF Origin
<1>12. ASSUME NEW os \in SUBSET Ops, NEW b \in BOOLEAN, Told(os, b)
       PROVE  \A q \in Ops : Origin(q)
  <2>1. \A q \in Ops : \/ op'[q] = op[q]
                       \/ Is(q, "idle", "open", FALSE, First, 0, "no")
                       \/ Followed(q, First)
    BY <1>0, <1>12, ToldEffects, ZenonT(60)
  <2>2. \A q \in Ops : \/ op'[q] = op[q]
                       \/ op'[q].pc = "idle" /\ op'[q].req = "open"
                       \/ /\ op'[q].pc = "get" /\ op'[q].req = op[q].req
                          /\ op'[q].keep = op[q].keep /\ op'[q].home = op[q].home
    BY <2>1, ZenonT(60) DEF Followed, Is, Same
  <2>3. QED
    BY <2>2, Zenon DEF Origin
<1>13. ASSUME (\E s \in Sess : Lose(s) \/ handleReadError(s)) \/ Close
       PROVE  \A q \in Ops : Origin(q)
  <2>1. CASE \E s \in Sess : Lose(s)
    BY <1>1, <2>1, Zenon DEF Lose
  <2>2. ASSUME NEW s \in Sess, handleReadError(s)
        PROVE  \A q \in Ops : Origin(q)
    <3>1. Told(Waiting(s), addr[s] # First) /\ Waiting(s) \in SUBSET Ops /\ (addr[s] # First) \in BOOLEAN
      BY <2>2, Zenon DEF handleReadError, Waiting
    <3>2. QED
      BY <1>12, <3>1, Zenon
  <2>3. ASSUME Close
        PROVE  \A q \in Ops : Origin(q)
    <3> DEFINE os == UNION {Waiting(s) : s \in {s \in Sess : \E a \in Addrs : sessions[a] = s}}
    <3>1. Told(os, FALSE) /\ os \in SUBSET Ops
      BY <2>3, ZenonT(60) DEF Close, Waiting
    <3> HIDE DEF os
    <3>2. QED
      BY <1>12, <3>1, Zenon
  <2>4. QED
    BY <1>13, <2>1, <2>2, <2>3, Zenon
<1>14. QED
  BY <1>0, <1>4, <1>8, <1>9, <1>10, <1>11, <1>13, ZenonT(60) DEF Next, Step, ServerStep

\* Session s may be used for address a: it was dialled for it, it is not the one being
\* logged in, and if connections are only lost during logins it is not lost.
Sound(s, a) ==
  /\ s \in 1 .. dialled /\ addr[s] = parseAddr(a)
  /\ ~scn.canLose => st[s] # "lost"
  /\ \A p \in Ops : op[p].pc = "login" => op[p].on # s

UseInv ==
  /\ \A a \in Addrs : sessions[a] # 0 => Sound(sessions[a], a)
  /\ \A o \in Ops : /\ op[o].pc \in {"send", "wait"} => Sound(op[o].on, op[o].sid)
                    /\ op[o].req = "reopen" => Sound(op[o].keep, op[o].home)

\* A session enters the table when its login is answered.
LEMMA TableOrigins ==
  ASSUME TInv, Next, NEW a \in Addrs, sessions'[a] # 0
  PROVE  \/ sessions'[a] = sessions[a]
         \/ \E o \in Ops : Login(o) /\ a = op[o].sid /\ sessions'[a] = op[o].on
<1>0. /\ scn.ops \subseteq Ops /\ sessions \in [Addrs -> Sess \cup {0}]
      /\ \A o \in Ops : op[o].sid \in Addrs
  BY ClientAssumption, Zenon DEF TInv, TypeOK, Scenario, OpState
<1>1. ASSUME NEW o \in Ops, Login(o)
      PROVE  \/ sessions'[a] = sessions[a]
             \/ a = op[o].sid /\ sessions'[a] = op[o].on
  BY <1>0, <1>1, Zenon DEF Login
<1>2. ASSUME NEW s \in Sess, handleReadError(s)
      PROVE  sessions'[a] = sessions[a]
  BY <1>0, <1>2, Zenon DEF handleReadError
<1>3. ASSUME Close
      PROVE  sessions'[a] = sessions[a]
  BY <1>3, Zenon DEF Close
<1>4. ASSUME NEW o \in Ops, OpStep(o) \/ CtxEnd(o) \/ Execute(o) \/ Answer(o)
      PROVE  sessions' = sessions
  BY <1>4, Zenon DEF OpStep, ReadSession, Lookup, Lock, Dial, DialFail, LoginFail, Send, Update,
     GiveUp, Execute,
              Answer, CtxEnd
<1>5. ASSUME NEW o \in Ops, NEW f, Open(o, f) \/ ReadHandle(o, f) \/ Redirect(o, f)
      PROVE  sessions' = sessions
  BY <1>5, Zenon DEF Open, ReadHandle, Redirect
<1>6. ASSUME NEW s \in Sess, Lose(s)
      PROVE  sessions' = sessions
  BY <1>6, Zenon DEF Lose
<1>7. QED
  BY <1>0, <1>1, <1>2, <1>3, <1>4, <1>5, <1>6, Zenon DEF Next, Step, ServerStep

\* Which operations log in after a step, and with which session.
LEMMA LoginOrigins ==
  ASSUME TInv, Next, NEW p \in Ops, op'[p].pc = "login"
  PROVE  \/ Dial(p) /\ op'[p].on = dialled + 1
         \/ op[p].pc = "login" /\ op'[p].on = op[p].on
<1>0. /\ UNCHANGED scn /\ scn.ops \subseteq Ops /\ scn.files \subseteq Files /\ scn.addrs \subseteq Addrs
  BY ClientAssumption, Zenon DEF TInv, TypeOK, Next, Scenario
<1>1. ASSUME Quiet
      PROVE  op[p].pc = "login" /\ op'[p].on = op[p].on
  BY <1>1, Zenon DEF Quiet, Dialling
<1>2. ASSUME NEW o \in Ops, Dial(o) \/ DialFail(o) \/ Login(o) \/ LoginFail(o) \/ Lock(o)
      PROVE  \/ Dial(p) /\ op'[p].on = dialled + 1
             \/ op[p].pc = "login" /\ op'[p].on = op[p].on
  <2>1. \A q \in Ops : q # o => op'[q] = op[q]
    BY <1>0, <1>2, OpEffects, ZenonT(60) DEF HasGot, Failed, At
  <2>2. p = o => Dial(p) /\ op'[p].on = dialled + 1
    BY <1>0, <1>2, OpEffects, ZenonT(60) DEF HasGot, Failed, At, Is
  <2>3. QED
    BY <2>1, <2>2, ZenonT(60)
<1>3. ASSUME NEW os \in SUBSET Ops, NEW b \in BOOLEAN, Told(os, b)
      PROVE  op[p].pc = "login" /\ op'[p].on = op[p].on
  <2>1. \/ op'[p] = op[p]
        \/ Is(p, "idle", "open", FALSE, First, 0, "no")
        \/ Followed(p, First)
    BY <1>0, <1>3, ToldEffects, Zenon
  <2>2. QED
    BY <2>1, Zenon DEF Followed, Is
<1>4. ASSUME NEW s \in Sess, handleReadError(s)
      PROVE  op[p].pc = "login" /\ op'[p].on = op[p].on
  <2>1. Told(Waiting(s), addr[s] # First) /\ Waiting(s) \in SUBSET Ops /\ (addr[s] # First) \in BOOLEAN
    BY <1>4, Zenon DEF handleReadError, Waiting
  <2>2. QED
    BY <1>3, <2>1, Zenon
<1>5. ASSUME Close
      PROVE  op[p].pc = "login" /\ op'[p].on = op[p].on
  <2> DEFINE os == UNION {Waiting(s) : s \in {s \in Sess : \E a \in Addrs : sessions[a] = s}}
  <2>1. Told(os, FALSE) /\ os \in SUBSET Ops
    BY <1>5, ZenonT(60) DEF Close, Waiting
  <2> HIDE DEF os
  <2>2. QED
    BY <1>3, <2>1, Zenon
<1>6. ASSUME NEW s \in Sess, Lose(s)
      PROVE  op[p].pc = "login" /\ op'[p].on = op[p].on
  BY <1>6, Zenon DEF Lose
<1>7. ASSUME NEW o \in Ops, OpStep(o) \/ CtxEnd(o) \/ ServerStep(o)
      PROVE  \/ Dial(p) /\ op'[p].on = dialled + 1
             \/ op[p].pc = "login" /\ op'[p].on = op[p].on
  BY <1>0, <1>1, <1>2, <1>7, QuietSteps, Zenon DEF OpStep, ServerStep
<1>8. ASSUME NEW o \in Ops, NEW f \in Files, Open(o, f) \/ ReadHandle(o, f)
      PROVE  op[p].pc = "login" /\ op'[p].on = op[p].on
  BY <1>0, <1>1, <1>8, QuietSteps, ZenonT(60)
<1>9. QED
  BY <1>0, <1>4, <1>5, <1>6, <1>7, <1>8, ZenonT(60) DEF Next, Step

\* Sessions keep their address, and are lost one at a time.
LEMMA SessionsKeep ==
  ASSUME TInv, Next, NEW s \in Sess, s \in 1 .. dialled
  PROVE  /\ dialled' \in Nat /\ s \in 1 .. dialled' /\ addr'[s] = addr[s]
         /\ st'[s] = "lost" => st[s] = "lost" \/ Lose(s)
<1>0. /\ scn.ops \subseteq Ops /\ addr \in [Sess -> Addrs] /\ dialled \in Nat /\ s \in Nat
      /\ st \in [Sess -> {"none", "up", "lost", "dead"}]
  BY ClientAssumption DEF TInv, TypeOK, Scenario, Sess
<1>1. ASSUME UNCHANGED <<dialled, addr, st>>
      PROVE  /\ dialled' \in Nat /\ s \in 1 .. dialled' /\ addr'[s] = addr[s]
             /\ st'[s] = "lost" => st[s] = "lost" \/ Lose(s)
  BY <1>0, <1>1, Zenon
<1>2. ASSUME NEW o \in Ops, Dial(o)
      PROVE  /\ dialled' \in Nat /\ s \in 1 .. dialled' /\ addr'[s] = addr[s]
             /\ st'[s] = "lost" => st[s] = "lost" \/ Lose(s)
  <2>1. /\ dialled' = dialled + 1 /\ addr' = [addr EXCEPT ![dialled + 1] = parseAddr(op[o].sid)]
        /\ st' = [st EXCEPT ![dialled + 1] = "up"]
    BY <1>2, Zenon DEF Dial
  <2>2. s # dialled + 1 /\ s \in 1 .. dialled'
    BY <1>0, <2>1
  <2>3. QED
    BY <1>0, <2>1, <2>2
<1>3. ASSUME NEW o \in Ops, LoginFail(o)
      PROVE  /\ dialled' \in Nat /\ s \in 1 .. dialled' /\ addr'[s] = addr[s]
             /\ st'[s] = "lost" => st[s] = "lost" \/ Lose(s)
  BY <1>0, <1>3, Zenon DEF LoginFail
<1>4. ASSUME NEW t \in Sess, Lose(t) \/ handleReadError(t)
      PROVE  /\ dialled' \in Nat /\ s \in 1 .. dialled' /\ addr'[s] = addr[s]
             /\ st'[s] = "lost" => st[s] = "lost" \/ Lose(s)
  <2>1. /\ UNCHANGED <<dialled, addr>>
        /\ \/ Lose(t) /\ st' = [st EXCEPT ![t] = "lost"]
           \/ st' = [st EXCEPT ![t] = "dead"]
    BY <1>4, Zenon DEF Lose, handleReadError
  <2>2. QED
    BY <1>0, <2>1, Zenon
<1>5. ASSUME Close
      PROVE  /\ dialled' \in Nat /\ s \in 1 .. dialled' /\ addr'[s] = addr[s]
             /\ st'[s] = "lost" => st[s] = "lost" \/ Lose(s)
  BY <1>0, <1>5, Zenon DEF Close
<1>6. ASSUME NEW o \in Ops, OpStep(o) \/ CtxEnd(o) \/ Execute(o) \/ Answer(o) \/ Login(o)
      PROVE  /\ dialled' \in Nat /\ s \in 1 .. dialled' /\ addr'[s] = addr[s]
             /\ st'[s] = "lost" => st[s] = "lost" \/ Lose(s)
  BY <1>1, <1>2, <1>3, <1>6, Zenon DEF OpStep, ReadSession, Lookup, Lock, DialFail, Send, Update,
     GiveUp, Execute,
              Answer, CtxEnd, Login
<1>7. ASSUME NEW o \in Ops, NEW f, Open(o, f) \/ ReadHandle(o, f) \/ Redirect(o, f)
      PROVE  UNCHANGED <<dialled, addr, st>>
  BY <1>7, Zenon DEF Open, ReadHandle, Redirect
<1>8. QED
  BY <1>0, <1>1, <1>4, <1>5, <1>6, <1>7, ZenonT(60) DEF Next, Step, ServerStep

LEMMA SoundKept ==
  ASSUME TInv, Next, NEW s \in Sess, NEW a \in Addrs, Sound(s, a)
  PROVE  Sound(s, a)'
<1>0. /\ s \in 1 .. dialled /\ addr[s] = parseAddr(a) /\ UNCHANGED scn
      /\ dialled \in Nat /\ Sess \subseteq Nat /\ s # dialled + 1
  BY ClientAssumption DEF Sound, Next, TInv, TypeOK, Sess
<1>1. s \in 1 .. dialled' /\ addr'[s] = parseAddr(a)
  BY <1>0, SessionsKeep, Zenon
<1>2. ASSUME NEW p \in Ops, op'[p].pc = "login"
      PROVE  op'[p].on # s
  BY <1>0, <1>2, LoginOrigins, Zenon DEF Sound
<1>3. ASSUME ~scn.canLose
      PROVE  st'[s] # "lost"
  <2>1. st[s] # "lost"
    BY <1>3, Zenon DEF Sound
  <2>2. ~Lose(s)
    BY <1>3, ZenonT(60) DEF Sound, Lose
  <2>3. QED
    BY <1>0, <2>1, <2>2, SessionsKeep, Zenon
<1>4. QED
  BY <1>0, <1>1, <1>2, <1>3, Zenon DEF Sound

\* A login that is answered leaves a session that may be used.
LEMMA LoginSound ==
  ASSUME SInv, Next, NEW o \in Ops, Login(o), NEW s \in Sess, NEW a \in Addrs,
         s = op[o].on, a = op[o].sid
  PROVE  Sound(s, a)'
<1>1. /\ TInv /\ op[o].pc = "login" /\ st[s] = "up" /\ UNCHANGED scn
      /\ UNCHANGED <<dialled, addr, st>> /\ mu' = None
  BY Zenon DEF SInv, Next, Login
<1>2. s \in 1 .. dialled /\ addr[s] = parseAddr(a)
  BY <1>1, Zenon DEF SInv, LockInv
<1>3. \A p \in Ops : op'[p].pc # "login"
  <2>1. \A p \in Ops : mu' = p <=> op'[p].pc \in Dialling
    BY SessionStep, Zenon DEF SInv, LockInv
  <2>2. QED
    BY <1>1, <2>1, ClientAssumption, Zenon DEF Dialling
<1>4. QED
  BY <1>1, <1>2, <1>3, Zenon DEF Sound


UInv == SInv /\ UseInv

LEMMA UseStep == UInv /\ [Next]_vars => UInv'
<1> SUFFICES ASSUME UInv, [Next]_vars
             PROVE  UseInv'
  BY SessionStep, Zenon DEF UInv
<1>0. SInv /\ SInv' /\ TInv /\ TInv' /\ UseInv
  BY SessionStep, Zenon DEF UInv, SInv
<1>1. CASE UNCHANGED vars
  BY <1>0, <1>1, ZenonT(60) DEF UseInv, Sound, vars, stepVars
<1>2. CASE Next
  <2>0. /\ sessions \in [Addrs -> Sess \cup {0}]
        /\ \A o \in Ops : /\ op[o].sid \in Addrs /\ op[o].home \in Addrs
                          /\ op[o].pc \in {"login", "send", "wait"} => op[o].on \in Sess
                          /\ op[o].req = "reopen" => op[o].keep \in Sess
        /\ \A o \in Ops : /\ op'[o].sid \in Addrs /\ op'[o].home \in Addrs
    BY <1>0, ZenonT(60) DEF TInv, TypeOK, OpState, Shape
  <2>1. ASSUME NEW s \in Sess, NEW a \in Addrs,
               \/ Sound(s, a)
               \/ \E o \in Ops : Login(o) /\ s = op[o].on /\ a = op[o].sid
        PROVE  Sound(s, a)'
    BY <1>0, <1>2, <2>1, SoundKept, LoginSound, Zenon
  <2>2. ASSUME NEW a \in Addrs, sessions[a] # 0
        PROVE  sessions[a] \in Sess /\ Sound(sessions[a], a)
    BY <1>0, <2>0, <2>2, Zenon DEF UseInv
  <2>4. ASSUME NEW a \in Addrs, NEW s \in Sess, sessions'[a] = s
        PROVE  Sound(s, a)'
    <3>1. \/ s = sessions[a]
          \/ \E o \in Ops : Login(o) /\ a = op[o].sid /\ s = op[o].on
      BY <1>0, <1>2, <2>0, <2>4, TableOrigins DEF Sess
    <3>2. s # 0
      BY DEF Sess
    <3>3. QED
      BY <2>1, <2>2, <3>1, <3>2, Zenon
  <2>5. ASSUME NEW o \in Ops, op'[o].pc \in {"send", "wait"}, NEW s \in Sess, NEW a \in Addrs,
               s = op'[o].on, a = op'[o].sid
        PROVE  Sound(s, a)'
    <3>1. \/ op[o].pc \in {"send", "wait"} /\ s = op[o].on /\ a = op[o].sid
          \/ sessions[a] # 0 /\ s = sessions[a]
          \/ Login(o) /\ s = op[o].on /\ a = op[o].sid
          \/ op[o].req = "reopen" /\ s = op[o].keep /\ a = op[o].home
      BY <1>0, <1>2, <2>5, Origins, Zenon DEF Origin
    <3>2. Sound(s, a) \/ \E q \in Ops : Login(q) /\ s = op[q].on /\ a = op[q].sid
      BY <1>0, <3>1, Zenon DEF UseInv
    <3>3. QED
      BY <2>1, <3>2, Zenon
  <2>6. ASSUME NEW o \in Ops, op'[o].req = "reopen", NEW s \in Sess, NEW a \in Addrs,
               s = op'[o].keep, a = op'[o].home
        PROVE  Sound(s, a)'
    <3>1. \/ op[o].req = "reopen" /\ s = op[o].keep /\ a = op[o].home
          \/ sessions[a] # 0 /\ s = sessions[a]
          \/ Login(o) /\ s = op[o].on /\ a = op[o].sid
      BY <1>0, <1>2, <2>6, Origins, Zenon DEF Origin
    <3>2. Sound(s, a) \/ \E q \in Ops : Login(q) /\ s = op[q].on /\ a = op[q].sid
      BY <1>0, <3>1, Zenon DEF UseInv
    <3>3. QED
      BY <2>1, <3>2, Zenon
  <2>7. /\ sessions' \in [Addrs -> Sess \cup {0}]
        /\ \A o \in Ops : /\ op'[o].pc \in {"send", "wait"} => op'[o].on \in Sess
                          /\ op'[o].req = "reopen" => op'[o].keep \in Sess
    BY <1>0, ZenonT(60) DEF TInv, TypeOK, Shape
  <2>8. QED
    BY <2>0, <2>4, <2>5, <2>6, <2>7 DEF UseInv, Sound
<1>3. QED
  BY <1>1, <1>2, Zenon

-----------------------------------------------------------------------------
(* Nothing is done twice *)

\* Every address the client may use is the one it was created against, port included.
OneServer == First = FirstFull /\ scn.addrs \subseteq {First}

AtFirst ==
  OneServer => /\ \A s \in Sess : addr[s] = First
               /\ \A o \in Ops : op[o].sid = First /\ op[o].home = First
               /\ \A f \in Files : file[f].sid = First

\* The server has carried the use out, and the answer is on its way or has come.
Carried(o) ==
  \/ op[o].pc = "wait" /\ op[o].req = "use" /\ op[o].ran = "yes"
  \/ op[o].pc = "update"

OnceInv ==
  \A o \in Ops : op[o].times = 0 \/ (op[o].times = 1 /\ Carried(o))

LEMMA FirstStep ==
  ASSUME TInv, AtFirst, Next
  PROVE  AtFirst'
<1> SUFFICES ASSUME OneServer'
             PROVE  /\ \A s \in Sess : addr'[s] = First
                    /\ \A o \in Ops : op'[o].sid = First /\ op'[o].home = First
                    /\ \A f \in Files : file'[f].sid = First
  BY Zenon DEF AtFirst
<1>0. /\ UNCHANGED scn /\ scn.ops \subseteq Ops /\ scn.files \subseteq Files /\ scn.addrs \subseteq {First}
      /\ First = FirstFull /\ First \in Addrs /\ file \in [Files -> FileState]
      /\ \A o \in Ops : op[o].pc # "idle" => op[o].f \in Files
  BY ClientAssumption, Zenon DEF TInv, TypeOK, Next, Scenario, OneServer, OpState, Shape
<1>1. /\ \A s \in Sess : addr[s] = First
      /\ \A o \in Ops : op[o].sid = First /\ op[o].home = First
      /\ \A f \in Files : file[f].sid = First
  BY <1>0, ZenonT(60) DEF AtFirst, OneServer
<1>2. ASSUME NEW o \in Ops, OthersKeep(o), op'[o].sid = First, op'[o].home = First
      PROVE  \A q \in Ops : op'[q].sid = First /\ op'[q].home = First
  BY <1>1, <1>2, ZenonT(60) DEF OthersKeep
<1>3. ASSUME NEW o \in Ops, Failed(o), op[o].pc # "idle"
      PROVE  /\ \A q \in Ops : op'[q].sid = First /\ op'[q].home = First
             /\ \A f \in Files : file'[f].sid = First
  <2>1. OthersKeep(o) /\ op'[o].sid = First /\ op'[o].home = First
    BY <1>3, Zenon DEF Failed, At, Is, Fresh, OthersKeep
  <2>2. Dropped({o})
    BY <1>0, <1>3, FileEffects, Zenon
  <2>3. QED
    BY <1>1, <1>2, <2>1, <2>2, ZenonT(60) DEF Dropped
<1>4. ASSUME NEW o \in Ops, NEW f \in Files, Open(o, f) \/ ReadHandle(o, f)
      PROVE  /\ \A q \in Ops : op'[q].sid = First /\ op'[q].home = First
             /\ \A g \in Files : file'[g].sid = First
  <2>1. OthersKeep(o) /\ op'[o].sid = First /\ op'[o].home = First
    BY <1>0, <1>4, BeginEffects, Zenon DEF At, Is, Fresh, OthersKeep
  <2>2. \A g \in Files : file'[g].sid = file[g].sid
    BY <1>0, <1>4, FileEffects, ZenonT(60) DEF ReadHandle
  <2>3. QED
    BY <1>1, <1>2, <2>1, <2>2, ZenonT(60)
<1>5. ASSUME NEW o \in Ops,
             \/ ReadSession(o) \/ Lookup(o) \/ Lock(o) \/ Dial(o) \/ Login(o) \/ CtxEnd(o) \/ Execute(o)
      PROVE  /\ \A q \in Ops : op'[q].sid = First /\ op'[q].home = First
             /\ \A f \in Files : file'[f].sid = First
  <2>1. file' = file
    BY <1>5, Zenon DEF ReadSession, Lookup, Lock, Dial, Login, CtxEnd, Execute
  <2>2. /\ OthersKeep(o) /\ op'[o].sid \in {op[o].sid, file[op[o].f].sid}
        /\ op'[o].home \in {op[o].home, op[o].sid}
        /\ (ReadSession(o) \/ op'[o].sid = op[o].sid)
    <3>1. ReadSession(o) \/ Dial(o) \/ CtxEnd(o) =>
            /\ OthersKeep(o) /\ op'[o].sid \in {op[o].sid, file[op[o].f].sid}
            /\ op'[o].home = op[o].home /\ (ReadSession(o) \/ op'[o].sid = op[o].sid)
      BY <1>0, OpEffects, ZenonT(60) DEF At, Is, Same, OthersKeep
    <3>2. Lookup(o) \/ Lock(o) \/ Login(o) =>
            /\ OthersKeep(o) /\ op'[o].sid = op[o].sid /\ op'[o].home \in {op[o].home, op[o].sid}
      BY <1>0, OpEffects, ZenonT(60) DEF HasGot, At, Is, Same, OthersKeep
    <3>3. Execute(o) => OthersKeep(o) /\ op'[o].sid = op[o].sid /\ op'[o].home = op[o].home
      BY <1>0, ServerEffects, Zenon DEF At, Is, Same, OthersKeep
    <3>4. QED
      BY <1>5, <3>1, <3>2, <3>3, ZenonT(60)
  <2>3. ReadSession(o) => op[o].f \in Files
    BY <1>0, Zenon DEF ReadSession
  <2>4. op'[o].sid = First /\ op'[o].home = First
    BY <1>1, <2>2, <2>3, ZenonT(60)
  <2>5. QED
    BY <1>1, <1>2, <2>1, <2>2, <2>4, ZenonT(60)
<1>6. ASSUME NEW o \in Ops, DialFail(o) \/ LoginFail(o) \/ GiveUp(o) \/ Send(o)
      PROVE  /\ \A q \in Ops : op'[q].sid = First /\ op'[q].home = First
             /\ \A f \in Files : file'[f].sid = First
  <2>1. op[o].pc # "idle"
    BY <1>6, Zenon DEF DialFail, LoginFail, GiveUp, Send
  <2>2. \/ Failed(o)
        \/ OthersKeep(o) /\ op'[o].sid = op[o].sid /\ op'[o].home = op[o].home /\ file' = file
    BY <1>0, <1>6, OpEffects, ZenonT(60) DEF At, Is, Same, OthersKeep
  <2>3. QED
    BY <1>1, <1>2, <1>3, <2>1, <2>2, Zenon
<1>7. ASSUME NEW o \in Ops, Update(o)
      PROVE  /\ \A q \in Ops : op'[q].sid = First /\ op'[q].home = First
             /\ \A f \in Files : file'[f].sid = First
  <2>1. OthersKeep(o) /\ op'[o].sid = First /\ op'[o].home = First
    BY <1>0, <1>7, OpEffects, ZenonT(60) DEF At, Is, Fresh, OthersKeep
  <2>2. \A f \in Files : file'[f].sid \in {op[o].sid, file[f].sid}
    BY <1>0, <1>7, FileEffects, ZenonT(60)
  <2>3. QED
    BY <1>1, <1>2, <2>1, <2>2, ZenonT(60)
<1>8. ASSUME NEW o \in Ops, NEW a \in scn.addrs, Redirect(o, a)
      PROVE  /\ \A q \in Ops : op'[q].sid = First /\ op'[q].home = First
             /\ \A f \in Files : file'[f].sid = First
  <2>1. op[o].pc # "idle" /\ a = First
    BY <1>0, <1>8, Zenon DEF Redirect
  <2>2. \/ Failed(o)
        \/ OthersKeep(o) /\ op'[o].sid = First /\ op'[o].home = op[o].home /\ file' = file
    BY <1>0, <1>8, <2>1, ServerEffects, Zenon DEF Followed, Is, Same, OthersKeep
  <2>3. QED
    BY <1>1, <1>2, <1>3, <2>1, <2>2, Zenon
<1>9. ASSUME NEW o \in Ops, Answer(o)
      PROVE  /\ \A q \in Ops : op'[q].sid = First /\ op'[q].home = First
             /\ \A f \in Files : file'[f].sid = First
  <2>1. op[o].pc # "idle"
    BY <1>9, Zenon DEF Answer
  <2>2. \/ Failed(o)
        \/ /\ OthersKeep(o) /\ op'[o].sid \in {First, op[o].sid} /\ op'[o].home \in {First, op[o].home}
           /\ (file' = file \/ file' = [file EXCEPT ![op[o].f] = Reopened(o)])
    BY <1>0, <1>9, ServerEffects, ZenonT(60) DEF At, Is, Fresh, Same, OthersKeep
  <2>3. file' = [file EXCEPT ![op[o].f] = Reopened(o)] =>
          \A f \in Files : file'[f].sid \in {op[o].sid, file[f].sid}
    <3> HAVE file' = [file EXCEPT ![op[o].f] = Reopened(o)]
    <3>1. /\ \A g \in Files : g # op[o].f => file'[g] = file[g]
          /\ file'[op[o].f].sid = op[o].sid
      BY <1>0, <2>1, FileEffects, Zenon
    <3>2. QED
      BY <3>1, Zenon
  <2>4. QED
    BY <1>1, <1>2, <1>3, <2>1, <2>2, <2>3, Zenon
<1>10. ASSUME NEW os \in SUBSET Ops, NEW b \in BOOLEAN, Told(os, b)
       PROVE  /\ \A q \in Ops : op'[q].sid = First /\ op'[q].home = First
              /\ \A f \in Files : file'[f].sid = First
  <2>1. /\ Dropped(os)
        /\ \A q \in Ops : \/ op'[q] = op[q]
                          \/ Is(q, "idle", "open", FALSE, First, 0, "no") /\ Fresh(q, None, 0)
                          \/ Followed(q, First)
    BY <1>0, <1>10, ToldEffects, Zenon
  <2>2. QED
    BY <1>1, <2>1 DEF Dropped, Followed, Is, Same, Fresh
<1>11. ASSUME NEW s \in Sess, Lose(s) \/ handleReadError(s)
       PROVE  /\ \A q \in Ops : op'[q].sid = First /\ op'[q].home = First
              /\ \A f \in Files : file'[f].sid = First
  <2>1. CASE Lose(s)
    BY <1>1, <2>1, Zenon DEF Lose
  <2>2. CASE handleReadError(s)
    <3>1. Told(Waiting(s), addr[s] # First) /\ Waiting(s) \in SUBSET Ops /\ (addr[s] # First) \in BOOLEAN
      BY <2>2, Zenon DEF handleReadError, Waiting
    <3>2. QED
      BY <1>10, <3>1, Zenon
  <2>3. QED
    BY <1>11, <2>1, <2>2, Zenon
<1>12. ASSUME Close
       PROVE  /\ \A q \in Ops : op'[q].sid = First /\ op'[q].home = First
              /\ \A f \in Files : file'[f].sid = First
  <2> DEFINE os == UNION {Waiting(s) : s \in {s \in Sess : \E a \in Addrs : sessions[a] = s}}
  <2>1. Told(os, FALSE) /\ os \in SUBSET Ops
    BY <1>12, ZenonT(60) DEF Close, Waiting
  <2> HIDE DEF os
  <2>2. QED
    BY <1>10, <2>1, Zenon
<1>13. \A s \in Sess : addr'[s] = First
  <2>1. ASSUME NEW o \in Ops, Dial(o)
        PROVE  \A s \in Sess : addr'[s] = First
    <3>1. addr' = [addr EXCEPT ![dialled + 1] = parseAddr(op[o].sid)] /\ parseAddr(op[o].sid) = First
      BY <1>0, <1>1, <2>1, Zenon DEF Dial, parseAddr
    <3>2. addr \in [Sess -> Addrs]
      BY Zenon DEF TInv, TypeOK
    <3>3. QED
      BY <1>1, <3>1, <3>2, Zenon
  <2>2. addr' = addr \/ \E o \in Ops : Dial(o)
    BY <1>0, ZenonT(60) DEF Next, Step, OpStep, ServerStep, Open, ReadHandle, ReadSession, Lookup,
       Lock, DialFail, Send, Update,
                GiveUp, Execute, Answer, CtxEnd, Login, LoginFail, Redirect, Lose, handleReadError,
                Close
  <2>3. QED
    BY <1>1, <2>1, <2>2, Zenon
<1>14. QED
  BY <1>0, <1>4, <1>5, <1>6, <1>7, <1>8, <1>9, <1>11, <1>12, <1>13, ZenonT(60) DEF Next, Step,
     OpStep, ServerStep

LEMMA OnceStep ==
  ASSUME UInv, AtFirst, OnceInv, Next, OneServer \/ ~scn.canLose
  PROVE  OnceInv'
<1>0. /\ TInv /\ UNCHANGED scn /\ scn.ops \subseteq Ops /\ scn.files \subseteq Files
      /\ scn.addrs \subseteq Addrs /\ \A o \in Ops : op[o].times \in Nat
  BY ClientAssumption, Zenon DEF UInv, SInv, TInv, TypeOK, Next, Scenario, OpState
<1>1. \A o \in Ops : op[o].times = 0 \/ (op[o].times = 1 /\ Carried(o))
  BY Zenon DEF OnceInv
<1>2. ASSUME NEW o \in Ops, OthersKeep(o), op'[o].times = 0 \/ (op'[o].times = 1 /\ Carried(o)')
      PROVE  OnceInv'
  BY <1>1, <1>2, ZenonT(60) DEF OnceInv, OthersKeep, Carried
<1>3. ASSUME NEW o \in Ops, OthersKeep(o), op'[o].times = op[o].times, ~Carried(o)
      PROVE  OnceInv'
  BY <1>1, <1>2, <1>3, Zenon
<1>4. ASSUME NEW o \in Ops, NEW f \in Files, Open(o, f) \/ ReadHandle(o, f)
      PROVE  OnceInv'
  <2>1. OthersKeep(o) /\ op'[o].times = 0
    BY <1>0, <1>4, BeginEffects, ZenonT(60) DEF At, Fresh, OthersKeep
  <2>2. QED
    BY <1>2, <2>1, Zenon
<1>6. ASSUME NEW o \in Ops, OpStep(o) \/ Login(o)
      PROVE  OnceInv'
  <2>1. CASE DialFail(o) \/ LoginFail(o) \/ GiveUp(o) \/ Update(o)
    <3>1. OthersKeep(o) /\ op'[o].times = 0
      BY <1>0, <2>1, OpEffects, Zenon DEF Failed, At, Fresh, OthersKeep
    <3>2. QED
      BY <1>2, <3>1, Zenon
  <2>2. CASE ReadSession(o) \/ Lookup(o) \/ Lock(o) \/ Dial(o) \/ Login(o) \/ Send(o)
    <3>1. op[o].pc \in {"begin", "get", "lock", "dial", "login", "send"}
      BY <2>2, Zenon DEF ReadSession, Lookup, Lock, Dial, Login, Send
    <3>2. ~Carried(o)
      BY <3>1, Zenon DEF Carried
    <3>3. OthersKeep(o) /\ op'[o].times \in {0, op[o].times}
      BY <1>0, <2>2, OpEffects, ZenonT(60) DEF HasGot, Failed, At, Same, Fresh, OthersKeep
    <3>4. QED
      BY <1>2, <1>3, <3>2, <3>3, ZenonT(60)
  <2>3. QED
    BY <1>6, <2>1, <2>2, ZenonT(60) DEF OpStep
<1>7. ASSUME NEW o \in Ops, CtxEnd(o)
      PROVE  OnceInv'
  <2>1. /\ OthersKeep(o) /\ op'[o].times = op[o].times /\ op'[o].pc = op[o].pc
        /\ op'[o].req = op[o].req /\ op'[o].ran = op[o].ran
    BY <1>0, <1>7, OpEffects, ZenonT(60) DEF At, Is, Same, OthersKeep
  <2>2. QED
    BY <1>1, <1>2, <2>1, Zenon DEF Carried
<1>8. ASSUME NEW o \in Ops, NEW a \in Addrs, Redirect(o, a)
      PROVE  OnceInv'
  <2>1. ~Carried(o)
    BY <1>8, Zenon DEF Carried, Redirect
  <2>2. OthersKeep(o) /\ op'[o].times \in {0, op[o].times}
    BY <1>0, <1>8, ServerEffects, Zenon DEF Failed, At, Followed, Same, Fresh, OthersKeep
  <2>3. QED
    BY <1>2, <1>3, <2>1, <2>2, ZenonT(60)
<1>9. ASSUME NEW o \in Ops, Execute(o)
      PROVE  OnceInv'
  <2>1. ~Carried(o) /\ op[o].times = 0
    BY <1>1, <1>9, Zenon DEF Carried, Execute
  <2>2. /\ OthersKeep(o)
        /\ \/ op'[o].times = op[o].times
           \/ /\ op'[o].times = op[o].times + 1 /\ op'[o].pc = "wait"
              /\ op'[o].req = "use" /\ op'[o].ran = "yes"
    BY <1>0, <1>9, ServerEffects, Zenon DEF At, Is, Same, OthersKeep
  <2>3. QED
    BY <1>2, <2>1, <2>2 DEF Carried
<1>10. ASSUME NEW o \in Ops, Answer(o)
       PROVE  OnceInv'
  <2>1. \/ OthersKeep(o) /\ op'[o].times = 0
        \/ OthersKeep(o) /\ op'[o].times = op[o].times /\ op[o].req = "reopen"
        \/ OthersKeep(o) /\ op'[o].times = op[o].times /\ op'[o].pc = "update"
    BY <1>0, <1>10, ServerEffects, Zenon DEF Failed, At, Is, Same, Fresh, OthersKeep
  <2>2. op[o].req = "reopen" => ~Carried(o)
    BY <1>10, ZenonT(60) DEF Carried, Answer
  <2>3. CASE OthersKeep(o) /\ op'[o].times = op[o].times /\ op'[o].pc = "update"
    BY <1>1, <1>2, <2>3, Zenon DEF Carried
  <2>4. QED
    BY <1>2, <1>3, <2>1, <2>2, <2>3, ZenonT(60)
<1>11. ASSUME NEW os \in SUBSET Ops, NEW b \in BOOLEAN, Told(os, b), b => \A q \in os : ~Carried(q)
       PROVE  OnceInv'
  <2>1. \A q \in Ops : \/ op'[q] = op[q]
                       \/ Fresh(q, None, 0)
                       \/ q \in os /\ b /\ Followed(q, First)
    BY <1>0, <1>11, ToldEffects, Zenon
  <2>2. \A q \in Ops : \/ op'[q] = op[q]
                       \/ op'[q].times = 0
                       \/ op'[q].times = op[q].times /\ ~Carried(q)
    BY <1>11, <2>1, Zenon DEF Fresh, Followed, Same
  <2>3. QED
    BY <1>1, <2>2, ZenonT(60) DEF OnceInv, Carried
<1>12. ASSUME NEW s \in Sess, handleReadError(s)
       PROVE  OnceInv'
  <2>1. /\ st[s] = "lost" /\ Told(Waiting(s), addr[s] # First)
        /\ Waiting(s) \in SUBSET Ops /\ (addr[s] # First) \in BOOLEAN
    BY <1>12, Zenon DEF handleReadError, Waiting
  <2>2. CASE OneServer
    <3>1. addr[s] = First
      BY <2>2, ZenonT(60) DEF AtFirst
    <3>2. QED
      BY <1>11, <2>1, <3>1, Zenon
  <2>3. CASE ~scn.canLose
    <3>1. \A q \in Waiting(s) : FALSE
      BY <2>1, <2>3, Zenon DEF UInv, UseInv, Sound, Waiting
    <3>2. QED
      BY <1>11, <2>1, <3>1, Zenon
  <2>4. QED
    BY <2>2, <2>3, ZenonT(60)
<1>13. ASSUME Close
       PROVE  OnceInv'
  <2> DEFINE os == UNION {Waiting(s) : s \in {s \in Sess : \E a \in Addrs : sessions[a] = s}}
  <2>1. Told(os, FALSE) /\ os \in SUBSET Ops
    BY <1>13, Zenon DEF Close, Waiting
  <2> HIDE DEF os
  <2>2. QED
    BY <1>11, <2>1, Zenon
<1>14. ASSUME NEW s \in Sess, Lose(s)
       PROVE  OnceInv'
  BY <1>14, Zenon DEF Lose, OnceInv, Carried
<1>15. QED
  BY <1>0, <1>4, <1>6, <1>7, <1>8, <1>9, <1>10, <1>12, <1>13, <1>14, ZenonT(60) DEF Next, Step, ServerStep

(***************************************************************************)
(* One call of a method of a file is carried out at most once, in two      *)
(* circumstances: the client has one server, so that the requests of a     *)
(* lost session fail (handleReadError redirects only those of the others); *)
(* or no logged-in connection is lost, so that only redirects by servers   *)
(* re-issue a request.                                                     *)
(***************************************************************************)
THEOREM DoneOnce == Spec => [](OneServer \/ ~scn.canLose => NothingDoneTwice)
<1> DEFINE IInv == UInv /\ AtFirst /\ (OneServer \/ ~scn.canLose => OnceInv)
<1>1. Init => IInv
  <2> SUFFICES ASSUME Init
               PROVE  IInv
    BY Zenon
  <2>1. SInv
    BY SessionInit, Zenon
  <2>2. /\ \A s \in Sess : addr[s] = FirstFull /\ st[s] = IF s = 1 THEN "up" ELSE "none"
        /\ \A a \in Addrs : sessions[a] = IF a = First THEN 1 ELSE 0
        /\ dialled = 1 /\ 1 \in Sess
        /\ \A f \in Files : file[f].sid = First
    BY ClientAssumption DEF Init, Sess
  <2>3. \A o \in Ops : /\ op[o].pc = "idle" /\ op[o].req = "open" /\ op[o].sid = First
                      /\ op[o].home = First /\ op[o].times = 0
    BY Zenon DEF Init, Idle
  <2>4. UseInv
    BY <2>2, <2>3 DEF UseInv, Sound, parseAddr
  <2>5. AtFirst
    BY <2>2, <2>3, Zenon DEF AtFirst, OneServer
  <2>6. QED
    BY <2>1, <2>3, <2>4, <2>5, Zenon DEF UInv, OnceInv
<1>2. IInv /\ [Next]_vars => IInv'
  <2> SUFFICES ASSUME IInv, [Next]_vars
               PROVE  AtFirst' /\ (OneServer \/ ~scn.canLose => OnceInv)'
    BY UseStep, Zenon
  <2>1. CASE UNCHANGED vars
    BY <2>1, Zenon DEF AtFirst, OneServer, OnceInv, Carried, vars, stepVars
  <2>2. CASE Next
    <3>1. UNCHANGED scn /\ TInv
      BY <2>2, Zenon DEF Next, UInv, SInv
    <3>2. QED
      BY <2>2, <3>1, FirstStep, OnceStep, Zenon DEF OneServer
  <2>3. QED
    BY <2>1, <2>2, Zenon
<1>3. IInv => (OneServer \/ ~scn.canLose => NothingDoneTwice)
  BY DEF OnceInv, NothingDoneTwice
<1>4. QED
  BY <1>1, <1>2, <1>3, PTL DEF Spec

-----------------------------------------------------------------------------
(* Handles *)

\* The operations under way at one time are on different files.
NoOverlap == \A o, p \in Ops : o # p /\ op[o].f = op[p].f => op[o].f = None

\* The server of address a has given handle h out for file f.
Issued(f, h, a) ==
  \E s \in Sess : /\ s \in 1 .. dialled /\ addr[s] = parseAddr(a)
                 /\ h \in DOMAIN handles[s] /\ handles[s][h] = f

\* What an operation under way has to do with its file: the file has been opened, unless the
\* operation is opening it; a use has the file's handle, and its session id once it has read
\* it, unless it is being redirected; an open that was carried out has its handle.
OpFile(o) ==
  LET y == op[o] IN
  y.pc # "idle" =>
    /\ file[y.f].state = IF y.req = "open" THEN "opening" ELSE "open"
    /\ y.req = "use" /\ ~y.moved => y.h = file[y.f].h
    /\ y.req = "use" /\ ~y.moved /\ y.pc # "begin" => y.sid = file[y.f].sid
    /\ y.req # "use" /\ y.pc = "wait" /\ y.ran = "yes" =>
         y.h \in DOMAIN handles[y.on] /\ handles[y.on][y.h] = y.f

FileInv ==
  /\ \A f \in Files : file[f].state = "open" => Issued(f, file[f].h, file[f].sid)
  /\ \A o \in Ops : OpFile(o)

\* A handle that was given out stays.
LEMMA HandlesKeep ==
  ASSUME TInv, Next, NEW s \in Sess, NEW h \in DOMAIN handles[s]
  PROVE  h \in DOMAIN handles'[s] /\ handles'[s][h] = handles[s][h]
<1>0. handles \in [Sess -> Seq(Files)] /\ handles[s] \in Seq(Files) /\ UNCHANGED scn /\ scn.ops \subseteq Ops
  BY ClientAssumption, Zenon DEF TInv, TypeOK, Next, Scenario
<1>1. ASSUME NEW o \in Ops, Execute(o)
      PROVE  h \in DOMAIN handles'[s] /\ handles'[s][h] = handles[s][h]
  <2>1. /\ op[o].on \in Sess /\ op[o].f \in Files
        /\ \/ handles' = handles
           \/ handles' = [handles EXCEPT ![op[o].on] = Append(@, op[o].f)]
    BY <1>1, ZenonT(60) DEF TInv, TypeOK, OpState, Shape, Execute
  <2>2. CASE handles' = [handles EXCEPT ![op[o].on] = Append(@, op[o].f)] /\ s = op[o].on
    <3>1. handles'[s] = Append(handles[s], op[o].f)
      BY <1>0, <2>1, <2>2, Zenon
    <3>2. h \in 1 .. Len(handles[s]) /\ Len(handles[s]) \in Nat
      BY <1>0
    <3>3. QED
      BY <1>0, <2>1, <3>1, <3>2
  <2>3. CASE handles' = handles \/ s # op[o].on
    BY <1>0, <2>1, <2>3, ZenonT(60)
  <2>4. QED
    BY <2>1, <2>2, <2>3, Zenon
<1>2. (\E o \in Ops : Execute(o)) \/ handles' = handles
  BY <1>0, ZenonT(60) DEF Next, Step, OpStep, ServerStep, Open, ReadHandle, ReadSession, Lookup,
     Lock, Dial, DialFail, Send,
              Update, GiveUp, Answer, CtxEnd, Login, LoginFail, Redirect, Lose, handleReadError,
              Close
<1>3. QED
  BY <1>1, <1>2, Zenon

LEMMA IssuedKept ==
  ASSUME TInv, Next, NEW f, NEW h, NEW a, Issued(f, h, a)
  PROVE  Issued(f, h, a)'
<1>1. PICK s \in Sess : /\ s \in 1 .. dialled /\ addr[s] = parseAddr(a)
                       /\ h \in DOMAIN handles[s] /\ handles[s][h] = f
  BY Zenon DEF Issued
<1>2. s \in 1 .. dialled' /\ addr'[s] = parseAddr(a)
  BY <1>1, SessionsKeep, Zenon
<1>3. h \in DOMAIN handles'[s] /\ handles'[s][h] = f
  BY <1>1, HandlesKeep, Zenon
<1>4. QED
  BY <1>2, <1>3, Zenon DEF Issued

\* A file an operation has nothing to do with, or that it only tries to open.
FileSame(f) ==
  file'[f].state = file[f].state /\ file'[f].h = file[f].h /\ file'[f].sid = file[f].sid

LEMMA OpeningFile ==
  ASSUME TInv, UNCHANGED scn, NEW o \in Ops, NEW f \in Files, Open(o, f)
  PROVE  \A g \in Files : /\ file'[g].h = file[g].h /\ file'[g].sid = file[g].sid
                          /\ file'[g].state = IF g = f THEN "opening" ELSE file[g].state
<1>1. file \in [Files -> FileState]
  BY Zenon DEF TInv, TypeOK
<1> DEFINE z == [file[f] EXCEPT !.state = "opening"]
<1>2. z.state = "opening" /\ z.h = file[f].h /\ z.sid = file[f].sid
  BY <1>1, FileTypes, Zenon
<1>3. file' = [file EXCEPT ![f] = z]
  BY ZenonT(60) DEF Open
<1> HIDE DEF z
<1>4. QED
  BY <1>1, <1>2, <1>3, Zenon

LEMMA OpFileStep ==
  ASSUME TInv, NoOverlap, \A o \in Ops : OpFile(o), Next
  PROVE  \A o \in Ops : OpFile(o)'
<1>0. /\ UNCHANGED scn /\ scn.ops \subseteq Ops /\ scn.files \subseteq Files /\ scn.addrs \subseteq Addrs
      /\ None \notin Files /\ TInv'
      /\ \A o \in Ops : op[o].pc # "idle" => op[o].f \in Files
      /\ \A o \in Ops : op[o].pc \in {"send", "wait", "login"} => op[o].on \in Sess
      /\ \A o \in Ops : op[o].moved => op[o].req = "use" /\ op[o].pc \in {"get", "lock", "dial", "login"}
  BY TypeStep, ClientAssumption, ZenonT(60) DEF TInv, TypeOK, Next, Scenario, OpState, Shape
<1>1. ASSUME NEW q \in Ops, op'[q] = op[q], op[q].pc # "idle" => FileSame(op[q].f)
      PROVE  OpFile(q)'
  <2>1. OpFile(q)
    BY Zenon
  <2>2. op[q].pc = "wait" => \A h \in DOMAIN handles[op[q].on] :
          h \in DOMAIN handles'[op[q].on] /\ handles'[op[q].on][h] = handles[op[q].on][h]
    BY <1>0, HandlesKeep, Zenon
  <2>3. QED
    BY <1>1, <2>1, <2>2, ZenonT(60) DEF OpFile, FileSame
<1>2. ASSUME NEW o \in Ops, NEW g, OthersKeep(o), \A f \in Files : f # g => FileSame(f),
             \A q \in Ops : q # o /\ op[q].pc # "idle" => op[q].f # g, OpFile(o)'
      PROVE  \A q \in Ops : OpFile(q)'
  BY <1>0, <1>1, <1>2, Zenon DEF OthersKeep
<1>3. ASSUME NEW o \in Ops, OthersKeep(o), file' = file, OpFile(o)'
      PROVE  \A q \in Ops : OpFile(q)'
  BY <1>1, <1>3, ZenonT(60) DEF OthersKeep, FileSame
<1>4. ASSUME NEW o \in Ops, NEW q \in Ops, q # o, op[q].pc # "idle", op[o].pc # "idle"
      PROVE  op[q].f # op[o].f
  BY <1>0, <1>4, ZenonT(60) DEF NoOverlap
<1>5. ASSUME NEW o \in Ops, NEW f \in Files, Open(o, f)
      PROVE  \A q \in Ops : OpFile(q)'
  <2>1. OthersKeep(o) /\ op'[o].pc = "get" /\ op'[o].req = "open" /\ op'[o].f = f /\ op'[o].moved = FALSE
    BY <1>0, <1>5, BeginEffects, ZenonT(60) DEF At, Is, Fresh, OthersKeep
  <2>2. file'[f].state = "opening" /\ (\A g \in Files : g # f => FileSame(g)) /\ file[f].state = "none"
    <3>1. \A g \in Files : /\ file'[g].h = file[g].h /\ file'[g].sid = file[g].sid
                           /\ file'[g].state = IF g = f THEN "opening" ELSE file[g].state
      BY <1>0, <1>5, OpeningFile, Zenon
    <3>2. QED
      BY <1>5, <3>1, Zenon DEF FileSame, Open
  <2>3. \A q \in Ops : q # o /\ op[q].pc # "idle" => op[q].f # f
    BY <2>2, Zenon DEF OpFile
  <2>4. OpFile(o)'
    BY <2>1, <2>2, Zenon DEF OpFile
  <2>5. QED
    BY <1>2, <2>1, <2>2, <2>3, <2>4, Zenon
<1>6. ASSUME NEW o \in Ops, NEW f \in Files, ReadHandle(o, f)
      PROVE  \A q \in Ops : OpFile(q)'
  <2>1. /\ OthersKeep(o) /\ op'[o].pc = "begin" /\ op'[o].req = "use" /\ op'[o].f = f
        /\ op'[o].h = file[f].h
    BY <1>0, <1>6, BeginEffects, ZenonT(60) DEF At, Is, Fresh, OthersKeep
  <2>2. file' = file /\ file[f].state = "open"
    BY <1>6, Zenon DEF ReadHandle
  <2>3. OpFile(o)'
    BY <2>1, <2>2, Zenon DEF OpFile
  <2>4. QED
    BY <1>3, <2>1, <2>2, <2>3, ZenonT(60)
<1>7. ASSUME NEW o \in Ops, Failed(o), op[o].pc # "idle"
      PROVE  \A q \in Ops : OpFile(q)'
  <2>1. OthersKeep(o) /\ op'[o].pc = "idle"
    BY <1>7, Zenon DEF Failed, At, Is, OthersKeep
  <2>2. \A f \in Files : f # op[o].f => FileSame(f)
    BY <1>0, <1>7, FileEffects DEF Dropped, FileSame
  <2>3. OpFile(o)'
    BY <2>1, Zenon DEF OpFile
  <2>4. QED
    BY <1>2, <1>4, <1>7, <2>1, <2>2, <2>3, ZenonT(60)
<1>8. ASSUME NEW o \in Ops, OthersKeep(o), file' = file, op[o].pc \notin {"idle", "begin"}, op'[o].f = op[o].f,
             op'[o].h = op[o].h, op'[o].sid = op[o].sid, op'[o].req = op[o].req, op'[o].moved = op[o].moved,
             op'[o].pc # "wait" \/ op'[o].ran = "no"
      PROVE  \A q \in Ops : OpFile(q)'
  <2>1. OpFile(o)
    BY Zenon
  <2>2. OpFile(o)'
    BY <1>8, <2>1, Zenon DEF OpFile
  <2>3. QED
    BY <1>3, <1>8, <2>2, Zenon
<1>9. ASSUME NEW o \in Ops, NEW s, HasGot(o, s), file' = file, op[o].pc \in {"get", "lock", "login"}
      PROVE  \A q \in Ops : OpFile(q)'
  <2>1. CASE ~op[o].moved
    <3>1. op[o].moved = FALSE
      BY <2>1, ZenonT(60) DEF TInv, TypeOK, OpState
    <3>2. /\ OthersKeep(o) /\ op'[o].f = op[o].f /\ op'[o].h = op[o].h /\ op'[o].sid = op[o].sid
          /\ op'[o].req = op[o].req /\ op'[o].moved = op[o].moved /\ op'[o].pc = "send"
      BY <1>9, <3>1, ZenonT(60) DEF HasGot, At, Is, Same, OthersKeep
    <3>3. QED
      BY <1>8, <1>9, <3>2, Zenon
  <2>2. CASE op[o].moved
    <3>1. /\ OthersKeep(o) /\ op'[o].pc = "get" /\ op'[o].req = "reopen" /\ op'[o].f = op[o].f
      BY <1>9, <2>2, Zenon DEF HasGot, At, Is, OthersKeep
    <3>2. file[op[o].f].state = "open"
      BY <1>0, <1>9, <2>2, ZenonT(60) DEF OpFile
    <3>3. OpFile(o)'
      BY <1>9, <3>1, <3>2, ZenonT(60) DEF OpFile
    <3>4. QED
      BY <1>3, <1>9, <3>1, <3>3, ZenonT(60)
  <2>3. QED
    BY <2>1, <2>2, ZenonT(60)
<1>10. ASSUME NEW o \in Ops, ReadSession(o)
       PROVE  \A q \in Ops : OpFile(q)'
  <2>1. file' = file /\ op[o].pc = "begin"
    BY <1>10, ZenonT(60) DEF ReadSession
  <2>2. /\ OthersKeep(o) /\ op'[o].pc = "get" /\ op'[o].sid = file[op[o].f].sid /\ op'[o].f = op[o].f
        /\ op'[o].h = op[o].h /\ op'[o].req = op[o].req /\ op'[o].moved = op[o].moved
    BY <1>0, <1>10, OpEffects, ZenonT(60) DEF At, Is, Same, OthersKeep
  <2>3. OpFile(o)
    BY Zenon
  <2>4. OpFile(o)'
    BY <2>1, <2>2, <2>3, ZenonT(60) DEF OpFile
  <2>5. QED
    BY <1>3, <2>1, <2>2, <2>4, Zenon
<1>11. ASSUME NEW o \in Ops, Lookup(o) \/ Lock(o) \/ Login(o) \/ Dial(o)
       PROVE  \A q \in Ops : OpFile(q)'
  <2>1. file' = file /\ op[o].pc \in {"get", "lock", "login", "dial"} /\ (Dial(o) \/ op[o].pc # "dial")
    BY <1>11, ZenonT(60) DEF Lookup, Lock, Login, Dial
  <2>2. \/ \E s : HasGot(o, s) /\ ~Dial(o)
        \/ /\ OthersKeep(o) /\ op'[o].f = op[o].f /\ op'[o].h = op[o].h /\ op'[o].sid = op[o].sid
           /\ op'[o].req = op[o].req /\ op'[o].moved = op[o].moved /\ op'[o].pc \in {"lock", "dial", "login"}
    <3>1. CASE Dial(o)
      BY <1>0, <3>1, OpEffects, ZenonT(60) DEF At, Is, Same, OthersKeep
    <3>2. CASE Login(o)
      BY <1>0, <3>2, OpEffects, ZenonT(60) DEF Login, Dial
    <3>3. CASE Lookup(o) \/ Lock(o)
      <4>1. op[o].pc \in {"get", "lock"}
        BY <3>3, ZenonT(60) DEF Lookup, Lock
      <4>2. ~Dial(o)
        BY <4>1, ZenonT(60) DEF Dial
      <4>3. QED
        BY <1>0, <3>3, <4>2, OpEffects, Zenon DEF At, Is, Same, OthersKeep
    <3>4. QED
      BY <1>11, <3>1, <3>2, <3>3, Zenon
  <2>3. QED
    BY <1>8, <1>9, <2>1, <2>2, ZenonT(60)
<1>12. ASSUME NEW o \in Ops, DialFail(o) \/ LoginFail(o) \/ GiveUp(o) \/ Send(o)
       PROVE  \A q \in Ops : OpFile(q)'
  <2>1. op[o].pc \notin {"idle", "begin"}
    BY <1>12, ZenonT(60) DEF DialFail, LoginFail, GiveUp, Send
  <2>2. \/ Failed(o)
        \/ /\ OthersKeep(o) /\ op'[o].f = op[o].f /\ op'[o].h = op[o].h /\ op'[o].sid = op[o].sid
           /\ op'[o].req = op[o].req /\ op'[o].moved = op[o].moved /\ op'[o].ran = "no" /\ file' = file
    BY <1>0, <1>12, OpEffects, ZenonT(60) DEF At, Is, Same, OthersKeep
  <2>3. QED
    BY <1>7, <1>8, <2>1, <2>2, Zenon
<1>13. ASSUME NEW o \in Ops, CtxEnd(o)
       PROVE  \A q \in Ops : OpFile(q)'
  <2>1. file' = file /\ handles' = handles
    BY <1>13, ZenonT(60) DEF CtxEnd
  <2>2. /\ OthersKeep(o) /\ op'[o].pc = op[o].pc /\ op'[o].sid = op[o].sid /\ op'[o].f = op[o].f
        /\ op'[o].h = op[o].h /\ op'[o].req = op[o].req /\ op'[o].moved = op[o].moved
        /\ op'[o].on = op[o].on /\ op'[o].ran = op[o].ran
    BY <1>0, <1>13, OpEffects, ZenonT(60) DEF At, Is, Same, OthersKeep
  <2>3. OpFile(o)
    BY Zenon
  <2>4. OpFile(o)'
    BY <2>1, <2>2, <2>3, ZenonT(60) DEF OpFile
  <2>5. QED
    BY <1>3, <2>1, <2>2, <2>4, Zenon
<1>14. ASSUME NEW o \in Ops, Update(o)
       PROVE  \A q \in Ops : OpFile(q)'
  <2>1. OthersKeep(o) /\ op'[o].pc = "idle" /\ op[o].pc # "idle"
    BY <1>0, <1>14, OpEffects, ZenonT(60) DEF At, Is, OthersKeep, Update
  <2>2. \A f \in Files : f # op[o].f => FileSame(f)
    <3>1. \A g \in Files : /\ file'[g].h = file[g].h /\ file'[g].state = file[g].state
                           /\ file'[g].sid = IF g = op[o].f THEN op[o].sid ELSE file[g].sid
      BY <1>0, <1>14, FileEffects, ZenonT(60)
    <3>2. QED
      BY <3>1, Zenon DEF FileSame
  <2>3. OpFile(o)'
    BY <2>1, Zenon DEF OpFile
  <2>4. QED
    BY <1>2, <1>4, <2>1, <2>2, <2>3
<1>15. ASSUME NEW q \in Ops, op[q].pc = "wait", op'[q].pc = "get", op'[q].req = op[q].req, op'[q].f = op[q].f,
              op'[q].h = op[q].h, op[q].req = "use" => op'[q].moved, FileSame(op[q].f)
       PROVE  OpFile(q)'
  <2>1. OpFile(q)
    BY Zenon
  <2>2. QED
    BY <1>15, <2>1, ZenonT(60) DEF OpFile, FileSame
<1>16. ASSUME NEW q \in Ops, NEW a, Followed(q, a), op[q].pc = "wait", FileSame(op[q].f)
       PROVE  OpFile(q)'
  <2>1. /\ op'[q].pc = "get" /\ op'[q].req = op[q].req /\ op'[q].f = op[q].f /\ op'[q].h = op[q].h
        /\ op[q].req = "use" => op'[q].moved
    BY <1>16, ZenonT(60) DEF Followed, Is, Same
  <2>2. QED
    BY <1>15, <1>16, <2>1, ZenonT(60)
<1>17. ASSUME NEW o \in Ops, NEW a \in Addrs, Redirect(o, a)
       PROVE  \A q \in Ops : OpFile(q)'
  <2>1. op[o].pc = "wait"
    BY <1>17, Zenon DEF Redirect
  <2>2. \/ Failed(o)
        \/ OthersKeep(o) /\ Followed(o, a) /\ file' = file
    BY <1>0, <1>17, ServerEffects, Zenon DEF OthersKeep
  <2>3. CASE OthersKeep(o) /\ Followed(o, a) /\ file' = file
    <3>1. OpFile(o)'
      BY <1>16, <2>1, <2>3, Zenon DEF FileSame
    <3>2. QED
      BY <1>3, <2>3, <3>1, ZenonT(60)
  <2>4. QED
    BY <1>7, <2>1, <2>2, <2>3, ZenonT(60)
<1>18. ASSUME NEW o \in Ops, Execute(o)
       PROVE  \A q \in Ops : OpFile(q)'
  <2> DEFINE y == op[o]  hs == handles[y.on]
  <2>1. y.pc = "wait" /\ file' = file /\ y.on \in Sess /\ hs \in Seq(Files) /\ y.f \in Files
        /\ handles \in [Sess -> Seq(Files)]
    BY <1>0, <1>18, ZenonT(60) DEF Execute, TInv, TypeOK
  <2>2. OpFile(o)
    BY Zenon
  <2>3. /\ OthersKeep(o) /\ op'[o].pc = "wait" /\ op'[o].f = y.f /\ op'[o].sid = y.sid /\ op'[o].on = y.on
        /\ op'[o].req = y.req /\ op'[o].moved = y.moved
        /\ \/ y.req = "use" /\ op'[o].h = y.h
           \/ /\ y.req # "use" /\ op'[o].h = Len(hs) + 1
              /\ handles' = [handles EXCEPT ![y.on] = Append(@, y.f)]
    BY <1>0, <1>18, ServerEffects, ZenonT(60) DEF At, Is, Same, OthersKeep
  <2>4. CASE y.req = "use"
    <3>1. OpFile(o)'
      BY <2>1, <2>2, <2>3, <2>4, ZenonT(60) DEF OpFile
    <3>2. QED
      BY <1>3, <2>1, <2>3, <3>1, ZenonT(60)
  <2>5. CASE y.req # "use"
    <3>1. handles'[y.on] = Append(hs, y.f)
      BY <2>1, <2>3, <2>5, ZenonT(60)
    <3>2. Len(hs) + 1 \in DOMAIN Append(hs, y.f) /\ Append(hs, y.f)[Len(hs) + 1] = y.f
      BY <2>1
    <3>3. OpFile(o)'
      BY <2>1, <2>2, <2>3, <2>5, <3>1, <3>2, ZenonT(60) DEF OpFile
    <3>4. QED
      BY <1>3, <2>1, <2>3, <3>3, Zenon
  <2>6. QED
    BY <2>4, <2>5, ZenonT(60)
<1>19. ASSUME NEW o \in Ops, Answer(o)
       PROVE  \A q \in Ops : OpFile(q)'
  <2> DEFINE y == op[o]
  <2>1. y.pc = "wait" /\ y.f \in Files
    BY <1>0, <1>19, ZenonT(60) DEF Answer
  <2>2. \/ Failed(o)
        \/ /\ OthersKeep(o) /\ op'[o].pc = "idle" /\ file' = [file EXCEPT ![y.f] = Reopened(o)]
        \/ /\ OthersKeep(o) /\ op'[o].pc \in {"send", "get"} /\ op'[o].req = "use" /\ op'[o].moved = y.moved
           /\ op'[o].f = y.f /\ op'[o].h = y.h /\ op'[o].sid = y.sid
           /\ file' = [file EXCEPT ![y.f] = Reopened(o)]
        \/ /\ OthersKeep(o) /\ op'[o].pc = "update" /\ op'[o].req = y.req /\ op'[o].moved = y.moved
           /\ op'[o].f = y.f /\ op'[o].h = y.h /\ op'[o].sid = y.sid /\ file' = file
    BY <1>0, <1>19, ServerEffects, ZenonT(60) DEF At, Is, Same, OthersKeep
  <2>3. CASE file' = [file EXCEPT ![y.f] = Reopened(o)]
    <3>1. /\ \A f \in Files : f # y.f => FileSame(f)
          /\ file'[y.f].state = "open" /\ file'[y.f].h = y.h /\ file'[y.f].sid = y.sid
      <4>1. /\ \A g \in Files : g # y.f => file'[g] = file[g]
            /\ file'[y.f].state = "open" /\ file'[y.f].h = y.h /\ file'[y.f].sid = y.sid
        BY <1>0, <2>1, <2>3, FileEffects, ZenonT(60)
      <4>2. QED
        BY <4>1, Zenon DEF FileSame
    <3>2. ASSUME OthersKeep(o), OpFile(o)'
          PROVE  \A q \in Ops : OpFile(q)'
      BY <1>2, <1>4, <2>1, <3>1, <3>2, ZenonT(60)
    <3>3. CASE OthersKeep(o) /\ op'[o].pc = "idle"
      BY <3>2, <3>3, Zenon DEF OpFile
    <3>4. CASE /\ OthersKeep(o) /\ op'[o].pc \in {"send", "get"} /\ op'[o].req = "use"
               /\ op'[o].f = y.f /\ op'[o].h = y.h /\ op'[o].sid = y.sid
      BY <3>1, <3>2, <3>4, Zenon DEF OpFile
    <3>5. CASE Failed(o)
      BY <1>7, <2>1, <3>5, Zenon
    <3>6. CASE /\ OthersKeep(o) /\ op'[o].pc = "update" /\ op'[o].req = y.req /\ op'[o].moved = y.moved
               /\ op'[o].f = y.f /\ op'[o].h = y.h /\ op'[o].sid = y.sid /\ file' = file
      BY <1>8, <2>1, <3>6, ZenonT(60)
    <3>7. QED
      BY <2>2, <3>3, <3>4, <3>5, <3>6, ZenonT(60)
  <2>4. CASE file' # [file EXCEPT ![y.f] = Reopened(o)]
    BY <1>7, <1>8, <2>1, <2>2, <2>4, Zenon
  <2>5. QED
    BY <2>3, <2>4, Zenon
<1>20. ASSUME NEW os \in SUBSET Ops, NEW b \in BOOLEAN, Told(os, b), \A q \in os : op[q].pc = "wait"
       PROVE  \A q \in Ops : OpFile(q)'
  <2>1. /\ Dropped(os)
        /\ \A q \in Ops : \/ q \notin os /\ op'[q] = op[q]
                          \/ q \in os /\ Is(q, "idle", "open", FALSE, First, 0, "no")
                          \/ q \in os /\ Followed(q, First)
    BY <1>0, <1>20, ToldEffects, Zenon
  <2>2. ASSUME NEW q \in Ops, op[q].pc # "idle", op'[q].pc # "idle"
        PROVE  FileSame(op[q].f)
    <3>1. \A p \in os : op[p].f = op[q].f => p = q
      BY <1>4, <1>20, <2>2, ZenonT(60)
    <3>2. op[q].f \in Files
      BY <1>0, <2>2, Zenon
    <3>3. QED
      BY <2>1, <2>2, <3>1, <3>2, Zenon DEF Dropped, FileSame
  <2>3. ASSUME NEW q \in Ops
        PROVE  OpFile(q)'
    <3>1. CASE op'[q] = op[q]
      BY <1>1, <2>2, <3>1, ZenonT(60)
    <3>2. CASE Is(q, "idle", "open", FALSE, First, 0, "no")
      BY <3>2, Zenon DEF Is, OpFile
    <3>3. CASE q \in os /\ Followed(q, First)
      <4>1. op'[q].pc = "get"
        BY <3>3, ZenonT(60) DEF Followed, Is
      <4>2. QED
        BY <1>16, <1>20, <2>2, <3>3, <4>1, ZenonT(60)
    <3>4. QED
      BY <2>1, <3>1, <3>2, <3>3, ZenonT(60)
  <2>4. QED
    BY <2>3, ZenonT(60)
<1>21. ASSUME NEW s \in Sess, Lose(s) \/ handleReadError(s)
       PROVE  \A q \in Ops : OpFile(q)'
  <2>1. CASE Lose(s)
    BY <1>1, <2>1, ZenonT(60) DEF Lose, FileSame
  <2>2. CASE handleReadError(s)
    <3>1. /\ Told(Waiting(s), addr[s] # First) /\ Waiting(s) \in SUBSET Ops /\ (addr[s] # First) \in BOOLEAN
          /\ \A q \in Waiting(s) : op[q].pc = "wait"
      BY <2>2, Zenon DEF handleReadError, Waiting
    <3>2. QED
      BY <1>20, <3>1, Zenon
  <2>3. QED
    BY <1>21, <2>1, <2>2, Zenon
<1>22. ASSUME Close
       PROVE  \A q \in Ops : OpFile(q)'
  <2> DEFINE os == UNION {Waiting(s) : s \in {s \in Sess : \E a \in Addrs : sessions[a] = s}}
  <2>1. Told(os, FALSE) /\ os \in SUBSET Ops /\ \A q \in os : op[q].pc = "wait"
    BY <1>22, ZenonT(60) DEF Close, Waiting
  <2> HIDE DEF os
  <2>2. QED
    BY <1>20, <2>1, Zenon
<1>23. QED
  BY <1>0, <1>5, <1>6, <1>10, <1>11, <1>12, <1>13, <1>14, <1>17, <1>18, <1>19, <1>21, <1>22
    , ZenonT(60) DEF Next, Step, OpStep, ServerStep

\* Where the handle and the session id of an open file come from.
LEMMA FileOrigins ==
  ASSUME TInv, \A o \in Ops : OpFile(o), Next, NEW f \in Files, file'[f].state = "open"
  PROVE  \/ FileSame(f)
         \/ \E o \in Ops : /\ op[o].pc = "wait" /\ op[o].ran = "yes" /\ op[o].req # "use" /\ op[o].f = f
                           /\ file'[f].h = op[o].h /\ file'[f].sid = op[o].sid
<1>0. /\ UNCHANGED scn /\ scn.ops \subseteq Ops /\ scn.files \subseteq Files /\ scn.addrs \subseteq Addrs
      /\ \A o \in Ops : op[o].pc # "idle" => op[o].f \in Files
  BY ClientAssumption, Zenon DEF TInv, TypeOK, Next, Scenario, OpState, Shape
<1>1. ASSUME NEW os, Dropped(os)
      PROVE  FileSame(f)
  BY <1>1, Zenon DEF Dropped, FileSame
<1>2. ASSUME NEW o \in Ops, NEW g \in Files, Open(o, g)
      PROVE  FileSame(f)
  BY <1>0, <1>2, OpeningFile, ZenonT(60) DEF FileSame
<1>3. ASSUME NEW o \in Ops, DialFail(o) \/ LoginFail(o) \/ GiveUp(o) \/ Send(o)
      PROVE  FileSame(f)
  <2>1. op[o].pc # "idle"
    BY <1>3, ZenonT(60) DEF DialFail, LoginFail, GiveUp, Send
  <2>2. Failed(o) \/ file' = file
    BY <1>0, <1>3, OpEffects, ZenonT(60)
  <2>3. QED
    BY <1>0, <1>1, <2>1, <2>2, FileEffects, ZenonT(60) DEF FileSame
<1>4. ASSUME NEW o \in Ops, NEW a \in Addrs, Redirect(o, a)
      PROVE  FileSame(f)
  <2>1. op[o].pc # "idle"
    BY <1>4, Zenon DEF Redirect
  <2>2. Failed(o) \/ file' = file
    BY <1>0, <1>4, ServerEffects, ZenonT(60)
  <2>3. QED
    BY <1>0, <1>1, <2>1, <2>2, FileEffects, ZenonT(60) DEF FileSame
<1>5. ASSUME NEW o \in Ops, Update(o)
      PROVE  FileSame(f)
  <2>1. \A g \in Files : /\ file'[g].h = file[g].h /\ file'[g].state = file[g].state
                        /\ file'[g].sid = IF g = op[o].f THEN op[o].sid ELSE file[g].sid
    BY <1>0, <1>5, FileEffects, Zenon
  <2>2. op[o].sid = file[op[o].f].sid
    BY <1>5, Zenon DEF Update, TInv, Shape, OpFile
  <2>3. QED
    BY <2>1, <2>2, ZenonT(60) DEF FileSame
<1>6. ASSUME NEW o \in Ops, Answer(o)
      PROVE  \/ FileSame(f)
             \/ /\ op[o].pc = "wait" /\ op[o].ran = "yes" /\ op[o].req # "use" /\ op[o].f = f
                /\ file'[f].h = op[o].h /\ file'[f].sid = op[o].sid
  <2>1. op[o].pc = "wait"
    BY <1>6, Zenon DEF Answer
  <2>2. \/ Failed(o) \/ file' = file
        \/ (op[o].ran = "yes" /\ op[o].req # "use" /\ file' = [file EXCEPT ![op[o].f] = Reopened(o)])
    BY <1>0, <1>6, ServerEffects, ZenonT(60)
  <2>3. CASE file' = [file EXCEPT ![op[o].f] = Reopened(o)]
    <3>1. /\ \A g \in Files : g # op[o].f => file'[g] = file[g]
          /\ file'[op[o].f].h = op[o].h /\ file'[op[o].f].sid = op[o].sid
      BY <1>0, <2>1, <2>3, FileEffects, ZenonT(60)
    <3>2. CASE f # op[o].f
      BY <3>1, <3>2, Zenon DEF FileSame
    <3>3. CASE f = op[o].f /\ op[o].ran = "yes" /\ op[o].req # "use"
      BY <2>1, <3>1, <3>3, ZenonT(60)
    <3>4. CASE Failed(o)
      BY <1>0, <1>1, <2>1, <3>4, FileEffects, ZenonT(60)
    <3>5. CASE file' = file
      BY <3>5, Zenon DEF FileSame
    <3>6. QED
      BY <2>2, <3>2, <3>3, <3>4, <3>5, ZenonT(60)
  <2>4. CASE Failed(o) \/ file' = file
    BY <1>0, <1>1, <2>1, <2>4, FileEffects, ZenonT(60) DEF FileSame
  <2>5. QED
    BY <2>2, <2>3, <2>4, Zenon
<1>7. ASSUME NEW o \in Ops,
             \/ ReadSession(o) \/ Lookup(o) \/ Lock(o) \/ Dial(o) \/ Login(o) \/ CtxEnd(o) \/ Execute(o)
             \/ \E g \in Files : ReadHandle(o, g)
      PROVE  FileSame(f)
  BY <1>7, Zenon DEF ReadSession, Lookup, Lock, Dial, Login, CtxEnd, Execute, ReadHandle, FileSame
<1>8. ASSUME NEW s \in Sess, Lose(s) \/ handleReadError(s)
      PROVE  FileSame(f)
  <2>1. CASE Lose(s)
    BY <2>1, ZenonT(60) DEF Lose, FileSame
  <2>2. CASE handleReadError(s)
    <3>1. Told(Waiting(s), addr[s] # First) /\ Waiting(s) \in SUBSET Ops /\ (addr[s] # First) \in BOOLEAN
      BY <2>2, Zenon DEF handleReadError, Waiting
    <3>2. QED
      BY <1>0, <1>1, <3>1, ToldEffects, Zenon
  <2>3. QED
    BY <1>8, <2>1, <2>2, Zenon
<1>9. ASSUME Close
      PROVE  FileSame(f)
  <2> DEFINE os == UNION {Waiting(s) : s \in {s \in Sess : \E a \in Addrs : sessions[a] = s}}
  <2>1. Told(os, FALSE) /\ os \in SUBSET Ops
    BY <1>9, ZenonT(60) DEF Close, Waiting
  <2> HIDE DEF os
  <2>2. QED
    BY <1>0, <1>1, <2>1, ToldEffects, Zenon
<1>10. QED
  BY <1>0, <1>2, <1>3, <1>4, <1>5, <1>6, <1>7, <1>8, <1>9, Zenon DEF Next, Step, OpStep, ServerStep

FInv == UInv /\ FileInv

LEMMA FileStep == FInv /\ NoOverlap /\ [Next]_vars => FInv'
<1> SUFFICES ASSUME FInv, NoOverlap, [Next]_vars
             PROVE  FileInv'
  BY UseStep, Zenon DEF FInv
<1>0. TInv /\ UInv /\ FileInv
  BY Zenon DEF FInv, UInv, SInv
<1>1. CASE UNCHANGED vars
  BY <1>0, <1>1, ZenonT(60) DEF FileInv, OpFile, Issued, vars, stepVars
<1>2. CASE Next
  <2>1. \A o \in Ops : OpFile(o)'
    BY <1>0, <1>2, OpFileStep, Zenon DEF FileInv
  <2>2. ASSUME NEW f \in Files, NEW h, NEW a, file'[f].state = "open", h = file'[f].h, a = file'[f].sid
        PROVE  Issued(f, h, a)'
    <3>1. \/ FileSame(f)
          \/ \E o \in Ops : /\ op[o].pc = "wait" /\ op[o].ran = "yes" /\ op[o].req # "use" /\ op[o].f = f
                            /\ file'[f].h = op[o].h /\ file'[f].sid = op[o].sid
      BY <1>0, <1>2, <2>2, FileOrigins, Zenon DEF FileInv
    <3>2. CASE FileSame(f)
      BY <1>0, <1>2, <2>2, <3>2, IssuedKept, ZenonT(60) DEF FileInv, FileSame
    <3>3. ASSUME NEW o \in Ops, op[o].pc = "wait", op[o].ran = "yes", op[o].req # "use", op[o].f = f,
                 h = op[o].h, a = op[o].sid
          PROVE  Issued(f, h, a)'
      <4>1. Sound(op[o].on, a) /\ op[o].on \in Sess
        BY <1>0, <3>3, Zenon DEF UInv, UseInv, TInv, Shape
      <4>2. h \in DOMAIN handles[op[o].on] /\ handles[op[o].on][h] = f
        BY <1>0, <3>3, Zenon DEF FileInv, OpFile
      <4>3. Issued(f, h, a)
        BY <4>1, <4>2, Zenon DEF Issued, Sound
      <4>4. QED
        BY <1>0, <1>2, <4>3, IssuedKept, Zenon
    <3>4. QED
      BY <2>2, <3>1, <3>2, <3>3, ZenonT(60)
  <2>3. QED
    BY <2>1, <2>2 DEF FileInv, Issued
<1>3. QED
  BY <1>1, <1>2, Zenon

LEMMA FileInit == Init => FInv
<1> SUFFICES ASSUME Init
             PROVE  FInv
  BY Zenon
<1>1. SInv
  BY SessionInit, Zenon
<1>2. /\ \A s \in Sess : addr[s] = FirstFull /\ st[s] = IF s = 1 THEN "up" ELSE "none"
      /\ \A a \in Addrs : sessions[a] = IF a = First THEN 1 ELSE 0
      /\ dialled = 1 /\ 1 \in Sess
      /\ \A f \in Files : file[f].state = "none"
  BY ClientAssumption DEF Init, Sess
<1>3. \A o \in Ops : op[o].pc = "idle" /\ op[o].req = "open"
  BY Zenon DEF Init, Idle
<1>4. UseInv
  BY <1>2, <1>3 DEF UseInv, Sound, parseAddr
<1>5. FileInv
  BY <1>2, <1>3, Zenon DEF FileInv, OpFile
<1>6. QED
  BY <1>1, <1>4, <1>5, Zenon DEF FInv, UInv

(***************************************************************************)
(* The handle and the session id a file object holds belong together, as   *)
(* long as no two operations on one file overlap: file.do and file.reopen  *)
(* read and write them one after the other.                                *)
(***************************************************************************)
THEOREM HandlesBelong == Spec /\ []NoOverlap => []HandleFromSession
<1>1. Init => FInv
  BY FileInit, Zenon
<1>2. FInv /\ NoOverlap /\ [Next]_vars => FInv'
  BY FileStep, Zenon
<1>3. FInv => HandleFromSession
  BY Zenon DEF FInv, FileInv, Issued, HandleFromSession
<1>4. QED
  BY <1>1, <1>2, <1>3, PTL DEF Spec

\* Without losses, an operation is at the session the table has for its address, and a file's
\* handle is one of the session the table has for the file.
RightInv ==
  ~scn.canLose =>
    /\ \A f \in Files : file[f].state = "open" =>
         LET s == sessions[file[f].sid] IN
         s # 0 /\ file[f].h \in DOMAIN handles[s] /\ handles[s][file[f].h] = f
    /\ \A o \in Ops : /\ op[o].pc \in {"send", "wait"} => op[o].on = sessions[op[o].sid]
                      /\ op[o].req = "reopen" => op[o].keep = sessions[op[o].home]
    /\ RightFile

LEMMA TableKeeps ==
  ASSUME UInv, Next, ~scn.canLose, NEW a \in Addrs, sessions[a] # 0
  PROVE  sessions'[a] = sessions[a]
<1>0. /\ UNCHANGED scn /\ scn.ops \subseteq Ops /\ sessions \in [Addrs -> Sess \cup {0}]
      /\ st[sessions[a]] # "lost" /\ sessions[a] \in Sess
      /\ \A o \in Ops : op[o].sid \in Addrs
  BY ClientAssumption, ZenonT(60) DEF UInv, UseInv, Sound, SInv, TInv, TypeOK, Next, Scenario, OpState
<1>1. ASSUME NEW o \in Ops, Login(o)
      PROVE  sessions'[a] = sessions[a]
  <2>1. sessions[op[o].sid] = 0 /\ sessions' = [sessions EXCEPT ![op[o].sid] = op[o].on]
    BY <1>1, Zenon DEF Login, UInv, SInv, LockInv, Dialling
  <2>2. QED
    BY <1>0, <2>1, Zenon
<1>2. ASSUME NEW s \in Sess, handleReadError(s)
      PROVE  sessions'[a] = sessions[a]
  BY <1>0, <1>2, Zenon DEF handleReadError
<1>3. ASSUME Close
      PROVE  sessions'[a] = sessions[a]
  <2>1. PICK late \in SUBSET {s \in Sess : st[s] = "lost"} :
          sessions' = [b \in Addrs |-> IF sessions[b] \in late /\ addr[sessions[b]] = b THEN 0 ELSE sessions[b]]
    BY <1>3, Zenon DEF Close
  <2>2. QED
    BY <1>0, <2>1, Zenon
<1>4. \/ sessions' = sessions \/ Close \/ \E s \in Sess : handleReadError(s)
      \/ \E o \in Ops : Login(o)
  BY <1>0, ZenonT(60) DEF Next, Step, OpStep, ServerStep, Open, ReadHandle, ReadSession, Lookup,
     Lock, Dial, DialFail, Send,
              Update, GiveUp, Execute, Answer, CtxEnd, LoginFail, Redirect, Lose
<1>5. QED
  BY <1>1, <1>2, <1>3, <1>4, Zenon

\* What a use was carried out on: it is carried out again, or stays as it was.
LEMMA DidOrigins ==
  ASSUME TInv, Next, NEW o \in Ops
  PROVE  \/ op'[o].did = None
         \/ op'[o].did = op[o].did /\ op'[o].f = op[o].f
         \/ /\ op[o].pc = "wait" /\ op[o].req = "use" /\ op[o].h \in DOMAIN handles[op[o].on]
            /\ op'[o].did = handles[op[o].on][op[o].h] /\ op'[o].f = op[o].f
<1> DEFINE Did(q) ==
      \/ op'[q].did = None
      \/ op'[q].did = op[q].did /\ op'[q].f = op[q].f
      \/ /\ op[q].pc = "wait" /\ op[q].req = "use" /\ op[q].h \in DOMAIN handles[op[q].on]
         /\ op'[q].did = handles[op[q].on][op[q].h] /\ op'[q].f = op[q].f
<1>0. /\ UNCHANGED scn /\ scn.ops \subseteq Ops /\ scn.files \subseteq Files /\ scn.addrs \subseteq Addrs
  BY ClientAssumption, Zenon DEF TInv, TypeOK, Next, Scenario
<1>1. ASSUME NEW p \in Ops, OthersKeep(p), Did(p)
      PROVE  Did(o)
  BY <1>1, Zenon DEF OthersKeep
<1>2. ASSUME NEW p \in Ops, NEW f \in Files, Open(p, f) \/ ReadHandle(p, f)
      PROVE  Did(o)
  <2>1. OthersKeep(p) /\ op'[p].did = None
    BY <1>0, <1>2, BeginEffects, ZenonT(60) DEF At, Fresh, OthersKeep
  <2>2. QED
    BY <1>1, <2>1, Zenon
<1>3. ASSUME NEW p \in Ops, OpStep(p) \/ CtxEnd(p) \/ Login(p)
      PROVE  Did(o)
  <2>1. OthersKeep(p) /\ (op'[p].did = None \/ (op'[p].did = op[p].did /\ op'[p].f = op[p].f))
    BY <1>0, <1>3, OpEffects, ZenonT(60) DEF OpStep, HasGot, Failed, At, Same, Fresh, OthersKeep
  <2>2. QED
    BY <1>1, <2>1, ZenonT(60)
<1>4. ASSUME NEW p \in Ops, NEW a \in Addrs, Redirect(p, a)
      PROVE  Did(o)
  <2>1. OthersKeep(p) /\ (op'[p].did = None \/ (op'[p].did = op[p].did /\ op'[p].f = op[p].f))
    BY <1>0, <1>4, ServerEffects, ZenonT(60) DEF Failed, Followed, At, Same, Fresh, OthersKeep
  <2>2. QED
    BY <1>1, <2>1, ZenonT(60)
<1>5. ASSUME NEW p \in Ops, Execute(p)
      PROVE  Did(o)
  <2>1. OthersKeep(p) /\ Did(p)
    BY <1>0, <1>5, ServerEffects, ZenonT(60) DEF Execute, At, Same, OthersKeep
  <2>2. QED
    BY <1>1, <2>1, ZenonT(60)
<1>6. ASSUME NEW p \in Ops, Answer(p)
      PROVE  Did(o)
  <2>1. OthersKeep(p) /\ (op'[p].did = None \/ (op'[p].did = op[p].did /\ op'[p].f = op[p].f))
    BY <1>0, <1>6, ServerEffects, ZenonT(60) DEF Failed, At, Same, Fresh, OthersKeep
  <2>2. QED
    BY <1>1, <2>1, Zenon
<1>7. ASSUME NEW os \in SUBSET Ops, NEW b \in BOOLEAN, Told(os, b)
      PROVE  Did(o)
  <2>1. op'[o] = op[o] \/ Fresh(o, None, 0) \/ Followed(o, First)
    BY <1>0, <1>7, ToldEffects, ZenonT(60)
  <2>2. QED
    BY <2>1, ZenonT(60) DEF Fresh, Followed, Same
<1>8. ASSUME NEW s \in Sess, Lose(s) \/ handleReadError(s)
      PROVE  Did(o)
  <2>1. CASE Lose(s)
    BY <2>1, ZenonT(60) DEF Lose
  <2>2. CASE handleReadError(s)
    <3>1. Told(Waiting(s), addr[s] # First) /\ Waiting(s) \in SUBSET Ops /\ (addr[s] # First) \in BOOLEAN
      BY <2>2, Zenon DEF handleReadError, Waiting
    <3>2. QED
      BY <1>7, <3>1, Zenon
  <2>3. QED
    BY <1>8, <2>1, <2>2, Zenon
<1>9. ASSUME Close
      PROVE  Did(o)
  <2> DEFINE os == UNION {Waiting(s) : s \in {s \in Sess : \E a \in Addrs : sessions[a] = s}}
  <2>1. Told(os, FALSE) /\ os \in SUBSET Ops
    BY <1>9, ZenonT(60) DEF Close, Waiting
  <2> HIDE DEF os
  <2>2. QED
    BY <1>7, <2>1, Zenon
<1>10. QED
  BY <1>0, <1>2, <1>3, <1>4, <1>5, <1>6, <1>8, <1>9, Zenon DEF Next, Step, ServerStep

LEMMA RightStep ==
  ASSUME FInv, RightInv, Next, ~scn.canLose
  PROVE  RightInv'
<1>0. /\ TInv /\ UInv /\ FileInv /\ None \notin Files /\ TInv'
      /\ \A f \in Files : file[f].sid \in Addrs /\ file'[f].sid \in Addrs
      /\ \A o \in Ops : op[o].sid \in Addrs /\ op'[o].sid \in Addrs /\ op'[o].home \in Addrs
                        /\ op[o].home \in Addrs
      /\ sessions \in [Addrs -> Sess \cup {0}]
  BY TypeStep, ClientAssumption, ZenonT(60) DEF FInv, UInv, SInv, TInv, TypeOK, FileState, OpState
<1>1. ASSUME NEW a \in Addrs, sessions[a] # 0
      PROVE  sessions'[a] = sessions[a] /\ sessions[a] \in Sess
  BY <1>0, <1>1, TableKeeps, Zenon
<1>2. ASSUME NEW o \in Ops
      PROVE  /\ op[o].pc \in {"send", "wait"} => op[o].on = sessions[op[o].sid] /\ op[o].on # 0
             /\ op[o].req = "reopen" => op[o].keep = sessions[op[o].home] /\ op[o].keep # 0
  <2>1. 0 \notin Sess
    BY DEF Sess
  <2>2. QED
    BY <1>0, <2>1, ZenonT(60) DEF RightInv, TInv, Shape
<1>3. ASSUME NEW o \in Ops, Login(o)
      PROVE  sessions'[op[o].sid] = op[o].on
  BY <1>0, <1>3, Zenon DEF Login
<1>4. ASSUME NEW o \in Ops, op'[o].pc \in {"send", "wait"}
      PROVE  op'[o].on = sessions'[op'[o].sid]
  <2>1. Origin(o)
    BY <1>0, Origins, Zenon
  <2>2. QED
    BY <1>0, <1>1, <1>2, <1>3, <1>4, <2>1 DEF Origin
<1>5. ASSUME NEW o \in Ops, op'[o].req = "reopen"
      PROVE  op'[o].keep = sessions'[op'[o].home]
  <2>1. Origin(o)
    BY <1>0, Origins, Zenon
  <2>2. QED
    BY <1>0, <1>1, <1>2, <1>3, <1>5, <2>1, ZenonT(60) DEF Origin
<1>6. ASSUME NEW f \in Files, NEW a \in Addrs, NEW h, sessions[a] # 0, h \in DOMAIN handles[sessions[a]],
             handles[sessions[a]][h] = f
      PROVE  /\ sessions'[a] # 0 /\ h \in DOMAIN handles'[sessions'[a]]
             /\ handles'[sessions'[a]][h] = f
  BY <1>0, <1>1, <1>6, HandlesKeep, ZenonT(60)
<1>7. ASSUME NEW f \in Files, file'[f].state = "open"
      PROVE  LET s == sessions'[file'[f].sid] IN
             s # 0 /\ file'[f].h \in DOMAIN handles'[s] /\ handles'[s][file'[f].h] = f
  <2>1. \/ FileSame(f)
        \/ \E o \in Ops : /\ op[o].pc = "wait" /\ op[o].ran = "yes" /\ op[o].req # "use" /\ op[o].f = f
                          /\ file'[f].h = op[o].h /\ file'[f].sid = op[o].sid
    BY <1>0, <1>7, FileOrigins, ZenonT(60) DEF FileInv
  <2>2. CASE FileSame(f)
    <3>1. LET s == sessions[file[f].sid] IN
          s # 0 /\ file[f].h \in DOMAIN handles[s] /\ handles[s][file[f].h] = f
      BY <1>7, <2>2, Zenon DEF RightInv, FileSame
    <3>2. QED
      BY <1>0, <1>6, <2>2, <3>1 DEF FileSame
  <2>3. ASSUME NEW o \in Ops, op[o].pc = "wait", op[o].ran = "yes", op[o].req # "use", op[o].f = f,
               file'[f].h = op[o].h, file'[f].sid = op[o].sid
        PROVE  LET s == sessions'[file'[f].sid] IN
               s # 0 /\ file'[f].h \in DOMAIN handles'[s] /\ handles'[s][file'[f].h] = f
    <3>1. op[o].h \in DOMAIN handles[op[o].on] /\ handles[op[o].on][op[o].h] = f
      BY <1>0, <2>3, Zenon DEF FileInv, OpFile
    <3>2. QED
      BY <1>0, <1>2, <1>6, <2>3, <3>1
  <2>4. QED
    BY <2>1, <2>2, <2>3, Zenon
<1>8. ASSUME NEW o \in Ops
      PROVE  op'[o].did \in {None, op'[o].f}
  <2>1. \/ op'[o].did = None
        \/ op'[o].did = op[o].did /\ op'[o].f = op[o].f
        \/ /\ op[o].pc = "wait" /\ op[o].req = "use" /\ op[o].h \in DOMAIN handles[op[o].on]
           /\ op'[o].did = handles[op[o].on][op[o].h] /\ op'[o].f = op[o].f
    BY <1>0, DidOrigins, Zenon
  <2>2. ASSUME op[o].pc = "wait", op[o].req = "use"
        PROVE  handles[op[o].on][op[o].h] = op[o].f
    <3>1. /\ op[o].f \in Files /\ ~op[o].moved /\ op[o].on = sessions[op[o].sid]
      BY <1>0, <1>2, <2>2, Zenon DEF TInv, TypeOK, Shape, OpState
    <3>2. file[op[o].f].state = "open" /\ op[o].h = file[op[o].f].h /\ op[o].sid = file[op[o].f].sid
      BY <1>0, <2>2, <3>1, Zenon DEF FileInv, OpFile
    <3>3. QED
      BY <3>1, <3>2, ZenonT(60) DEF RightInv
  <2>3. QED
    BY <2>1, <2>2, Zenon DEF RightInv, RightFile
<1>9. QED
  BY <1>4, <1>5, <1>7, <1>8, Zenon DEF RightInv, RightFile

(***************************************************************************)
(* A use is applied to the file it was made on, through every redirect and *)
(* re-open, as long as no two operations on one file overlap and no        *)
(* logged-in connection is lost: a session replaced behind a file's back   *)
(* gives its handle another meaning.                                       *)
(***************************************************************************)
THEOREM RightFileUsed == Spec /\ []NoOverlap => [](~scn.canLose => RightFile)
<1>1. Init => FInv /\ RightInv
  <2> SUFFICES ASSUME Init
               PROVE  RightInv
    BY FileInit, Zenon
  <2>1. \A o \in Ops : op[o].pc = "idle" /\ op[o].req = "open" /\ op[o].did = None
    BY Zenon DEF Init, Idle
  <2>2. \A f \in Files : file[f].state = "none"
    BY Zenon DEF Init
  <2>3. QED
    BY <2>1, <2>2, Zenon DEF RightInv, RightFile
<1>2. FInv /\ RightInv /\ NoOverlap /\ [Next]_vars => FInv' /\ RightInv'
  <2> SUFFICES ASSUME FInv, RightInv, NoOverlap, [Next]_vars
               PROVE  RightInv'
    BY FileStep, Zenon
  <2>1. CASE UNCHANGED vars
    BY <2>1, Zenon DEF RightInv, RightFile, vars, stepVars
  <2>2. CASE Next /\ ~scn.canLose
    BY <2>2, RightStep, Zenon
  <2>3. CASE Next /\ scn.canLose
    BY <2>3, Zenon DEF Next, RightInv
  <2>4. QED
    BY <2>1, <2>2, <2>3, Zenon
<1>3. RightInv => (~scn.canLose => RightFile)
  BY Zenon DEF RightInv
<1>4. QED
  BY <1>1, <1>2, <1>3, PTL DEF Spec

=============================================================================
