---------------------------- MODULE SessionProofs ----------------------------
(***************************************************************************)
(* What holds of a session for any number of requests and data connections *)
(* and any number of parts and waits.                                      *)
(***************************************************************************)
EXTENDS Session, TLAPS

Ats == {"idle", "timer", "top", "read", "select", "unclaim", "drain", "delete", "next", "gone"}
Jobs == {"none", "frame", "attn", "fail", "redir", "close", "retry"}
Msgs == Final \cup {"sofar", "none"}

\* Goroutine a is now at l with these fields, and the others are where they were.
Becomes(a, l, j, o, m, t) ==
  /\ act' \in [Actors -> Act]
  /\ \A b \in Actors : b # a => act'[b] = act[b]
  /\ act'[a].at = l /\ act'[a].job = j /\ act'[a].on = o /\ act'[a].msg = m /\ act'[a].todo = t

\* Goroutine a is now at l, and nothing else of any has changed.
Goes(a, l) == Becomes(a, l, act[a].job, act[a].on, act[a].msg, act[a].todo)

\* Goroutine a is now at l and does nothing.
Rests(a, l) == Becomes(a, l, "none", None, "none", {})

LEMMA ActFields ==
  ASSUME TypeOK, NEW a \in Actors
  PROVE  /\ act[a] \in Act /\ act[a].at \in Ats /\ act[a].job \in Jobs
         /\ act[a].on \in Reqs \cup {None} /\ act[a].msg \in Msgs /\ act[a].todo \in SUBSET Reqs
<1>1. act[a] \in Act
  BY Zenon DEF TypeOK
<1>2. QED
  BY <1>1, ZenonT(60) DEF Act, Ats, Jobs, Msgs

LEMMA BusyBecomes ==
  ASSUME TypeOK, NEW a \in Actors, NEW l \in Ats, NEW j \in Jobs, NEW o \in Reqs \cup {None},
         NEW m \in Msgs, NEW t \in SUBSET Reqs, act' = [act EXCEPT ![a] = Busy(l, j, o, m, t)]
  PROVE  Becomes(a, l, j, o, m, t)
<1> DEFINE x == Busy(l, j, o, m, t)
<1>1. x \in Act /\ x.at = l /\ x.job = j /\ x.on = o /\ x.msg = m /\ x.todo = t
  BY DEF Busy, Act, Ats, Jobs, Msgs
<1>2. act \in [Actors -> Act]
  BY Zenon DEF TypeOK
<1> HIDE DEF x
<1>3. act' = [act EXCEPT ![a] = x]
  BY Zenon DEF x
<1>4. QED
  BY <1>1, <1>2, <1>3, ZenonT(60) DEF Becomes

LEMMA AtRests ==
  ASSUME TypeOK, NEW a \in Actors, NEW l \in Ats, act' = [act EXCEPT ![a] = At(l)]
  PROVE  Rests(a, l)
<1>1. "none" \in Jobs /\ "none" \in Msgs /\ {} \in SUBSET Reqs
  BY Zenon DEF Jobs, Msgs
<1>2. QED
  BY <1>1, BusyBecomes, Zenon DEF At, Rests

LEMMA MoveGoes ==
  ASSUME TypeOK, NEW a \in Actors, NEW l \in Ats, Move(a, l)
  PROVE  Goes(a, l)
<1>1. act \in [Actors -> Act] /\ act[a] \in Act
  BY Zenon DEF TypeOK
<1> DEFINE x == [act[a] EXCEPT !.at = l]
<1>2. /\ x \in Act /\ x.at = l /\ x.job = act[a].job /\ x.on = act[a].on /\ x.msg = act[a].msg
      /\ x.todo = act[a].todo
  BY <1>1, Zenon DEF Act, Ats
<1>3. act' = [act EXCEPT ![a] = x]
  BY <1>1, Zenon DEF Move
<1> HIDE DEF x
<1>4. QED
  BY <1>1, <1>2, <1>3, Zenon DEF Goes, Becomes

LEMMA SendBecomes ==
  ASSUME TypeOK, NEW a \in Actors, NEW j \in Jobs, NEW r \in Reqs, NEW m \in Msgs, NEW t \in SUBSET Reqs,
         NEW l \in Ats, SendData(a, j, r, m, t, l)
  PROVE  /\ entry[r] = "claimed" => Becomes(a, "select", j, r, m, t)
         /\ entry[r] # "claimed" => Becomes(a, l, j, r, m, t)
<1> DEFINE k == IF entry[r] = "claimed" THEN "select" ELSE l
<1>1. k \in Ats
  BY Zenon DEF Ats
<1>2. act' = [act EXCEPT ![a] = Busy(k, j, r, m, t)]
  BY Zenon DEF SendData
<1> HIDE DEF k
<1>3. Becomes(a, k, j, r, m, t)
  BY <1>1, <1>2, BusyBecomes, ZenonT(60)
<1>4. QED
  BY <1>3, Zenon DEF k

-----------------------------------------------------------------------------
(* Counting the parts of a response on their way. *)

IsPart(f, r) == f.on = r /\ f.kind \in {"sofar", "ok"}
Mine(s, r) == {i \in DOMAIN s : IsPart(s[i], r)}
Count(s, r) == Cardinality(Mine(s, r))

\* What the steps need of it.  Nothing else of Count is used.
Counting ==
  /\ \A s \in Seq(Frames), r \in Reqs : Count(s, r) \in Nat
  /\ \A s \in Seq(Frames), r \in Reqs : (\A i \in DOMAIN s : s[i].on # r) => Count(s, r) = 0
  /\ \A s \in Seq(Frames), f \in Frames, r \in Reqs :
       Count(Append(s, f), r) = Count(s, r) + (IF IsPart(f, r) THEN 1 ELSE 0)
  /\ \A s \in Seq(Frames), r \in Reqs : s # <<>> =>
       Count(s, r) = Count(Tail(s), r) + (IF IsPart(Head(s), r) THEN 1 ELSE 0)

LEMMA CountType ==
  ASSUME Counting, NEW s \in Seq(Frames), NEW r \in Reqs
  PROVE  Count(s, r) \in Nat
  BY Zenon DEF Counting

LEMMA CountNone ==
  ASSUME Counting, NEW s \in Seq(Frames), NEW r \in Reqs, \A i \in DOMAIN s : s[i].on # r
  PROVE  Count(s, r) = 0
  BY Zenon DEF Counting

LEMMA CountAppend ==
  ASSUME Counting, NEW s \in Seq(Frames), NEW f \in Frames, NEW r \in Reqs
  PROVE  Count(Append(s, f), r) = Count(s, r) + (IF IsPart(f, r) THEN 1 ELSE 0)
  BY Zenon DEF Counting

LEMMA CountTail ==
  ASSUME Counting, NEW s \in Seq(Frames), s # <<>>, NEW r \in Reqs
  PROVE  Count(s, r) = Count(Tail(s), r) + (IF IsPart(Head(s), r) THEN 1 ELSE 0)
  BY Zenon DEF Counting

LEMMA AppendFacts ==
  ASSUME NEW s \in Seq(Frames), NEW f \in Frames
  PROVE  /\ DOMAIN Append(s, f) = 1 .. (Len(s) + 1) /\ DOMAIN s = 1 .. Len(s) /\ Len(s) \in Nat
         /\ Append(s, f)[Len(s) + 1] = f /\ \A i \in 1 .. Len(s) : Append(s, f)[i] = s[i]
<1>1. Len(s) \in Nat /\ DOMAIN s = 1 .. Len(s)
  OBVIOUS
<1>2. Append(s, f) \in Seq(Frames) /\ Len(Append(s, f)) = Len(s) + 1
  OBVIOUS
<1>3. DOMAIN Append(s, f) = 1 .. (Len(s) + 1)
  BY <1>2
<1>4. Append(s, f)[Len(s) + 1] = f
  BY <1>1
<1>5. \A i \in 1 .. Len(s) : Append(s, f)[i] = s[i]
  BY <1>1
<1>6. QED
  BY <1>1, <1>3, <1>4, <1>5, ZenonT(60)

LEMMA TailFacts ==
  ASSUME NEW s \in Seq(Frames), s # <<>>
  PROVE  /\ Tail(s) \in Seq(Frames) /\ Head(s) = s[1] /\ 1 \in DOMAIN s /\ s[1] \in Frames
         /\ DOMAIN s = 1 .. Len(s) /\ Len(s) \in Nat /\ Len(s) >= 1
         /\ DOMAIN Tail(s) = 1 .. (Len(s) - 1)
         /\ \A i \in 1 .. (Len(s) - 1) : Tail(s)[i] = s[i + 1]
  OBVIOUS

-----------------------------------------------------------------------------
(* The inductive invariant. *)

\* What the job of goroutine a, and the place it has reached in it, tell.
Fits(a, l, j, o, m, t, q) ==
  /\ l \in {"idle", "timer", "read", "gone"} => j = "none" /\ t = {}
  /\ l = "top" => j \in {"none", "frame", "attn"}
  /\ l = "select" => j # "none" /\ o \in Reqs /\ m # "none"
  /\ l \in {"unclaim", "drain"} => j \in {"frame", "attn", "retry", "close"} /\ o \in Reqs
  /\ l = "delete" => j \in {"frame", "attn", "retry"} /\ o \in Reqs
  /\ l = "next" => j \in {"fail", "redir", "close"}
  /\ l \in {"top", "read"} => a \in Conns
  /\ j \in {"frame", "attn"} => a \in Conns
  /\ j = "retry" => a \in Reqs
  /\ j \in {"fail", "redir"} => a = Main
  /\ j = "close" => a \in {Main, User} /\ q
  /\ m \in {"sofar", "ok"} => j \in {"frame", "attn"}

Shape(a) == Fits(a, act[a].at, act[a].job, act[a].on, act[a].msg, act[a].todo, quit)
Shapes == \A a \in Actors : Shape(a)

\* The request has been written, or given up.
Answerable(r) == pc[r] \in {"wait", "ret"}
NoFrame(r) == \A c \in Conns : \A i \in DOMAIN wire[c] : wire[c][i].on # r

\* The frames on a connection: each belongs there, and only the last one to a
\* request can be other than a part, in which case it says where the server is.
OnWire(c) ==
  /\ \A i \in DOMAIN wire[c] :
       /\ path[wire[c][i].on] = c /\ Answerable(wire[c][i].on)
       /\ wire[c][i].kind = "wait" => srv[wire[c][i].on] = "told" /\ ~wire[c][i].async
       /\ wire[c][i].kind \in Final => srv[wire[c][i].on] = wire[c][i].kind
  /\ \A i, j \in DOMAIN wire[c] : i < j /\ wire[c][i].on = wire[c][j].on => wire[c][i].kind = "sofar"

Acting(a) == act[a].at \in {"select", "unclaim", "drain", "delete"}
Reading(a) == Acting(a) /\ act[a].job \in {"frame", "attn"}

\* Responses are delivered by the reader of the connection they came by.
Delivery(a) ==
  /\ Reading(a) => path[act[a].on] = a
  /\ Acting(a) /\ act[a].job \in {"frame", "attn", "retry"} => Answerable(act[a].on)
  /\ Reading(a) /\ act[a].at = "select" /\ act[a].msg = "ok" => srv[act[a].on] = "ok" /\ NoFrame(act[a].on)

Timed(r) == act[r].at = "timer" => srv[r] = "told" /\ NoFrame(r)

\* The reader of r's answers is about to hand it a part.
Offers(r) ==
  LET a == path[r] IN
  Reading(a) /\ act[a].at = "select" /\ act[a].on = r /\ act[a].msg \in {"sofar", "ok"}
Offered(r) == IF Offers(r) THEN 1 ELSE 0

\* No part is delivered twice, nor one that was not sent.
Balance(r) ==
  /\ got[r] + Count(wire[path[r]], r) + Offered(r) <= sent[r]
  /\ sent[r] <= MaxParts \/ srv[r] = "ok"
  /\ ~Answerable(r) => got[r] = 0 /\ sent[r] = 0 /\ srv[r] = "new"

Flow ==
  /\ \A c \in Conns : OnWire(c)
  /\ \A a \in Actors : Delivery(a)
  /\ \A r \in Reqs : Timed(r) /\ Balance(r)

\* A request not yet written holds its stream, unless the session was closed.
ClaimHeld == \A r \in Reqs : pc[r] \in {"claimed", "write"} /\ ~quit => entry[r] = "claimed"

Inv == TypeOK /\ Shapes /\ Flow /\ ClaimHeld

-----------------------------------------------------------------------------
LEMMA Names ==
  /\ Main \in Conns /\ Main \in Actors /\ User \in Actors /\ Conns \subseteq Actors /\ Reqs \subseteq Actors
  /\ \A r \in Reqs : r \notin Conns /\ r # Main /\ r # User
  /\ \A c \in Conns : c # User
  /\ Main # User
  /\ None \notin Reqs
  BY SessionAssumption, Zenon DEF Conns, Actors

LEMMA ShapeKept ==
  ASSUME Shapes, quit => quit', NEW a, NEW l, NEW j, NEW o, NEW m, NEW t, Becomes(a, l, j, o, m, t),
         Fits(a, l, j, o, m, t, quit')
  PROVE  Shapes'
<1> SUFFICES ASSUME NEW b \in Actors
             PROVE  Shape(b)'
  BY Zenon DEF Shapes
<1>1. CASE b = a
  BY <1>1, Zenon DEF Shape, Becomes
<1>2. CASE b # a
  <2>1. act'[b] = act[b] /\ Shape(b)
    BY <1>2, Zenon DEF Becomes, Shapes
  <2>2. QED
    BY <2>1, ZenonT(60) DEF Shape, Fits
<1>3. QED
  BY <1>1, <1>2, ZenonT(60)

LEMMA ShapeSame ==
  ASSUME Shapes, quit => quit', UNCHANGED act
  PROVE  Shapes'
  BY ZenonT(60) DEF Shapes, Shape, Fits

LEMMA WireFields ==
  ASSUME TypeOK, NEW c \in Conns
  PROVE  /\ wire[c] \in Seq(Frames)
         /\ \A i \in DOMAIN wire[c] : /\ wire[c][i] \in Frames /\ wire[c][i].on \in Reqs
                                      /\ wire[c][i].kind \in AllKinds /\ wire[c][i].async \in BOOLEAN
<1>1. wire[c] \in Seq(Frames)
  BY Zenon DEF TypeOK
<1>2. \A i \in DOMAIN wire[c] : wire[c][i] \in Frames
  BY <1>1
<1>3. QED
  BY <1>1, <1>2, Zenon DEF Frames

\* A step after which goroutine a delivers nothing it did not deliver before.
Quieter(a) ==
  \/ act'[a] = act[a]
  \/ /\ act'[a].at # "timer"
     /\ Reading(a)' => /\ act'[a].at # "select" /\ Reading(a)
                       /\ act'[a].on = act[a].on
     /\ Acting(a)' /\ act'[a].job = "retry" => Answerable(act'[a].on)

\* The request that takes a part is the one it was offered to.
Takes(r) == got'[r] = got[r] \/ (got'[r] = got[r] + 1 /\ Offers(r) /\ ~Offers(r)' /\ Answerable(r))

LEMMA FlowKept ==
  ASSUME Counting, TypeOK, Flow, UNCHANGED <<path, sent, srv, wire>>, \A r \in Reqs : Takes(r),
         \A r \in Reqs : Answerable(r) => Answerable(r)',
         \A a \in Actors : Quieter(a), \A a \in Actors : Acting(a) => act[a].on \in Reqs,
         \A a \in Actors : Acting(a)' => act'[a].on \in Reqs
  PROVE  Flow'
<1>1. ASSUME NEW c \in Conns
      PROVE  OnWire(c)'
  <2>1. OnWire(c) /\ wire' = wire /\ path' = path /\ srv' = srv
    BY Zenon DEF Flow
  <2>2. \A i \in DOMAIN wire[c] : wire[c][i].on \in Reqs
    BY WireFields, Zenon
  <2>3. QED
    BY <2>1, <2>2, ZenonT(60) DEF OnWire
<1>2. \A r \in Reqs : NoFrame(r)' <=> NoFrame(r)
  BY Zenon DEF NoFrame
<1>3. ASSUME NEW a \in Actors
      PROVE  Delivery(a)'
  <2>1. Delivery(a)
    BY ZenonT(60) DEF Flow
  <2>2. CASE act'[a] = act[a]
    BY <1>2, <2>1, <2>2, Zenon DEF Delivery, Reading, Acting
  <2>3. CASE act'[a] # act[a]
    <3>1. (Reading(a)' => act'[a].at # "select" /\ Reading(a) /\ act'[a].on = act[a].on)
          /\ (Acting(a)' /\ act'[a].job = "retry" => Answerable(act'[a].on))
      BY <2>3, Zenon DEF Quieter
    <3>2. QED
      BY <2>1, <3>1, ZenonT(60) DEF Delivery, Reading, Acting
  <2>4. QED
    BY <2>2, <2>3, ZenonT(60)
<1>4. ASSUME NEW r \in Reqs
      PROVE  Timed(r)'
  <2>1. r \in Actors /\ Quieter(r) /\ Timed(r)
    BY Names, ZenonT(60) DEF Flow
  <2>2. QED
    BY <1>2, <2>1, Zenon DEF Quieter, Timed
<1>5. ASSUME NEW r \in Reqs
      PROVE  Balance(r)'
  <2>1. path[r] \in Actors /\ Quieter(path[r]) /\ Balance(r)
    BY Names, Zenon DEF Flow, TypeOK
  <2>2. Offers(r)' => Offers(r)
    BY <2>1, ZenonT(60) DEF Quieter, Offers, Reading, Acting
  <2>3. got[r] \in Nat /\ sent[r] \in Nat /\ Count(wire[path[r]], r) \in Nat
    BY CountType DEF TypeOK
  <2>4. /\ Offered(r)' \in Nat /\ Offered(r) \in Nat
        /\ got'[r] \in Nat /\ got'[r] + Offered(r)' <= got[r] + Offered(r)
    BY <2>2, <2>3 DEF Offered, Takes
  <2>5. Count(wire[path[r]], r)' = Count(wire[path[r]], r)
    BY Zenon
  <2>6. ~Answerable(r)' => got'[r] = got[r] /\ ~Answerable(r)
    BY Zenon DEF Takes
  <2>7. QED
    BY <2>1, <2>3, <2>4, <2>5, <2>6 DEF Balance
<1>6. QED
  BY <1>1, <1>3, <1>4, <1>5, Zenon DEF Flow

-----------------------------------------------------------------------------
(* The steps of a request's own goroutine preserve it. *)

LEMMA QuietSame ==
  ASSUME UNCHANGED act
  PROVE  \A a \in Actors : Quieter(a)
  BY Zenon DEF Quieter

LEMMA ActOn ==
  ASSUME Shapes, NEW a \in Actors, Acting(a)
  PROVE  act[a].on \in Reqs
  BY Zenon DEF Shapes, Shape, Fits, Acting

\* A step of a request that leaves the delivering goroutines and the wire alone.
LEMMA CallKeeps ==
  ASSUME Counting, Inv, TypeOK', UNCHANGED <<path, got, sent, srv, wire, act, quit, entry>>,
         \A r \in Reqs : pc'[r] = pc[r] \/ (pc[r] = "claimed" /\ pc'[r] = "write") \/ pc'[r] \in {"wait", "ret"}
  PROVE  Inv'
<1>1. TypeOK /\ Shapes /\ Flow /\ ClaimHeld
  BY ZenonT(60) DEF Inv
<1>2. Shapes'
  BY <1>1, ShapeSame, Zenon
<1>3. \A r \in Reqs : Answerable(r) => Answerable(r)'
  BY Zenon DEF Answerable
<1>4. \A a \in Actors : Acting(a) => act[a].on \in Reqs
  BY <1>1, ActOn, Zenon
<1>5. \A a \in Actors : Acting(a)' => act'[a].on \in Reqs
  BY <1>4, ZenonT(60) DEF Acting
<1>6. Flow'
  <2>1. \A r \in Reqs : Takes(r)
    BY Zenon DEF Takes
  <2>2. QED
    BY <1>1, <1>3, <1>4, <1>5, <2>1, QuietSame, FlowKept, ZenonT(60)
<1>7. ClaimHeld'
  BY <1>1, ZenonT(60) DEF ClaimHeld
<1>8. QED
  BY <1>2, <1>6, <1>7, Zenon DEF Inv

LEMMA ReturnType ==
  ASSUME TypeOK, NEW r \in Reqs, NEW x \in Final, Return(r, x)
  PROVE  /\ pc' \in [Reqs -> {"new", "claimed", "write", "wait", "ret"}]
         /\ res' \in [Reqs -> Final \cup {"none"}] /\ path' = path /\ ended' = ended
         /\ pc'[r] = "ret" /\ \A q \in Reqs : q # r => pc'[q] = pc[q]
  BY ZenonT(60) DEF TypeOK, Return

LEMMA CallerKeeps ==
  ASSUME Counting, Inv, NEW r \in Reqs, UNCHANGED scn,
         Register(r) \/ RecvClosed(r) \/ GiveUp(r) \/ CtxEnd(r)
  PROVE  Inv'
<1>0. TypeOK
  BY ZenonT(60) DEF Inv
<1>1. CASE Register(r)
  <2>1. TypeOK'
    BY <1>0, <1>1, Names, ZenonT(60) DEF Register, TypeOK, srvVars
  <2>2. \A q \in Reqs : pc'[q] = pc[q] \/ (pc[q] = "claimed" /\ pc'[q] = "write")
    BY <1>0, <1>1, ZenonT(60) DEF Register, TypeOK
  <2>3. QED
    BY <1>1, <2>1, <2>2, CallKeeps, ZenonT(60) DEF Register, srvVars
<1>2. CASE RecvClosed(r) \/ GiveUp(r)
  <2>1. \E x \in Final : Return(r, x)
    BY <1>2, Zenon DEF RecvClosed, GiveUp, Final
  <2>2. UNCHANGED <<got, sessVars, conn, wire, srvVars, act>>
    BY <1>2, ZenonT(60) DEF RecvClosed, GiveUp
  <2>3. /\ pc' \in [Reqs -> {"new", "claimed", "write", "wait", "ret"}]
        /\ res' \in [Reqs -> Final \cup {"none"}] /\ path' = path /\ ended' = ended
        /\ pc'[r] = "ret" /\ \A q \in Reqs : q # r => pc'[q] = pc[q]
    BY <1>0, <2>1, ReturnType, Zenon
  <2>4. TypeOK'
    BY <1>0, <2>2, <2>3, ZenonT(60) DEF TypeOK, sessVars, srvVars
  <2>5. QED
    BY <2>2, <2>3, <2>4, CallKeeps, ZenonT(60) DEF sessVars, srvVars
<1>3. CASE CtxEnd(r)
  <2>1. TypeOK'
    BY <1>0, <1>3, ZenonT(60) DEF CtxEnd, TypeOK, sessVars, srvVars
  <2>2. QED
    BY <1>3, <2>1, CallKeeps, ZenonT(60) DEF CtxEnd, sessVars, srvVars
<1>4. QED
  BY <1>1, <1>2, <1>3, Zenon

LEMMA BoundConns ==
  ASSUME TypeOK
  PROVE  Bound \subseteq Conns /\ Main \in Bound
  BY SessionAssumption, ZenonT(60) DEF TypeOK, Scenario, Bound, Conns

\* A request nobody was asked about has no frame, and nobody delivers to it.
LEMMA Unasked ==
  ASSUME Flow, TypeOK, NEW r \in Reqs, ~Answerable(r)
  PROVE  /\ NoFrame(r)
         /\ \A a \in Actors : Acting(a) /\ act[a].job \in {"frame", "attn", "retry"} => act[a].on # r
         /\ act[r].at # "timer"
<1>1. NoFrame(r)
  BY DEF Flow, OnWire, NoFrame
<1>2. \A a \in Actors : Acting(a) /\ act[a].job \in {"frame", "attn", "retry"} => act[a].on # r
  BY Zenon DEF Flow, Delivery
<1>3. act[r].at # "timer"
  BY Zenon DEF Flow, Timed, Balance
<1>4. QED
  BY <1>1, <1>2, <1>3, ZenonT(60)

LEMMA NoFrameCount ==
  ASSUME Counting, TypeOK, NEW r \in Reqs, NoFrame(r), NEW c \in Conns
  PROVE  Count(wire[c], r) = 0
<1>1. wire[c] \in Seq(Frames) /\ \A i \in DOMAIN wire[c] : wire[c][i].on # r
  BY WireFields, Zenon DEF NoFrame
<1>2. QED
  BY <1>1, CountNone, ZenonT(60)

LEMMA ClaimKeeps ==
  ASSUME Counting, Inv, NEW r \in Reqs, NEW p \in FreePaths, Claim(r, p), UNCHANGED scn
  PROVE  Inv'
<1>0. TypeOK /\ Shapes /\ Flow /\ ClaimHeld /\ p \in Conns /\ pc[r] = "new"
  BY BoundConns, ZenonT(60) DEF Inv, FreePaths, Claim
<1>1. CASE quit
  <2>1. Return(r, "error") /\ UNCHANGED <<got, sessVars, conn, wire, srvVars, act>> /\ "error" \in Final
    BY <1>1, ZenonT(60) DEF Claim, Final
  <2>2. /\ pc' \in [Reqs -> {"new", "claimed", "write", "wait", "ret"}]
        /\ res' \in [Reqs -> Final \cup {"none"}] /\ path' = path /\ ended' = ended
        /\ pc'[r] = "ret" /\ \A q \in Reqs : q # r => pc'[q] = pc[q]
    BY <1>0, <2>1, ReturnType, ZenonT(60)
  <2>3. TypeOK'
    BY <1>0, <2>1, <2>2, ZenonT(60) DEF TypeOK, sessVars, srvVars
  <2>4. QED
    BY <2>1, <2>2, <2>3, CallKeeps, ZenonT(60) DEF sessVars, srvVars
<1>2. CASE ~quit
  <2>1. /\ entry' = [entry EXCEPT ![r] = "claimed"] /\ pc' = [pc EXCEPT ![r] = "claimed"]
        /\ path' = [path EXCEPT ![r] = p]
        /\ UNCHANGED <<got, res, ended, quit, pending, cancelled, conn, wire, srv, sent, waits, act>>
    BY <1>2, ZenonT(60) DEF Claim, srvVars
  <2>2. TypeOK'
    BY <1>0, <2>1, Zenon DEF TypeOK
  <2>3. /\ pc'[r] = "claimed" /\ path'[r] = p
        /\ \A q \in Reqs : q # r => pc'[q] = pc[q] /\ path'[q] = path[q] /\ entry'[q] = entry[q]
        /\ entry'[r] = "claimed"
    BY <1>0, <2>1, ZenonT(60) DEF TypeOK
  <2>4. ~Answerable(r) /\ \A q \in Reqs : Answerable(q) => Answerable(q)' /\ q # r
    BY <1>0, <2>3, ZenonT(60) DEF Answerable
  <2>5. /\ NoFrame(r) /\ \A q \in Reqs : NoFrame(q)' <=> NoFrame(q)
        /\ \A a \in Actors : Acting(a) /\ act[a].job \in {"frame", "attn", "retry"} => act[a].on # r
    BY <1>0, <2>1, <2>4, Unasked, ZenonT(60) DEF NoFrame
  <2>6. ASSUME NEW c \in Conns PROVE OnWire(c)'
    <3>1. OnWire(c) /\ \A i \in DOMAIN wire[c] : wire[c][i].on \in Reqs \ {r}
      BY <1>0, <2>5, WireFields, ZenonT(60) DEF Flow, NoFrame
    <3>2. wire' = wire /\ srv' = srv
      BY <2>1, Zenon
    <3>3. QED
      BY <2>3, <2>4, <3>1, <3>2, ZenonT(60) DEF OnWire
  <2>7. ASSUME NEW a \in Actors PROVE Delivery(a)'
    <3>1. Delivery(a) /\ act' = act /\ srv' = srv /\ (Acting(a) => act[a].on \in Reqs)
      BY <1>0, <2>1, ActOn, ZenonT(60) DEF Flow
    <3>2. QED
      BY <2>3, <2>4, <2>5, <3>1, ZenonT(60) DEF Delivery, Reading, Acting
  <2>8. ASSUME NEW q \in Reqs PROVE Timed(q)'
    <3>1. Timed(q) /\ act' = act /\ srv' = srv
      BY <1>0, <2>1, ZenonT(60) DEF Flow
    <3>2. QED
      BY <2>5, <3>1, Zenon DEF Timed
  <2>9. ASSUME NEW q \in Reqs PROVE Balance(q)'
    <3>1. Balance(q) /\ got' = got /\ sent' = sent /\ srv' = srv /\ wire' = wire /\ act' = act
      BY <1>0, <2>1, Zenon DEF Flow
    <3>2. CASE q # r
      <4>1. path'[q] = path[q] /\ pc'[q] = pc[q]
        BY <2>3, <3>2, ZenonT(60)
      <4>2. Offered(q)' = Offered(q)
        BY <3>1, <4>1, Zenon DEF Offered, Offers, Reading, Acting
      <4>3. QED
        BY <3>1, <4>1, <4>2, ZenonT(60) DEF Balance, Answerable
    <3>3. CASE q = r
      <4>1. got[r] = 0 /\ sent[r] = 0 /\ srv[r] = "new" /\ MaxParts \in Nat
        BY <2>4, <3>1, <3>3, SessionAssumption, ZenonT(60) DEF Balance
      <4>2. Count(wire[p], r) = 0
        BY <1>0, <2>5, NoFrameCount, Zenon
      <4>3. ~Offers(r)'
        BY <1>0, <2>3, <2>5, <3>1, Names, ZenonT(60) DEF Offers, Reading, Acting
      <4>4. Offered(r)' = 0
        BY <4>3, Zenon DEF Offered
      <4>5. QED
        BY <2>3, <3>1, <3>3, <4>1, <4>2, <4>4 DEF Balance
    <3>4. QED
      BY <3>2, <3>3, ZenonT(60)
  <2>10. Flow'
    BY <2>6, <2>7, <2>8, <2>9, Zenon DEF Flow
  <2>11. Shapes' /\ ClaimHeld'
    BY <1>0, <2>1, <2>3, ShapeSame, ZenonT(60) DEF ClaimHeld
  <2>12. QED
    BY <2>2, <2>10, <2>11, ZenonT(60) DEF Inv
<1>3. QED
  BY <1>1, <1>2, Zenon

\* The server is asked about r, for the first time or after a kXR_wait.
LEMMA AskKeeps ==
  ASSUME Counting, TypeOK, Shapes, Flow, NEW r \in Reqs, NoFrame(r), srv[r] \in {"new", "told"}, Asked(r),
         UNCHANGED <<path, got, sent, wire>>, Answerable(r)', \A q \in Reqs : q # r => pc'[q] = pc[q],
         \A a \in Actors : act'[a] = act[a] \/ act'[a].at = "idle", act'[r].at # "timer"
  PROVE  Flow'
<1>1. /\ srv'[r] # "ok" /\ \A q \in Reqs : q # r => srv'[q] = srv[q]
      /\ \A q \in Reqs : NoFrame(q)' <=> NoFrame(q)
      /\ \A q \in Reqs : Answerable(q) => Answerable(q)'
  BY ZenonT(60) DEF Asked, TypeOK, NoFrame, Answerable
<1>2. ASSUME NEW c \in Conns PROVE OnWire(c)'
  <2>1. OnWire(c) /\ \A i \in DOMAIN wire[c] : wire[c][i].on \in Reqs \ {r}
    BY WireFields, Zenon DEF Flow, NoFrame
  <2>2. QED
    BY <1>1, <2>1, ZenonT(60) DEF OnWire
<1>3. ASSUME NEW a \in Actors PROVE Delivery(a)'
  <2>1. Delivery(a) /\ (Acting(a) => act[a].on \in Reqs)
    BY ActOn, Zenon DEF Flow
  <2>2. CASE act'[a].at = "idle"
    BY <2>2, Zenon DEF Delivery, Reading, Acting
  <2>3. CASE act'[a] = act[a]
    <3>1. (Reading(a)' <=> Reading(a)) /\ (Acting(a)' <=> Acting(a)) /\ (Reading(a) => Acting(a))
      BY <2>3, ZenonT(60) DEF Reading, Acting
    <3>2. Reading(a) /\ act[a].at = "select" /\ act[a].msg = "ok" => act[a].on # r
      BY <2>1, ZenonT(60) DEF Delivery
    <3>3. QED
      BY <1>1, <2>1, <2>3, <3>1, <3>2, ZenonT(60) DEF Delivery
  <2>4. QED
    BY <2>2, <2>3, Zenon
<1>4. ASSUME NEW q \in Reqs PROVE Timed(q)'
  <2>1. q \in Actors /\ Timed(q)
    BY Names, Zenon DEF Flow
  <2>2. QED
    BY <1>1, <2>1, Zenon DEF Timed
<1>5. ASSUME NEW q \in Reqs PROVE Balance(q)'
  <2>1. path[q] \in Actors /\ Balance(q)
    BY Names, Zenon DEF Flow, TypeOK
  <2>2. Offers(q)' => Offers(q)
    BY <2>1, Zenon DEF Offers, Reading, Acting
  <2>3. Offered(q)' \in Nat /\ Offered(q) \in Nat /\ Offered(q)' <= Offered(q)
    BY <2>2 DEF Offered
  <2>4. got[q] \in Nat /\ sent[q] \in Nat /\ Count(wire[path[q]], q) \in Nat
    BY CountType DEF TypeOK
  <2>5. Count(wire[path[q]], q)' = Count(wire[path[q]], q) /\ got' = got /\ sent' = sent
    BY Zenon
  <2>6. sent[q] <= MaxParts \/ srv'[q] = "ok"
    BY <1>1, <2>1, ZenonT(60) DEF Balance
  <2>7. (Answerable(q)' <=> Answerable(q)) \/ q = r
    BY Zenon DEF Answerable
  <2>8. ~Answerable(q)' => got[q] = 0 /\ sent[q] = 0 /\ srv'[q] = "new"
    BY <1>1, <2>1, <2>7, Zenon DEF Balance
  <2>9. QED
    BY <2>1, <2>3, <2>4, <2>5, <2>6, <2>8 DEF Balance
<1>6. QED
  BY <1>2, <1>3, <1>4, <1>5, ZenonT(60) DEF Flow

LEMMA WriteKeeps ==
  ASSUME Counting, Inv, NEW r \in Reqs, writeRequest(r), UNCHANGED scn
  PROVE  Inv'
<1>0. /\ TypeOK /\ Shapes /\ Flow /\ ClaimHeld /\ pc[r] = "write" /\ ~Answerable(r)
      /\ UNCHANGED <<got, sessVars, conn, wire, sent, waits, act>>
  BY Zenon DEF Inv, writeRequest, Answerable
<1>1. CASE Return(r, "error") /\ UNCHANGED srv
  <2>1. /\ pc' \in [Reqs -> {"new", "claimed", "write", "wait", "ret"}]
        /\ res' \in [Reqs -> Final \cup {"none"}] /\ path' = path /\ ended' = ended
        /\ pc'[r] = "ret" /\ \A q \in Reqs : q # r => pc'[q] = pc[q]
    BY <1>0, <1>1, ReturnType, Zenon DEF Final
  <2>2. TypeOK'
    BY <1>0, <1>1, <2>1, ZenonT(60) DEF TypeOK, sessVars
  <2>3. QED
    BY <1>0, <1>1, <2>1, <2>2, CallKeeps, Zenon DEF sessVars
<1>2. CASE Asked(r) /\ pc' = [pc EXCEPT ![r] = "wait"] /\ UNCHANGED <<path, res, ended>>
  <2>1. TypeOK'
    BY <1>0, <1>2, ZenonT(60) DEF TypeOK, sessVars, Asked
  <2>2. pc'[r] = "wait" /\ \A q \in Reqs : q # r => pc'[q] = pc[q]
    BY <1>0, <1>2, ZenonT(60) DEF TypeOK
  <2>3. NoFrame(r) /\ act[r].at # "timer" /\ srv[r] = "new" /\ act' = act
    BY <1>0, Unasked, Zenon DEF Flow, Balance
  <2>4. Flow'
    BY <1>0, <1>2, <2>2, <2>3, AskKeeps, Zenon DEF Answerable
  <2>5. Shapes' /\ ClaimHeld'
    BY <1>0, <2>2, ShapeSame, ZenonT(60) DEF ClaimHeld, sessVars
  <2>6. QED
    BY <2>1, <2>4, <2>5, Zenon DEF Inv
<1>3. QED
  BY <1>1, <1>2, ZenonT(60) DEF writeRequest

-----------------------------------------------------------------------------
(* So do the steps of the delivering goroutines. *)

\* One goroutine moves on, and delivers nothing it did not deliver before.
LEMMA ActorMoves ==
  ASSUME Counting, Inv, TypeOK', UNCHANGED <<path, sent, srv, wire>>, quit => quit', ClaimHeld',
         \A r \in Reqs : Takes(r), \A r \in Reqs : Answerable(r) => Answerable(r)',
         NEW a \in Actors, NEW l, NEW j, NEW o, NEW m, NEW t, Becomes(a, l, j, o, m, t),
         Fits(a, l, j, o, m, t, quit'), l # "timer",
         l \in {"select", "unclaim", "drain", "delete"} /\ j \in {"frame", "attn"} =>
           l # "select" /\ Reading(a) /\ o = act[a].on,
         l \in {"select", "unclaim", "drain", "delete"} /\ j = "retry" => Answerable(o)
  PROVE  Inv'
<1>1. TypeOK /\ Shapes /\ Flow
  BY ZenonT(60) DEF Inv
<1>2. Shapes'
  BY <1>1, ShapeKept, ZenonT(60)
<1>3. \A b \in Actors : Quieter(b)
  BY Zenon DEF Becomes, Quieter, Reading, Acting
<1>4. \A b \in Actors : Acting(b) => act[b].on \in Reqs
  BY <1>1, ActOn, ZenonT(60)
<1>5. \A b \in Actors : Acting(b)' => act'[b].on \in Reqs
  BY <1>2, ZenonT(60) DEF Acting, Shapes, Shape, Fits
<1>6. Flow'
  BY <1>1, <1>3, <1>4, <1>5, FlowKept, ZenonT(60)
<1>7. QED
  BY <1>2, <1>6, Zenon DEF Inv

LEMMA ActorKeeps ==
  ASSUME Counting, Inv, TypeOK', UNCHANGED <<pc, path, got, sent, srv, wire>>, quit => quit', ClaimHeld',
         NEW a \in Actors, NEW l, NEW j, NEW o, NEW m, NEW t, Becomes(a, l, j, o, m, t),
         Fits(a, l, j, o, m, t, quit'), l # "timer",
         l \in {"select", "unclaim", "drain", "delete"} /\ j \in {"frame", "attn"} =>
           l # "select" /\ Reading(a) /\ o = act[a].on,
         l \in {"select", "unclaim", "drain", "delete"} /\ j = "retry" => Answerable(o)
  PROVE  Inv'
<1>1. \A r \in Reqs : Takes(r)
  BY Zenon DEF Takes
<1>2. \A r \in Reqs : Answerable(r) => Answerable(r)'
  BY Zenon DEF Answerable
<1>3. QED
  BY <1>1, <1>2, ActorMoves, ZenonT(60)

\* Where a goroutine goes once SendData has returned.
LEMMA SentCases ==
  ASSUME Shapes, NEW a \in Actors, act[a].at = "select"
  PROVE  /\ act[a].job \in {"fail", "redir"} => Sent(a) = "next"
         /\ act[a].job \notin {"fail", "redir"} /\ act[a].msg = "sofar" => Sent(a) = "top" /\ Reading(a)
         /\ act[a].job \notin {"fail", "redir"} /\ act[a].msg # "sofar" => Sent(a) = "unclaim"
         /\ Sent(a) \in Ats
  BY ZenonT(60) DEF Shapes, Shape, Fits, Sent, Ats, Reading, Acting

LEMMA SentFits ==
  ASSUME TypeOK, Shapes, NEW a \in Actors, act[a].at = "select"
  PROVE  Fits(a, Sent(a), act[a].job, act[a].on, act[a].msg, act[a].todo, quit)
<1>1. Shape(a) /\ act[a].job \in Jobs
  BY ActFields, Zenon DEF Shapes
<1>2. CASE act[a].job \in {"fail", "redir"}
  BY <1>1, <1>2, SentCases, ZenonT(60) DEF Shape, Fits
<1>3. CASE act[a].job \notin {"fail", "redir"} /\ act[a].msg = "sofar"
  BY <1>1, <1>3, SentCases, ZenonT(60) DEF Shape, Fits
<1>4. CASE act[a].job \notin {"fail", "redir"} /\ act[a].msg # "sofar"
  BY <1>1, <1>4, SentCases, Zenon DEF Shape, Fits, Jobs
<1>5. QED
  BY <1>2, <1>3, <1>4, ZenonT(60)

LEMMA ReleasedKeeps ==
  ASSUME Counting, Inv, NEW a \in Actors, SelectReleased(a), UNCHANGED scn
  PROVE  Inv'
<1>0. /\ TypeOK /\ Shapes /\ Flow /\ ClaimHeld /\ act[a].at = "select"
      /\ UNCHANGED <<callVars, sessVars, conn, wire, srvVars>> /\ Move(a, Sent(a))
  BY Zenon DEF Inv, SelectReleased
<1>1. /\ act[a].job \in {"fail", "redir"} => Sent(a) = "next"
      /\ act[a].job \notin {"fail", "redir"} /\ act[a].msg = "sofar" => Sent(a) = "top" /\ Reading(a)
      /\ act[a].job \notin {"fail", "redir"} /\ act[a].msg # "sofar" => Sent(a) = "unclaim"
      /\ Sent(a) \in Ats
  BY <1>0, SentCases, Zenon
<1>2. Goes(a, Sent(a))
  BY <1>0, <1>1, MoveGoes, ZenonT(60)
<1>3. TypeOK' /\ ClaimHeld'
  BY <1>0, <1>2, ZenonT(60) DEF TypeOK, callVars, sessVars, srvVars, Goes, Becomes, ClaimHeld
<1>4. Fits(a, Sent(a), act[a].job, act[a].on, act[a].msg, act[a].todo, quit)
  BY <1>0, SentFits, Zenon
<1>5. act[a].job = "retry" => Answerable(act[a].on)
  BY <1>0, ZenonT(60) DEF Flow, Delivery, Acting
<1>6. Acting(a)
  BY <1>0, ZenonT(60) DEF Acting
<1>7. QED
  BY <1>0, <1>1, <1>2, <1>3, <1>4, <1>5, <1>6, ActorKeeps, ZenonT(60) DEF Goes, Reading, callVars,
     sessVars, srvVars

LEMMA UnclaimKeeps ==
  ASSUME Counting, Inv, NEW a \in Actors, Unclaim(a) \/ Drain(a), UNCHANGED scn
  PROVE  Inv'
<1> DEFINE r == act[a].on
<1>0. /\ TypeOK /\ Shapes /\ Flow /\ ClaimHeld /\ act[a].at \in {"unclaim", "drain"}
      /\ UNCHANGED <<callVars, quit, pending, cancelled, conn, wire, srvVars>>
  BY ZenonT(60) DEF Inv, Unclaim, Drain
<1>1. /\ Acting(a) /\ Shape(a) /\ r \in Reqs /\ act[a].job \in {"frame", "attn", "retry", "close"}
      /\ act[a].job = "close" => quit
  BY <1>0, ZenonT(60) DEF Shapes, Shape, Fits, Acting
<1>2. PICK l \in {"drain", "delete", "next"} :
        Move(a, l) /\ (l = "next" <=> l # "drain" /\ act[a].job = "close")
        /\ (entry' = entry \/ \E v \in {"closing", "closed"} : entry' = [entry EXCEPT ![r] = v])
  BY Zenon DEF Unclaim, Drain, Unclaimed
<1>3. Goes(a, l)
  BY <1>0, <1>2, MoveGoes, ZenonT(60) DEF Ats
<1>4. TypeOK'
  <2>1. act' \in [Actors -> Act]
    BY <1>3, Zenon DEF Goes, Becomes
  <2>2. entry' \in [Reqs -> {"free", "claimed", "closing", "closed"}]
    BY <1>0, <1>1, <1>2, ZenonT(60) DEF TypeOK
  <2>3. QED
    BY <1>0, <2>1, <2>2, ZenonT(60) DEF TypeOK, callVars, srvVars
<1>5. act[a].job # "close" => Answerable(r)
  BY <1>0, <1>1, ZenonT(60) DEF Flow, Delivery
<1>6. ClaimHeld'
  <2>1. ASSUME NEW q \in Reqs, pc[q] \in {"claimed", "write"}, ~quit PROVE entry'[q] = entry[q]
    BY <1>0, <1>1, <1>2, <1>5, <2>1, ZenonT(60) DEF Answerable, TypeOK
  <2>2. QED
    BY <1>0, <2>1, Zenon DEF ClaimHeld, callVars
<1>7. Fits(a, l, act[a].job, act[a].on, act[a].msg, act[a].todo, quit)
  BY <1>1, <1>2, ZenonT(60) DEF Shape, Fits
<1>8. QED
  BY <1>0, <1>1, <1>2, <1>3, <1>4, <1>5, <1>6, <1>7, ActorKeeps, ZenonT(60) DEF Goes, Reading,
     callVars, srvVars

LEMMA DeleteKeeps ==
  ASSUME Counting, Inv, NEW a \in Actors, Delete(a), UNCHANGED scn
  PROVE  Inv'
<1> DEFINE l == IF a \in Conns THEN "top" ELSE "idle"
<1>0. /\ TypeOK /\ ClaimHeld /\ UNCHANGED <<callVars, entry, quit, cancelled, conn, wire, srvVars>>
      /\ act' = [act EXCEPT ![a] = At(l)] /\ l \in Ats
      /\ \E c \in Conns : pending' = [pending EXCEPT ![c] = @ \ {act[a].on}]
  BY Names, ZenonT(60) DEF Inv, Delete, Ats
<1>1. Rests(a, l) /\ (l = "top" => a \in Conns) /\ l \in {"top", "idle"}
  BY <1>0, AtRests, ZenonT(60)
<1> HIDE DEF l
<1>2. TypeOK'
  <2>1. act' \in [Actors -> Act]
    BY <1>1, ZenonT(60) DEF Rests, Becomes
  <2>2. pending' \in [Conns -> SUBSET Reqs]
    BY <1>0, ZenonT(60) DEF TypeOK
  <2>3. QED
    BY <1>0, <2>1, <2>2, Zenon DEF TypeOK, callVars, srvVars
<1>3. Fits(a, l, "none", None, "none", {}, quit)
  BY <1>1, Zenon DEF Fits
<1>4. ClaimHeld'
  BY <1>0, ZenonT(60) DEF ClaimHeld, callVars
<1>5. QED
  BY <1>0, <1>1, <1>2, <1>3, <1>4, ActorKeeps, ZenonT(60) DEF Rests, callVars, srvVars

\* A goroutine stops, or goes back to the top of its loop.
LEMMA RestKeeps ==
  ASSUME Counting, Inv, NEW a \in Actors, NEW l \in {"idle", "gone", "read"}, act' = [act EXCEPT ![a] = At(l)],
         l = "read" => a \in Conns,
         UNCHANGED <<scn, callVars, entry, quit, pending, wire, srvVars>>,
         cancelled' \subseteq Conns, conn' \in [Conns -> {"up", "lost", "down"}]
  PROVE  Inv'
<1>0. TypeOK /\ ClaimHeld
  BY ZenonT(60) DEF Inv
<1>1. Rests(a, l)
  BY <1>0, AtRests, ZenonT(60) DEF Ats
<1>2. TypeOK'
  <2>1. act' \in [Actors -> Act]
    BY <1>1, ZenonT(60) DEF Rests, Becomes
  <2>2. QED
    BY <1>0, <2>1, Zenon DEF TypeOK, callVars, srvVars
<1>3. Fits(a, l, "none", None, "none", {}, quit)
  BY Zenon DEF Fits
<1>4. ClaimHeld'
  BY <1>0, Zenon DEF ClaimHeld, callVars
<1>5. QED
  BY <1>1, <1>2, <1>3, <1>4, ActorKeeps, Zenon DEF Rests, callVars, srvVars

LEMMA StopKeeps ==
  ASSUME Counting, Inv, UNCHANGED scn,
         (\E c \in Conns : ReaderTop(c)) \/ (\E r \in Reqs : WaitStop(r))
  PROVE  Inv'
<1>0. cancelled \subseteq Conns /\ conn \in [Conns -> {"up", "lost", "down"}]
  BY ZenonT(60) DEF Inv, TypeOK
<1>1. ASSUME NEW c \in Conns, ReaderTop(c) PROVE Inv'
  <2>1. c \in Actors
    BY Names, ZenonT(60)
  <2>2. PICK l \in {"gone", "read"} : act' = [act EXCEPT ![c] = At(l)]
    BY <1>1, Zenon DEF ReaderTop
  <2>3. UNCHANGED <<callVars, sessVars, conn, wire, srvVars>>
    BY <1>1, Zenon DEF ReaderTop
  <2>4. QED
    BY <1>0, <2>1, <2>2, <2>3, RestKeeps, Zenon DEF sessVars
<1>2. ASSUME NEW r \in Reqs, WaitStop(r) PROVE Inv'
  <2>1. r \in Actors
    BY Names, Zenon
  <2>2. act' = [act EXCEPT ![r] = At("idle")] /\ UNCHANGED <<callVars, sessVars, conn, wire, srvVars>>
    BY <1>2, Zenon DEF WaitStop
  <2>3. QED
    BY <1>0, <2>1, <2>2, RestKeeps, ZenonT(60) DEF sessVars
<1>3. QED
  BY <1>1, <1>2, ZenonT(60)

\* A goroutine starts on a loop over requests.
LEMMA LoopKeeps ==
  ASSUME Counting, Inv, NEW a \in Actors, NEW j \in {"fail", "redir", "close"}, NEW t \in SUBSET Reqs,
         act' = [act EXCEPT ![a] = Busy("next", j, None, "none", t)],
         j \in {"fail", "redir"} => a = Main, j = "close" => a \in {Main, User} /\ quit',
         UNCHANGED <<scn, callVars, entry, pending, wire, srvVars>>, quit' \in BOOLEAN, quit => quit',
         cancelled' \subseteq Conns, conn' \in [Conns -> {"up", "lost", "down"}]
  PROVE  Inv'
<1>0. TypeOK /\ ClaimHeld
  BY ZenonT(60) DEF Inv
<1>1. Becomes(a, "next", j, None, "none", t)
  <2>1. "next" \in Ats /\ j \in Jobs /\ "none" \in Msgs /\ None \in Reqs \cup {None}
    BY ZenonT(60) DEF Ats, Jobs, Msgs
  <2>2. QED
    BY <1>0, <2>1, BusyBecomes, Zenon
<1>2. TypeOK'
  <2>1. act' \in [Actors -> Act]
    BY <1>1, Zenon DEF Becomes
  <2>2. QED
    BY <1>0, <2>1, ZenonT(60) DEF TypeOK, callVars, srvVars
<1>3. Fits(a, "next", j, None, "none", t, quit')
  BY ZenonT(60) DEF Fits
<1>4. ClaimHeld'
  BY <1>0, ZenonT(60) DEF ClaimHeld, callVars
<1>5. QED
  BY <1>1, <1>2, <1>3, <1>4, ActorKeeps, ZenonT(60) DEF callVars, srvVars

LEMMA ErrorKeeps ==
  ASSUME Counting, Inv, NEW c \in Conns, ReadFail(c) \/ ReadTimeout(c), UNCHANGED scn
  PROVE  Inv'
<1>0. /\ TypeOK /\ c \in Actors /\ UNCHANGED <<callVars, entry, quit, pending, wire, srvVars>>
  BY Names, ZenonT(60) DEF Inv, ReadFail, ReadTimeout
<1>1. cancelled \subseteq Conns /\ conn \in [Conns -> {"up", "lost", "down"}] /\ quit \in BOOLEAN
      /\ pending[c] \in SUBSET Reqs
  BY <1>0, Zenon DEF TypeOK
<1>2. \/ act' = [act EXCEPT ![c] = At("gone")] /\ UNCHANGED <<conn, cancelled>>
      \/ handleReadError(c)
  BY Zenon DEF ReadFail, ReadTimeout
<1>3. CASE act' = [act EXCEPT ![c] = At("gone")] /\ UNCHANGED <<conn, cancelled>>
  BY <1>0, <1>1, <1>3, RestKeeps, ZenonT(60)
<1>4. CASE handleReadError(c) /\ c # Main
  <2>1. act' = [act EXCEPT ![c] = At("gone")] /\ cancelled' \subseteq Conns
        /\ conn' \in [Conns -> {"up", "lost", "down"}]
    BY <1>1, <1>4, Zenon DEF handleReadError
  <2>2. QED
    BY <1>0, <2>1, RestKeeps, ZenonT(60)
<1>5. CASE handleReadError(c) /\ c = Main
  <2> DEFINE j == IF scn.initial THEN "fail" ELSE "redir"
  <2>1. /\ act' = [act EXCEPT ![c] = Busy("next", j, None, "none", pending[c])] /\ j \in {"fail", "redir"}
        /\ UNCHANGED <<conn, cancelled>>
    BY <1>5, ZenonT(60) DEF handleReadError
  <2> HIDE DEF j
  <2>2. QED
    BY <1>0, <1>1, <1>5, <2>1, LoopKeeps, ZenonT(60)
<1>6. QED
  BY <1>2, <1>3, <1>4, <1>5, Zenon

LEMMA CloseKeeps ==
  ASSUME Counting, Inv, NEW a \in {Main, User}, Close(a), UNCHANGED scn
  PROVE  Inv'
<1> DEFINE t == IF quit THEN {} ELSE {r \in Reqs : entry[r] = "claimed"}
<1>1. /\ a \in Actors /\ t \in SUBSET Reqs /\ act' = [act EXCEPT ![a] = Busy("next", "close", None, "none", t)]
      /\ UNCHANGED <<callVars, entry, pending, wire, srvVars>> /\ quit' = TRUE /\ cancelled' = Conns
      /\ conn' = [c \in Conns |-> IF c = Main THEN conn[c] ELSE "down"]
  BY Names, ZenonT(60) DEF Close
<1> HIDE DEF t
<1>2. conn' \in [Conns -> {"up", "lost", "down"}]
  BY <1>1, ZenonT(60) DEF Inv, TypeOK
<1>3. QED
  BY <1>1, <1>2, LoopKeeps, Zenon

LEMMA LoopEndKeeps ==
  ASSUME Counting, Inv, NEW a \in Actors, LoopEnd(a), UNCHANGED scn
  PROVE  Inv'
<1>0. TypeOK /\ Shape(a) /\ act[a].at = "next" /\ act[a].job \in {"fail", "redir", "close"} /\ a \in {Main, User}
  BY ZenonT(60) DEF Inv, Shapes, Shape, Fits, LoopEnd
<1>1. CASE act[a].job = "close"
  <2>1. /\ act' = [act EXCEPT ![a] = At("gone")] /\ UNCHANGED <<callVars, sessVars, wire, srvVars>>
        /\ conn' = [conn EXCEPT ![Main] = "down"]
    BY <1>1, Zenon DEF LoopEnd
  <2>2. conn' \in [Conns -> {"up", "lost", "down"}] /\ cancelled \subseteq Conns
    BY <1>0, <2>1, ZenonT(60) DEF TypeOK
  <2>3. QED
    BY <2>1, <2>2, RestKeeps, ZenonT(60) DEF sessVars
<1>2. CASE act[a].job # "close"
  BY <1>0, <1>2, CloseKeeps, ZenonT(60) DEF LoopEnd
<1>3. QED
  BY <1>1, <1>2, Zenon

LEMMA LoopSendKeeps ==
  ASSUME Counting, Inv, NEW a \in Actors, LoopSend(a), UNCHANGED scn
  PROVE  Inv'
<1> DEFINE j == act[a].job
           m == IF j = "redir" THEN "redirect" ELSE "error"
           l == IF j = "close" THEN "unclaim" ELSE "next"
<1>0. /\ TypeOK /\ Shapes /\ ClaimHeld /\ Shape(a) /\ act[a].at = "next" /\ act[a].todo \in SUBSET Reqs
      /\ UNCHANGED <<callVars, sessVars, conn, wire, srvVars>>
  BY ActFields, ZenonT(60) DEF Inv, Shapes, LoopSend
<1>1. PICK r \in act[a].todo : SendData(a, j, r, m, act[a].todo \ {r}, l)
  BY Zenon DEF LoopSend
<1>2. /\ j \in {"fail", "redir", "close"} /\ j \in Jobs /\ m \in {"redirect", "error"} /\ m \in Msgs /\ l \in Ats
      /\ l \in {"unclaim", "next"} /\ (l = "unclaim" => j = "close")
      /\ j \in {"fail", "redir"} => a = Main
      /\ j = "close" => a \in {Main, User} /\ quit
  BY <1>0, Zenon DEF Shape, Fits, Jobs, Msgs, Final, Ats
<1> HIDE DEF j, m, l
<1> DEFINE k == IF entry[r] = "claimed" THEN "select" ELSE l
<1>3. /\ r \in Reqs /\ act[a].todo \ {r} \in SUBSET Reqs
  BY <1>0, ZenonT(60)
<1>4. Becomes(a, k, j, r, m, act[a].todo \ {r})
  BY <1>0, <1>1, <1>2, <1>3, SendBecomes, ZenonT(60)
<1>5. Fits(a, k, j, r, m, act[a].todo \ {r}, quit) /\ k # "timer"
  BY <1>2, <1>3, Zenon DEF Fits
<1> HIDE DEF k
<1>6. TypeOK' /\ ClaimHeld'
  <2>1. act' \in [Actors -> Act]
    BY <1>4, ZenonT(60) DEF Becomes
  <2>2. QED
    BY <1>0, <2>1, ZenonT(60) DEF TypeOK, ClaimHeld, callVars, sessVars, srvVars
<1>7. QED
  BY <1>0, <1>2, <1>4, <1>5, <1>6, ActorKeeps, ZenonT(60) DEF callVars, sessVars, srvVars

LEMMA WaitRetryKeeps ==
  ASSUME Counting, Inv, NEW r \in Reqs, WaitRetry(r), UNCHANGED scn
  PROVE  Inv'
<1>0. /\ TypeOK /\ Shapes /\ Flow /\ ClaimHeld /\ act[r].at = "timer" /\ r \in Actors
      /\ UNCHANGED <<callVars, sessVars, conn, wire, sent, waits>>
  BY Names, ZenonT(60) DEF Inv, WaitRetry
<1>1. srv[r] = "told" /\ NoFrame(r) /\ Answerable(r)
  BY <1>0, ZenonT(60) DEF Flow, Timed, Balance
<1>2. CASE Asked(r) /\ act' = [act EXCEPT ![r] = At("idle")]
  <2>1. Rests(r, "idle")
    BY <1>0, <1>2, AtRests, ZenonT(60) DEF Ats
  <2>2. TypeOK'
    <3>1. act' \in [Actors -> Act]
      BY <2>1, Zenon DEF Rests, Becomes
    <3>2. srv' \in [Reqs -> Final \cup {"new", "asked", "told"}]
      BY <1>0, <1>2, ZenonT(60) DEF Asked, TypeOK
    <3>3. QED
      BY <1>0, <3>1, <3>2, ZenonT(60) DEF TypeOK, callVars, sessVars
  <2>3. Fits(r, "idle", "none", None, "none", {}, quit')
    BY ZenonT(60) DEF Fits
  <2>4. Shapes' /\ ClaimHeld'
    BY <1>0, <2>1, <2>3, ShapeKept, ZenonT(60) DEF Rests, ClaimHeld, callVars, sessVars
  <2>5. Answerable(r)' /\ \A q \in Reqs : q # r => pc'[q] = pc[q]
    BY <1>0, <1>1, ZenonT(60) DEF Answerable, callVars
  <2>6. (\A a \in Actors : act'[a] = act[a] \/ act'[a].at = "idle") /\ act'[r].at # "timer"
    BY <2>1, ZenonT(60) DEF Rests, Becomes
  <2>7. Flow'
    BY <1>0, <1>1, <1>2, <2>5, <2>6, AskKeeps, ZenonT(60) DEF callVars
  <2>8. QED
    BY <2>2, <2>4, <2>7, Zenon DEF Inv
<1>3. CASE SendData(r, "retry", r, "error", {}, "unclaim") /\ UNCHANGED srv
  <2> DEFINE k == IF entry[r] = "claimed" THEN "select" ELSE "unclaim"
  <2>1. "retry" \in Jobs /\ "error" \in Msgs /\ "unclaim" \in Ats /\ {} \in SUBSET Reqs
    BY ZenonT(60) DEF Jobs, Msgs, Final, Ats
  <2>2. Becomes(r, k, "retry", r, "error", {})
    BY <1>0, <1>3, <2>1, SendBecomes, ZenonT(60)
  <2>3. Fits(r, k, "retry", r, "error", {}, quit) /\ k # "timer"
    BY ZenonT(60) DEF Fits
  <2> HIDE DEF k
  <2>4. TypeOK' /\ ClaimHeld'
    <3>1. act' \in [Actors -> Act]
      BY <2>2, Zenon DEF Becomes
    <3>2. QED
      BY <1>0, <1>3, <3>1, ZenonT(60) DEF TypeOK, ClaimHeld, callVars, sessVars
  <2>5. QED
    BY <1>0, <1>1, <1>3, <2>2, <2>3, <2>4, ActorKeeps, ZenonT(60) DEF callVars, sessVars
<1>4. QED
  BY <1>2, <1>3, Zenon DEF WaitRetry

LEMMA SelectSendKeeps ==
  ASSUME Counting, Inv, NEW a \in Actors, SelectSend(a), UNCHANGED scn
  PROVE  Inv'
<1> DEFINE m == act[a].msg
<1>a. PICK r \in Reqs : r = act[a].on
  BY ActOn, ZenonT(60) DEF Inv, SelectSend, Acting
<1>0. /\ TypeOK /\ Shapes /\ Flow /\ ClaimHeld /\ act[a].at = "select" /\ pc[r] = "wait" /\ Receive(r, m)
      /\ UNCHANGED <<sessVars, conn, wire, srvVars>> /\ Move(a, Sent(a))
  BY <1>a, Zenon DEF Inv, SelectSend
<1>1. /\ act[a].job \in {"fail", "redir"} => Sent(a) = "next"
      /\ act[a].job \notin {"fail", "redir"} /\ act[a].msg = "sofar" => Sent(a) = "top" /\ Reading(a)
      /\ act[a].job \notin {"fail", "redir"} /\ act[a].msg # "sofar" => Sent(a) = "unclaim"
      /\ Sent(a) \in Ats
  BY <1>0, SentCases, ZenonT(60)
<1>2. Goes(a, Sent(a))
  BY <1>0, <1>1, MoveGoes, ZenonT(60)
<1>3. /\ r \in Reqs /\ Acting(a) /\ (m \in {"sofar", "ok"} => Reading(a) /\ path[r] = a)
      /\ act[a].job = "retry" => Answerable(r)
  BY <1>a, <1>0, ZenonT(60) DEF Shapes, Shape, Fits, Acting, Reading, Flow, Delivery
<1>4. Fits(a, Sent(a), act[a].job, act[a].on, act[a].msg, act[a].todo, quit)
  BY <1>0, SentFits, ZenonT(60)
<1>5. ASSUME Return(r, "error") \/ (m \in {"error", "redirect"} /\ Return(r, m)), UNCHANGED got
      PROVE  Inv'
  <2>1. /\ pc' \in [Reqs -> {"new", "claimed", "write", "wait", "ret"}]
        /\ res' \in [Reqs -> Final \cup {"none"}] /\ path' = path /\ ended' = ended
        /\ pc'[r] = "ret" /\ \A q \in Reqs : q # r => pc'[q] = pc[q]
    BY <1>0, <1>3, <1>5, ReturnType, ZenonT(60) DEF Final
  <2>2. TypeOK'
    <3>1. act' \in [Actors -> Act]
      BY <1>2, Zenon DEF Goes, Becomes
    <3>2. QED
      BY <1>0, <1>5, <2>1, <3>1, ZenonT(60) DEF TypeOK, sessVars, srvVars
  <2>3. ClaimHeld'
    BY <1>0, <2>1, ZenonT(60) DEF ClaimHeld, sessVars
  <2>4. (\A q \in Reqs : Takes(q)) /\ \A q \in Reqs : Answerable(q) => Answerable(q)'
    BY <1>5, <2>1, ZenonT(60) DEF Takes, Answerable
  <2>5. QED
    BY <1>a, <1>0, <1>1, <1>2, <1>3, <1>4, <2>1, <2>2, <2>3, <2>4, ActorMoves, ZenonT(60) DEF Goes,
       Reading, sessVars, srvVars
<1>6. ASSUME m \in {"sofar", "ok"}, got' = [got EXCEPT ![r] = @ + 1], UNCHANGED <<pc, path, res, ended>>
      PROVE  Inv'
  <2>1. Offers(r) /\ Offered(r) = 1 /\ Balance(r)
    BY <1>a, <1>0, <1>3, <1>6, ZenonT(60) DEF Offers, Offered, Flow
  <2>2. got[r] \in Nat /\ sent[r] \in 0 .. MaxParts + 1 /\ Count(wire[path[r]], r) \in Nat /\ MaxParts \in Nat
    BY <1>0, <1>3, CountType, SessionAssumption DEF TypeOK
  <2>3. got[r] + 1 \in 0 .. MaxParts + 1
    BY <2>1, <2>2 DEF Balance
  <2>4. TypeOK'
    <3>1. act' \in [Actors -> Act]
      BY <1>2, Zenon DEF Goes, Becomes
    <3>2. got' \in [Reqs -> 0 .. MaxParts + 1]
      BY <1>0, <1>6, <2>3, Zenon DEF TypeOK
    <3>3. QED
      BY <1>0, <1>6, <3>1, <3>2, Zenon DEF TypeOK, sessVars, srvVars
  <2>5. act'[a].at # "select"
    BY <1>1, <1>2, Zenon DEF Goes, Becomes
  <2>6. ~Offers(r)' /\ Answerable(r)
    BY <1>0, <1>3, <1>6, <2>5, ZenonT(60) DEF Offers, Answerable
  <2>7. \A q \in Reqs : Takes(q)
    BY <1>0, <1>3, <1>6, <2>1, <2>6, ZenonT(60) DEF Takes, TypeOK
  <2>8. ClaimHeld' /\ \A q \in Reqs : Answerable(q) => Answerable(q)'
    BY <1>0, <1>6, ZenonT(60) DEF ClaimHeld, Answerable, sessVars
  <2>9. QED
    BY <1>a, <1>0, <1>1, <1>2, <1>3, <1>4, <1>6, <2>4, <2>7, <2>8, ActorMoves, ZenonT(60) DEF Goes,
       Reading, sessVars, srvVars
<1>7. QED
  BY <1>0, <1>5, <1>6, ZenonT(60) DEF Receive

\* The connection is lost.
LEMMA LoseKeeps ==
  ASSUME Counting, Inv, NEW c \in Conns, Lose(c), UNCHANGED scn
  PROVE  Inv'
<1>0. /\ TypeOK /\ Shapes /\ Flow /\ ClaimHeld /\ UNCHANGED <<callVars, sessVars, srvVars, act>>
      /\ conn' = [conn EXCEPT ![c] = "lost"]
  BY ZenonT(60) DEF Inv, Lose
<1>1. \A d \in Conns : wire'[d] = wire[d] \/ wire'[d] = <<>>
  BY <1>0, ZenonT(60) DEF Lose, TypeOK
<1>2. TypeOK'
  <2>1. wire' \in [Conns -> Seq(Frames)]
    <3>1. wire \in [Conns -> Seq(Frames)] /\ <<>> \in Seq(Frames)
      BY <1>0 DEF TypeOK
    <3>2. wire' = wire \/ wire' = [wire EXCEPT ![c] = <<>>]
      BY ZenonT(60) DEF Lose
    <3>3. QED
      BY <3>1, <3>2, Zenon
  <2>2. conn' \in [Conns -> {"up", "lost", "down"}]
    BY <1>0, ZenonT(60) DEF TypeOK
  <2>3. QED
    BY <1>0, <2>1, <2>2, ZenonT(60) DEF TypeOK, callVars, sessVars, srvVars
<1>3. Shapes' /\ ClaimHeld'
  BY <1>0, ShapeSame, Zenon DEF ClaimHeld, callVars, sessVars
<1>4. UNCHANGED <<pc, path, got, sent, srv, act>>
  BY <1>0, ZenonT(60) DEF callVars, srvVars
<1>5. \A r \in Reqs : NoFrame(r) => NoFrame(r)'
  BY <1>1 DEF NoFrame
<1>6. ASSUME NEW d \in Conns PROVE OnWire(d)'
  <2>1. OnWire(d)
    BY <1>0, ZenonT(60) DEF Flow
  <2>2. QED
    BY <1>1, <1>4, <2>1 DEF OnWire, Answerable
<1>7. ASSUME NEW a \in Actors PROVE Delivery(a)'
  <2>1. Delivery(a) /\ (Acting(a) => act[a].on \in Reqs)
    BY <1>0, ActOn, Zenon DEF Flow
  <2>2. QED
    BY <1>4, <1>5, <2>1, Zenon DEF Delivery, Reading, Acting, Answerable
<1>8. ASSUME NEW r \in Reqs PROVE Timed(r)'
  <2>1. Timed(r)
    BY <1>0, Zenon DEF Flow
  <2>2. QED
    BY <1>4, <1>5, <2>1, ZenonT(60) DEF Timed
<1>9. ASSUME NEW r \in Reqs PROVE Balance(r)'
  <2>1. Balance(r) /\ path[r] \in Conns /\ got[r] \in Nat /\ sent[r] \in Nat
    BY <1>0 DEF Flow, TypeOK
  <2>2. Offered(r)' = Offered(r) /\ Offered(r) \in Nat
    BY <1>4, Zenon DEF Offered, Offers, Reading, Acting
  <2>3. Count(<<>>, r) = 0 /\ Count(wire[path[r]], r) \in Nat
    <3>1. <<>> \in Seq(Frames) /\ \A i \in DOMAIN <<>> : <<>>[i].on # r
      OBVIOUS
    <3>2. wire[path[r]] \in Seq(Frames)
      BY <1>0, <2>1, Zenon DEF TypeOK
    <3>3. QED
      BY <3>1, <3>2, CountNone, CountType, ZenonT(60)
  <2>4. Count(wire'[path[r]], r) \in Nat /\ Count(wire'[path[r]], r) <= Count(wire[path[r]], r)
    BY <1>1, <2>1, <2>3
  <2>5. QED
    BY <1>4, <2>1, <2>2, <2>3, <2>4 DEF Balance, Answerable
<1>10. Flow'
  BY <1>6, <1>7, <1>8, <1>9, Zenon DEF Flow
<1>11. QED
  BY <1>2, <1>3, <1>10, Zenon DEF Inv

\* What the server's frame to r adds to the connections.
LEMMA AnswerAdds ==
  ASSUME Counting, TypeOK, NEW r \in Reqs, NEW k \in AllKinds, NEW async \in BOOLEAN, Answer(r, k, async)
  PROVE  \A q \in Reqs : /\ q # r /\ NoFrame(q) => NoFrame(q)'
                         /\ Count(wire'[path[q]], q) =
                              Count(wire[path[q]], q) + (IF q = r /\ k \in {"sofar", "ok"} THEN 1 ELSE 0)
                         /\ Count(wire[path[q]], q) \in Nat
<1> DEFINE f == [on |-> r, kind |-> k, async |-> async]
<1>a. PICK p \in Conns : p = path[r]
  BY Zenon DEF TypeOK
<1>1. f \in Frames /\ f.on = r /\ f.kind = k
  BY ZenonT(60) DEF Frames
<1>2. wire' = [wire EXCEPT ![p] = Append(@, f)] /\ wire \in [Conns -> Seq(Frames)]
  BY <1>a, ZenonT(60) DEF Answer, TypeOK
<1> HIDE DEF f
<1>3. /\ wire'[p] = Append(wire[p], f) /\ wire[p] \in Seq(Frames)
      /\ \A d \in Conns : d # p => wire'[d] = wire[d]
  BY <1>2, Zenon
<1>4. \A q \in Reqs : q # r /\ NoFrame(q) => NoFrame(q)'
  <2> SUFFICES ASSUME NEW q \in Reqs, q # r, NoFrame(q), NEW d \in Conns, NEW i \in DOMAIN wire'[d]
               PROVE  wire'[d][i].on # q
    BY ZenonT(60) DEF NoFrame
  <2>1. CASE d # p
    BY <1>3, <2>1, ZenonT(60) DEF NoFrame
  <2>2. CASE d = p
    <3>1. (i \in DOMAIN wire[p] /\ wire'[p][i] = wire[p][i]) \/ wire'[p][i] = f
      BY <1>1, <1>3, <2>2, AppendFacts
    <3>2. QED
      BY <1>1, <2>2, <3>1, Zenon DEF NoFrame
  <2>3. QED
    BY <2>1, <2>2, ZenonT(60)
<1>5. ASSUME NEW q \in Reqs
      PROVE  /\ Count(wire'[path[q]], q) =
                  Count(wire[path[q]], q) + (IF q = r /\ k \in {"sofar", "ok"} THEN 1 ELSE 0)
             /\ Count(wire[path[q]], q) \in Nat
  <2>1. path[q] \in Conns /\ wire[path[q]] \in Seq(Frames)
    BY <1>2, Zenon DEF TypeOK
  <2>2. Count(wire[path[q]], q) \in Nat
    BY <2>1, CountType, ZenonT(60)
  <2>3. CASE path[q] # p
    BY <1>a, <1>3, <2>1, <2>2, <2>3
  <2>4. CASE path[q] = p
    <3>1. Count(wire'[p], q) = Count(wire[p], q) + (IF IsPart(f, q) THEN 1 ELSE 0)
      BY <1>1, <1>3, CountAppend
    <3>2. IsPart(f, q) <=> q = r /\ k \in {"sofar", "ok"}
      BY <1>1, Zenon DEF IsPart
    <3>3. QED
      BY <2>2, <2>4, <3>1, <3>2, ZenonT(60)
  <2>5. QED
    BY <2>3, <2>4, Zenon
<1>6. QED
  BY <1>4, <1>5, ZenonT(60)

\* The server sends a frame.
LEMMA AnswerKeeps ==
  ASSUME Counting, Inv, NEW r \in Reqs, NEW k \in AllKinds, NEW async \in BOOLEAN, Answer(r, k, async), UNCHANGED scn
  PROVE  Inv'
<1> DEFINE f == [on |-> r, kind |-> k, async |-> async]
<1>a. PICK p \in Conns : p = path[r]
  BY Zenon DEF Inv, TypeOK
<1>0. /\ TypeOK /\ Shapes /\ Flow /\ ClaimHeld /\ srv[r] = "asked" /\ (k = "sofar" => sent[r] < MaxParts)
      /\ (k = "wait" => waits[r] < MaxWaits /\ ~async)
      /\ UNCHANGED <<callVars, sessVars, conn, act>>
      /\ srv' = [srv EXCEPT ![r] = CASE k = "sofar" -> @ [] k = "wait" -> "told" [] OTHER -> k]
      /\ sent' = [sent EXCEPT ![r] = IF k \in {"sofar", "ok"} THEN @ + 1 ELSE @]
      /\ waits' = [waits EXCEPT ![r] = IF k = "wait" THEN @ + 1 ELSE @]
      /\ wire' = [wire EXCEPT ![p] = Append(@, f)]
  BY <1>a, ZenonT(60) DEF Inv, Answer
<1>1. f \in Frames /\ f.on = r /\ f.kind = k /\ f.async = async
  BY Zenon DEF Frames
<1> HIDE DEF f
<1>2. /\ Answerable(r) /\ sent[r] <= MaxParts /\ sent[r] \in Nat /\ MaxParts \in Nat /\ MaxWaits \in Nat
      /\ waits[r] \in 0 .. MaxWaits /\ got[r] \in Nat
  BY <1>0, SessionAssumption DEF Flow, Balance, TypeOK
<1>3. /\ srv'[r] = (CASE k = "sofar" -> "asked" [] k = "wait" -> "told" [] OTHER -> k)
      /\ \A q \in Reqs : q # r => srv'[q] = srv[q] /\ sent'[q] = sent[q]
      /\ sent'[r] = IF k \in {"sofar", "ok"} THEN sent[r] + 1 ELSE sent[r]
  BY <1>0, ZenonT(60) DEF TypeOK
<1>4. /\ wire'[p] = Append(wire[p], f) /\ wire[p] \in Seq(Frames) /\ wire'[p] \in Seq(Frames)
      /\ \A d \in Conns : d # p => wire'[d] = wire[d]
  BY <1>0, <1>1 DEF TypeOK
<1>5. TypeOK'
  <2>1. wire' \in [Conns -> Seq(Frames)]
    BY <1>0, <1>1 DEF TypeOK
  <2>2. srv' \in [Reqs -> Final \cup {"new", "asked", "told"}]
    BY <1>0, Zenon DEF TypeOK, AllKinds
  <2>3. sent' \in [Reqs -> 0 .. MaxParts + 1]
    BY <1>0, <1>2 DEF TypeOK
  <2>4. waits' \in [Reqs -> 0 .. MaxWaits]
    BY <1>0, <1>2 DEF TypeOK
  <2>5. QED
    BY <1>0, <2>1, <2>2, <2>3, <2>4, ZenonT(60) DEF TypeOK, callVars, sessVars
<1>6. Shapes' /\ ClaimHeld' /\ UNCHANGED <<pc, path, got, act>>
  BY <1>0, ShapeSame, Zenon DEF ClaimHeld, callVars, sessVars
<1>7. \A q \in Reqs : q # r /\ NoFrame(q) => NoFrame(q)'
  BY <1>0, AnswerAdds, Zenon
<1>8. ASSUME NEW d \in Conns PROVE OnWire(d)'
  <2>1. OnWire(d) /\ \A i \in DOMAIN wire[d] : wire[d][i].on \in Reqs /\ wire[d][i].kind \in AllKinds
    BY <1>0, WireFields, Zenon DEF Flow
  <2>2. \A i \in DOMAIN wire[d] : wire[d][i].on = r => d = p /\ wire[d][i].kind = "sofar"
    BY <1>a, <1>0, <2>1, ZenonT(60) DEF OnWire, AllKinds, Final
  <2>3. CASE d # p
    <3>1. wire'[d] = wire[d] /\ path' = path /\ pc' = pc
      BY <1>4, <1>6, <2>3, ZenonT(60)
    <3>2. QED
      BY <1>3, <2>1, <2>2, <2>3, <3>1 DEF OnWire, Answerable
  <2>4. CASE d = p
    <3> DEFINE n == Len(wire[p]) + 1
    <3>1. /\ DOMAIN wire'[p] = 1 .. n /\ n \in Nat /\ wire'[p][n] = f /\ DOMAIN wire[p] = 1 .. (n - 1)
          /\ \A i \in 1 .. (n - 1) : wire'[p][i] = wire[p][i]
      BY <1>1, <1>4, AppendFacts
    <3> HIDE DEF n
    <3>2. ASSUME NEW i \in DOMAIN wire'[p]
          PROVE  /\ path[wire'[p][i].on] = p /\ Answerable(wire'[p][i].on)
                 /\ wire'[p][i].kind = "wait" => srv'[wire'[p][i].on] = "told" /\ ~wire'[p][i].async
                 /\ wire'[p][i].kind \in Final => srv'[wire'[p][i].on] = wire'[p][i].kind
      <4>1. CASE i = n
        BY <1>a, <1>0, <1>1, <1>2, <1>3, <3>1, <4>1, ZenonT(60) DEF Final
      <4>2. CASE i # n
        <5>1. i \in DOMAIN wire[p] /\ wire'[p][i] = wire[p][i]
          BY <3>1, <4>2
        <5>2. QED
          BY <1>3, <2>1, <2>2, <2>4, <5>1 DEF OnWire, Final
      <4>3. QED
        BY <4>1, <4>2, ZenonT(60)
    <3>3. ASSUME NEW i \in DOMAIN wire'[p], NEW j \in DOMAIN wire'[p], i < j, wire'[p][i].on = wire'[p][j].on
          PROVE  wire'[p][i].kind = "sofar"
      <4>1. i \in 1 .. (n - 1) /\ wire'[p][i] = wire[p][i]
        BY <3>1, <3>3
      <4>2. CASE j = n
        BY <1>1, <2>2, <2>4, <3>1, <3>3, <4>1, <4>2, ZenonT(60)
      <4>3. CASE j # n
        <5>1. j \in 1 .. (n - 1) /\ wire'[p][j] = wire[p][j]
          BY <3>1, <4>3
        <5>2. QED
          BY <2>1, <2>4, <3>1, <3>3, <4>1, <5>1, ZenonT(60) DEF OnWire
      <4>4. QED
        BY <4>2, <4>3, Zenon
    <3>4. path' = path /\ pc' = pc
      BY <1>6, Zenon
    <3>5. QED
      BY <2>4, <3>2, <3>3, <3>4, ZenonT(60) DEF OnWire, Answerable
  <2>5. QED
    BY <2>3, <2>4, Zenon
<1>9. ASSUME NEW a \in Actors PROVE Delivery(a)'
  <2>1. Delivery(a) /\ (Acting(a) => act[a].on \in Reqs)
    BY <1>0, ActOn, ZenonT(60) DEF Flow
  <2>2. Reading(a) /\ act[a].at = "select" /\ act[a].msg = "ok" => act[a].on # r
    BY <1>0, <2>1, Zenon DEF Delivery
  <2>3. QED
    BY <1>3, <1>6, <1>7, <2>1, <2>2, ZenonT(60) DEF Delivery, Reading, Acting, Answerable
<1>10. ASSUME NEW q \in Reqs PROVE Timed(q)'
  <2>1. Timed(q)
    BY <1>0, Zenon DEF Flow
  <2>2. QED
    BY <1>0, <1>3, <1>6, <1>7, <2>1, ZenonT(60) DEF Timed
<1>11. ASSUME NEW q \in Reqs PROVE Balance(q)'
  <2>1. Balance(q) /\ path[q] \in Conns /\ wire[path[q]] \in Seq(Frames) /\ got[q] \in Nat /\ sent[q] \in Nat
    BY <1>0 DEF Flow, TypeOK
  <2>2. Offered(q)' = Offered(q) /\ Offered(q) \in Nat
    BY <1>6, Zenon DEF Offered, Offers, Reading, Acting
  <2>3. /\ Count(wire[path[q]], q) \in Nat
        /\ Count(wire'[path[q]], q) = Count(wire[path[q]], q) + (IF q = r /\ k \in {"sofar", "ok"} THEN 1 ELSE 0)
    BY <1>0, AnswerAdds, ZenonT(60)
  <2>4. CASE q # r
    BY <1>3, <1>6, <2>1, <2>2, <2>3, <2>4 DEF Balance, Answerable
  <2>5. CASE q = r
    <3>1. got[r] + Count(wire'[path[r]], r) + Offered(r) <= sent'[r]
      BY <1>2, <1>3, <2>1, <2>2, <2>3, <2>5 DEF Balance
    <3>2. sent'[r] <= MaxParts \/ srv'[r] = "ok"
      BY <1>0, <1>2, <1>3
    <3>3. QED
      BY <1>2, <1>6, <2>2, <2>5, <3>1, <3>2, Zenon DEF Balance, Answerable
  <2>6. QED
    BY <2>4, <2>5, Zenon
<1>12. Flow'
  BY <1>8, <1>9, <1>10, <1>11, ZenonT(60) DEF Flow
<1>13. QED
  BY <1>5, <1>6, <1>12, Zenon DEF Inv

\* What consuming the frame f to request r leaves the reader of c doing: it rests,
\* having left r to its timer, or it has the response to deliver.
LEMMA DispatchDoes ==
  ASSUME Inv, NEW c \in Conns, Dispatch(c), NEW f \in Frames, f = Head(wire[c]), NEW r \in Reqs, r = f.on,
         f.kind = "wait" => ~f.async
  PROVE  /\ act' \in [Actors -> Act] /\ Shapes' /\ r # c
         /\ \A b \in Actors : b # c /\ b # r => act'[b] = act[b]
         /\ act'[r] = act[r] \/ (f.kind = "wait" /\ act'[r].at = "timer")
         /\ Acting(c)' => Reading(c)' /\ act'[c].on = r
         /\ Reading(c)' /\ act'[c].at = "select" => act'[c].msg \in {f.kind, "error"}
         /\ act'[c].at = "select" => entry[r] = "claimed"
         /\ act'[c].at \in {"top", "select"} \/ (act'[c].at = "unclaim" /\ entry[r] # "claimed")
         /\ entry[r] = "claimed" /\ f.kind # "wait" => act'[c].at = "select" /\ act'[c].msg = f.kind /\ Reading(c)'
<1>0. /\ TypeOK /\ Shapes /\ act \in [Actors -> Act] /\ quit' = quit /\ r # c /\ r \in Actors /\ c \in Actors
      /\ f.kind \in AllKinds /\ act[c].at = "read"
  <2>1. TypeOK /\ Shapes /\ act \in [Actors -> Act] /\ quit' = quit /\ act[c].at = "read"
    BY ZenonT(60) DEF Inv, Dispatch, sessVars, TypeOK
  <2>2. r # c /\ r \in Actors /\ c \in Actors
    BY Names, ZenonT(60)
  <2>3. f.kind \in AllKinds
    BY Zenon DEF Frames
  <2>4. QED
    BY <2>1, <2>2, <2>3, ZenonT(60)
<1>1. ASSUME NEW l \in {"top", "select", "unclaim"}, NEW j \in {"frame", "attn"}, NEW m \in {f.kind, "error"},
             Becomes(c, l, j, r, m, {}), m # "wait", l = "select" <=> entry[r] = "claimed", f.kind # "wait" => m = f.kind
      PROVE  /\ act' \in [Actors -> Act] /\ Shapes'
             /\ \A b \in Actors : b # c => act'[b] = act[b]
             /\ Acting(c)' => Reading(c)' /\ act'[c].on = r
             /\ Reading(c)' /\ act'[c].at = "select" => act'[c].msg \in {f.kind, "error"}
             /\ act'[c].at = "select" => entry[r] = "claimed"
             /\ act'[c].at \in {"top", "select"} \/ (act'[c].at = "unclaim" /\ entry[r] # "claimed")
             /\ entry[r] = "claimed" /\ f.kind # "wait" => act'[c].at = "select" /\ act'[c].msg = f.kind /\ Reading(c)'
  <2>1. Fits(c, l, j, r, m, {}, quit')
    BY <1>0, <1>1, Names, ZenonT(60) DEF Fits, AllKinds, Final
  <2>2. Shapes'
    BY <1>0, <1>1, <2>1, ShapeKept, ZenonT(60)
  <2>3. QED
    BY <1>1, <2>2, Zenon DEF Becomes, Acting, Reading
<1>2. ASSUME NEW j \in {"frame", "attn"}, NEW m \in {f.kind, "error"}, NEW l \in {"top", "unclaim"},
             SendData(c, j, r, m, {}, l), m # "wait"
      PROVE  \E k \in {"top", "select", "unclaim"} :
               Becomes(c, k, j, r, m, {}) /\ (k = "select" <=> entry[r] = "claimed")
  <2>1. m \in Msgs /\ j \in Jobs /\ l \in Ats
    <3>1. m \in Msgs
      BY <1>0, <1>2, Zenon DEF Msgs, AllKinds, Final
    <3>2. QED
      BY <3>1, ZenonT(60) DEF Jobs, Ats
  <2>2. QED
    BY <1>0, <1>2, <2>1, SendBecomes, ZenonT(60)
<1>3. CASE f.kind = "wait" /\ r \in pending[c]
  <2>1. act' = [act EXCEPT ![c] = At("top"), ![r] = At("timer")]
    BY <1>3, ZenonT(60) DEF Dispatch
  <2>2. /\ At("top") \in Act /\ At("timer") \in Act /\ At("timer").at = "timer"
        /\ At("top").at = "top" /\ At("top").job = "none" /\ At("top").on = None
        /\ At("top").msg = "none" /\ At("top").todo = {}
        /\ At("timer").job = "none" /\ At("timer").on = None
        /\ At("timer").msg = "none" /\ At("timer").todo = {}
    BY Zenon DEF At, Busy, Act
  <2>3. /\ act'[c] = At("top") /\ act'[r] = At("timer") /\ act' \in [Actors -> Act]
        /\ \A b \in Actors : b # c /\ b # r => act'[b] = act[b]
    BY <1>0, <2>1, <2>2, ZenonT(60)
  <2>4. Shapes'
    <3> SUFFICES ASSUME NEW b \in Actors PROVE Shape(b)'
      BY Zenon DEF Shapes
    <3>1. CASE b = c \/ b = r
      BY <2>2, <2>3, <3>1, ZenonT(60) DEF Shape, Fits
    <3>2. CASE b # c /\ b # r
      <4>1. Shape(b) /\ act'[b] = act[b]
        BY <1>0, <2>3, <3>2, ZenonT(60) DEF Shapes
      <4>2. QED
        BY <1>0, <4>1, ZenonT(60) DEF Shape
    <3>3. QED
      BY <3>1, <3>2, ZenonT(60)
  <2>5. QED
    BY <1>0, <1>3, <2>2, <2>3, <2>4, ZenonT(60) DEF Acting, Reading
<1>4. CASE f.kind = "wait" /\ r \notin pending[c]
  <2>1. SendData(c, "frame", r, "error", {}, "top")
    BY <1>4, ZenonT(60) DEF Dispatch
  <2>2. QED
    BY <1>0, <1>1, <1>2, <1>4, <2>1, ZenonT(60)
<1>5. CASE f.kind # "wait" /\ ~f.async
  <2>1. SendData(c, "frame", r, f.kind, {}, "top")
    BY <1>5, Zenon DEF Dispatch
  <2>2. QED
    BY <1>0, <1>1, <1>2, <1>5, <2>1, ZenonT(60)
<1>6. CASE f.kind # "wait" /\ f.async
  <2>1. SendData(c, "attn", r, f.kind, {}, IF f.kind = "sofar" THEN "top" ELSE "unclaim")
    BY <1>6, ZenonT(60) DEF Dispatch
  <2>2. QED
    BY <1>0, <1>1, <1>2, <1>6, <2>1, ZenonT(60)
<1>7. QED
  BY <1>3, <1>4, <1>5, <1>6, Zenon

\* The response a reader takes up answers a request, and only a synchronous one is kXR_wait.
LEMMA HeadAnswers ==
  ASSUME Inv, NEW c \in Conns, Dispatch(c)
  PROVE  \E f \in Frames, r \in Reqs : f = Head(wire[c]) /\ r = f.on /\ (f.kind = "wait" => ~f.async)
<1>1. wire[c] \in Seq(Frames) /\ wire[c] # <<>>
  BY ZenonT(60) DEF Inv, TypeOK, Dispatch
<1>2. PICK f \in Frames : f = Head(wire[c]) /\ f = wire[c][1] /\ 1 \in DOMAIN wire[c]
  BY <1>1, TailFacts, Zenon
<1>3. f.on \in Reqs
  BY Zenon DEF Frames
<1>4. f.kind = "wait" => ~f.async
  BY <1>2 DEF Inv, Flow, OnWire
<1>5. QED
  BY <1>2, <1>3, <1>4, Zenon

LEMMA DispatchMoves ==
  ASSUME Inv, NEW c \in Conns, Dispatch(c)
  PROVE  /\ Shapes' /\ act'[c].at \in {"top", "select", "unclaim"} /\ (Acting(c)' => Reading(c)')
         /\ \E r \in Reqs : /\ act'[r] = act[r] \/ act'[r].at = "timer"
                           /\ \A b \in Actors : b # c /\ b # r => act'[b] = act[b]
<1>1. PICK f \in Frames, r \in Reqs : f = Head(wire[c]) /\ r = f.on /\ (f.kind = "wait" => ~f.async)
  BY HeadAnswers, Zenon
<1>2. /\ Shapes' /\ act'[c].at \in {"top", "select", "unclaim"} /\ (Acting(c)' => Reading(c)')
      /\ act'[r] = act[r] \/ act'[r].at = "timer"
      /\ \A b \in Actors : b # c /\ b # r => act'[b] = act[b]
  BY <1>1, DispatchDoes
<1>3. QED
  BY <1>2, Zenon

\* What consuming a frame takes off the connections.
LEMMA DispatchTakes ==
  ASSUME Counting, TypeOK, NEW c \in Conns, Dispatch(c), NEW f, f = Head(wire[c])
  PROVE  \A q \in Reqs : /\ NoFrame(q) => NoFrame(q)'
                         /\ path[q] # c => wire'[path[q]] = wire[path[q]]
                         /\ Count(wire[c], q) = Count(wire'[c], q) + (IF IsPart(f, q) THEN 1 ELSE 0)
                         /\ Count(wire[c], q) \in Nat /\ Count(wire'[c], q) \in Nat
<1>1. wire' = [wire EXCEPT ![c] = Tail(@)] /\ wire[c] # <<>> /\ wire \in [Conns -> Seq(Frames)]
  BY ZenonT(60) DEF Dispatch, TypeOK
<1>2. wire'[c] = Tail(wire[c]) /\ wire[c] \in Seq(Frames) /\ (\A d \in Conns : d # c => wire'[d] = wire[d])
  BY <1>1, ZenonT(60)
<1>3. Tail(wire[c]) \in Seq(Frames)
  BY <1>1, <1>2, TailFacts, ZenonT(60)
<1>4. \A i \in DOMAIN wire'[c] : i + 1 \in DOMAIN wire[c] /\ wire'[c][i] = wire[c][i + 1]
  <2>1. /\ DOMAIN wire[c] = 1 .. Len(wire[c]) /\ Len(wire[c]) \in Nat
        /\ DOMAIN wire'[c] = 1 .. (Len(wire[c]) - 1)
        /\ \A i \in 1 .. (Len(wire[c]) - 1) : wire'[c][i] = wire[c][i + 1]
    BY <1>1, <1>2, TailFacts, ZenonT(60)
  <2>2. \A i \in 1 .. (Len(wire[c]) - 1) : i + 1 \in 1 .. Len(wire[c])
    BY <2>1
  <2>3. QED
    BY <2>1, <2>2, ZenonT(60)
<1>5. \A q \in Reqs : NoFrame(q) => NoFrame(q)'
  <2> SUFFICES ASSUME NEW q \in Reqs, NoFrame(q), NEW d \in Conns, NEW i \in DOMAIN wire'[d]
               PROVE  wire'[d][i].on # q
    BY Zenon DEF NoFrame
  <2>1. CASE d # c
    BY <1>2, <2>1, ZenonT(60) DEF NoFrame
  <2>2. CASE d = c
    BY <1>4, <2>2, ZenonT(60) DEF NoFrame
  <2>3. QED
    BY <2>1, <2>2, ZenonT(60)
<1>6. ASSUME NEW q \in Reqs
      PROVE  /\ Count(wire[c], q) = Count(wire'[c], q) + (IF IsPart(f, q) THEN 1 ELSE 0)
             /\ Count(wire[c], q) \in Nat /\ Count(wire'[c], q) \in Nat
  BY <1>1, <1>2, <1>3, CountTail, CountType, ZenonT(60)
<1>7. \A q \in Reqs : path[q] # c => wire'[path[q]] = wire[path[q]]
  BY <1>2, Zenon DEF TypeOK
<1>8. QED
  BY <1>5, <1>6, <1>7, Zenon

\* The reader consumes a frame.
LEMMA DispatchKeeps ==
  ASSUME Counting, Inv, NEW c \in Conns, Dispatch(c), UNCHANGED scn
  PROVE  Inv'
<1>0. /\ TypeOK /\ Shapes /\ Flow /\ ClaimHeld /\ act[c].at = "read" /\ c \in Actors
      /\ UNCHANGED <<callVars, sessVars, conn, srvVars>>
      /\ wire' = [wire EXCEPT ![c] = Tail(@)] /\ wire[c] # <<>> /\ wire \in [Conns -> Seq(Frames)]
  BY Names, Zenon DEF Inv, Dispatch, TypeOK
<1>1. wire[c] \in Seq(Frames)
  BY <1>0, ZenonT(60)
<1>2. PICK n \in Nat :
         /\ DOMAIN wire[c] = 1 .. (n + 1) /\ Head(wire[c]) = wire[c][1] /\ wire[c][1] \in Frames
         /\ Tail(wire[c]) \in Seq(Frames) /\ DOMAIN Tail(wire[c]) = 1 .. n
         /\ \A i \in 1 .. n : Tail(wire[c])[i] = wire[c][i + 1]
  <2>1. Len(wire[c]) - 1 \in Nat /\ Len(wire[c]) = Len(wire[c]) - 1 + 1
    BY <1>0, <1>1, TailFacts
  <2>2. QED
    BY <1>0, <1>1, <2>1, TailFacts, ZenonT(60)
<1>3. PICK f \in Frames : f = wire[c][1]
  BY <1>2, ZenonT(60)
<1>4. PICK r \in Reqs : r = f.on
  BY Zenon DEF Frames
<1>5. /\ OnWire(c) /\ path[r] = c /\ Answerable(r) /\ (f.kind = "wait" => srv[r] = "told" /\ ~f.async)
      /\ (f.kind \in Final => srv[r] = f.kind) /\ f.kind \in AllKinds
  <2>1. OnWire(c) /\ 1 \in DOMAIN wire[c] /\ f.kind \in AllKinds
    BY <1>0, <1>2 DEF Flow, Frames
  <2>2. QED
    BY <1>3, <1>4, <2>1, ZenonT(60) DEF OnWire
<1>6. /\ act' \in [Actors -> Act] /\ Shapes' /\ r # c
      /\ \A b \in Actors : b # c /\ b # r => act'[b] = act[b]
      /\ act'[r] = act[r] \/ (f.kind = "wait" /\ act'[r].at = "timer")
      /\ Acting(c)' => Reading(c)' /\ act'[c].on = r
      /\ Reading(c)' /\ act'[c].at = "select" => act'[c].msg \in {f.kind, "error"}
  BY <1>2, <1>3, <1>4, <1>5, DispatchDoes
<1>7. wire'[c] = Tail(wire[c]) /\ (\A d \in Conns : d # c => wire'[d] = wire[d])
  BY <1>0, Zenon
<1>s. /\ DOMAIN wire'[c] = 1 .. n /\ DOMAIN wire[c] = 1 .. (n + 1)
      /\ \A i \in 1 .. n : wire'[c][i] = wire[c][i + 1]
  BY <1>2, <1>7, ZenonT(60)
<1>i. /\ DOMAIN wire'[c] = 1 .. n /\ 1 \in DOMAIN wire[c]
      /\ \A i \in 1 .. n : i + 1 \in DOMAIN wire[c] /\ 1 < i + 1 /\ wire'[c][i] = wire[c][i + 1]
      /\ \A i, j \in 1 .. n : i < j => i + 1 < j + 1
  <2>1. \A i \in 1 .. n : i + 1 \in 1 .. (n + 1) /\ 1 < i + 1
    OBVIOUS
  <2>2. 1 \in 1 .. (n + 1) /\ \A i, j \in 1 .. n : i < j => i + 1 < j + 1
    OBVIOUS
  <2>3. QED
    BY <1>s, <2>1, <2>2, Zenon
<1>8. UNCHANGED <<pc, path, got, srv, sent>> /\ ClaimHeld'
  BY <1>0, ZenonT(60) DEF callVars, sessVars, srvVars, ClaimHeld
<1>9. TypeOK'
  <2>1. wire' \in [Conns -> Seq(Frames)]
    BY <1>0, <1>2, Zenon
  <2>2. QED
    BY <1>0, <1>6, <2>1, ZenonT(60) DEF TypeOK, callVars, sessVars, srvVars
<1>10. \A q \in Reqs : NoFrame(q) => NoFrame(q)'
  BY <1>0, <1>2, DispatchTakes, ZenonT(60)
<1>11. ASSUME f.kind # "sofar" PROVE NoFrame(r)'
  <2> SUFFICES ASSUME NEW d \in Conns, NEW i \in DOMAIN wire'[d], wire'[d][i].on = r
               PROVE  FALSE
    BY Zenon DEF NoFrame
  <2>1. CASE d # c
    BY <1>0, <1>5, <1>7, <2>1, ZenonT(60) DEF Flow, OnWire
  <2>2. CASE d = c
    <3>1. i \in 1 .. n /\ i + 1 \in DOMAIN wire[c] /\ wire'[c][i] = wire[c][i + 1] /\ 1 \in DOMAIN wire[c] /\ 1 < i + 1
      BY <1>i, <2>2, Zenon
    <3>2. QED
      BY <1>3, <1>4, <1>5, <1>11, <2>2, <3>1, ZenonT(60) DEF OnWire
  <2>3. QED
    BY <2>1, <2>2, Zenon
<1>12. ASSUME NEW d \in Conns PROVE OnWire(d)'
  <2>1. OnWire(d) /\ UNCHANGED <<path, pc, srv>>
    BY <1>0, <1>8, ZenonT(60) DEF Flow
  <2>2. CASE d # c
    <3>1. wire'[d] = wire[d]
      BY <1>7, <2>2, ZenonT(60)
    <3>2. QED
      BY <2>1, <3>1 DEF OnWire, Answerable
  <2>3. CASE d = c
    <3>1. ASSUME NEW i \in DOMAIN wire'[c]
          PROVE  /\ path[wire'[c][i].on] = c /\ Answerable(wire'[c][i].on)
                 /\ wire'[c][i].kind = "wait" => srv[wire'[c][i].on] = "told" /\ ~wire'[c][i].async
                 /\ wire'[c][i].kind \in Final => srv[wire'[c][i].on] = wire'[c][i].kind
      BY <1>5, <1>i, <3>1 DEF OnWire
    <3>2. ASSUME NEW i \in DOMAIN wire'[c], NEW j \in DOMAIN wire'[c], i < j, wire'[c][i].on = wire'[c][j].on
          PROVE  wire'[c][i].kind = "sofar"
      BY <1>5, <1>i, <3>2 DEF OnWire
    <3>3. QED
      BY <2>1, <2>3, <3>1, <3>2, ZenonT(60) DEF OnWire, Answerable
  <2>4. QED
    BY <2>2, <2>3, Zenon
<1>13. ASSUME NEW a \in Actors PROVE Delivery(a)'
  <2>1. Delivery(a) /\ (Acting(a) => act[a].on \in Reqs)
    BY <1>0, ActOn, Zenon DEF Flow
  <2>2. CASE a = c
    <3>1. Reading(c)' /\ act'[c].at = "select" /\ act'[c].msg = "ok" => f.kind = "ok"
      BY <1>6, ZenonT(60)
    <3>2. f.kind = "ok" => srv[r] = "ok" /\ NoFrame(r)'
      BY <1>5, <1>11, ZenonT(60) DEF Final
    <3>3. Acting(c)' => Reading(c)' /\ act'[c].on = r
      BY <1>6, Zenon
    <3>4. QED
      BY <1>5, <1>8, <2>2, <3>1, <3>2, <3>3, Zenon DEF Delivery, Answerable, Reading
  <2>3. CASE a # c /\ act'[a] = act[a]
    BY <1>8, <1>10, <2>1, <2>3, Zenon DEF Delivery, Reading, Acting, Answerable
  <2>4. CASE a = r /\ act'[r].at = "timer"
    BY <2>4, ZenonT(60) DEF Delivery, Reading, Acting
  <2>5. QED
    BY <1>6, <2>2, <2>3, <2>4, ZenonT(60)
<1>14. ASSUME NEW q \in Reqs PROVE Timed(q)'
  <2>1. Timed(q) /\ q # c /\ q \in Actors
    BY <1>0, Names, ZenonT(60) DEF Flow
  <2>2. CASE act'[q] = act[q]
    BY <1>8, <1>10, <2>1, <2>2, ZenonT(60) DEF Timed
  <2>3. CASE q = r /\ f.kind = "wait"
    BY <1>5, <1>8, <1>11, <2>3, Zenon DEF Timed
  <2>4. QED
    BY <1>6, <2>1, <2>2, <2>3, Zenon
<1>15. ASSUME NEW q \in Reqs PROVE Balance(q)'
  <2>1. Balance(q) /\ path[q] \in Conns /\ wire[path[q]] \in Seq(Frames) /\ got[q] \in Nat /\ sent[q] \in Nat
    BY <1>0, SessionAssumption DEF Flow, TypeOK
  <2>2. Offered(q) \in {0, 1} /\ Offered(q)' \in {0, 1}
    BY Zenon DEF Offered
  <2>3. CASE path[q] # c
    <3>1. path[q] # r /\ path[q] \in Actors
      BY <2>1, Names, ZenonT(60)
    <3>2. act'[path[q]] = act[path[q]] /\ wire'[path[q]] = wire[path[q]]
      BY <1>6, <1>7, <2>1, <2>3, <3>1, ZenonT(60)
    <3>3. Offered(q)' = Offered(q)
      BY <1>8, <3>2, ZenonT(60) DEF Offered, Offers, Reading, Acting
    <3>4. QED
      BY <1>8, <2>1, <3>2, <3>3, Zenon DEF Balance, Answerable
  <2>4. CASE path[q] = c
    <3>1. Count(wire[c], q) = Count(wire'[c], q) + (IF IsPart(f, q) THEN 1 ELSE 0)
      BY <1>0, <1>2, <1>3, DispatchTakes, ZenonT(60)
    <3>2. Count(wire[c], q) \in Nat /\ Count(wire'[c], q) \in Nat
      BY <1>0, <1>2, <1>3, DispatchTakes, ZenonT(60)
    <3>3. Offered(q) = 0
      BY <1>0, <2>4, Zenon DEF Offered, Offers, Reading, Acting
    <3>4. Offers(q)' => IsPart(f, q)
      BY <1>4, <1>6, <1>8, <2>4, ZenonT(60) DEF Offers, IsPart, Reading
    <3>5. got[q] + Count(wire'[c], q) + Offered(q)' <= sent[q]
      BY <2>1, <2>2, <2>4, <3>1, <3>2, <3>3, <3>4 DEF Balance, Offered
    <3>6. QED
      BY <1>8, <2>1, <2>4, <3>5, Zenon DEF Balance, Answerable
  <2>5. QED
    BY <2>3, <2>4, Zenon
<1>16. Flow'
  BY <1>12, <1>13, <1>14, <1>15, ZenonT(60) DEF Flow
<1>17. QED
  BY <1>6, <1>8, <1>9, <1>16, ZenonT(60) DEF Inv

LEMMA InitInv ==
  ASSUME Counting, Init PROVE Inv
<1>1. scn \in Scenario /\ Bound \subseteq Conns
  BY SessionAssumption, ZenonT(60) DEF Init, Bound, Scenario, Conns
<1>2. \A l \in {"top", "gone", "idle"} :
        /\ At(l) \in Act /\ At(l).at = l /\ At(l).job = "none" /\ At(l).on = None
        /\ At(l).msg = "none" /\ At(l).todo = {}
  BY ZenonT(60) DEF At, Busy, Act
<1>3. ASSUME NEW a \in Actors
      PROVE  \E l \in {"top", "gone", "idle"} : act[a] = At(l) /\ (l = "top" => a \in Conns)
  BY <1>1, Names, ZenonT(60) DEF Init
<1>4. act \in [Actors -> Act]
  BY <1>2, <1>3, ZenonT(60) DEF Init
<1>5. TypeOK
  <2>1. path \in [Reqs -> Conns] /\ wire \in [Conns -> Seq(Frames)] /\ pending \in [Conns -> SUBSET Reqs]
    BY Names DEF Init
  <2>2. got \in [Reqs -> 0 .. MaxParts + 1] /\ sent \in [Reqs -> 0 .. MaxParts + 1] /\ waits \in [Reqs -> 0 .. MaxWaits]
    BY SessionAssumption DEF Init
  <2>3. conn \in [Conns -> {"up", "lost", "down"}] /\ srv \in [Reqs -> Final \cup {"new", "asked", "told"}]
    BY Zenon DEF Init
  <2>4. QED
    BY <1>4, <2>1, <2>2, <2>3, ZenonT(60) DEF Init, TypeOK
<1>6. Shapes
  BY <1>2, <1>3, ZenonT(60) DEF Shapes, Shape, Fits
<1>7. ClaimHeld
  BY Zenon DEF Init, ClaimHeld
<1>8. ASSUME NEW a \in Actors PROVE Delivery(a) /\ ~Acting(a) /\ act[a].at # "timer"
  BY <1>2, <1>3, ZenonT(60) DEF Delivery, Acting, Reading
<1>9. ASSUME NEW c \in Conns PROVE OnWire(c) /\ DOMAIN wire[c] = {} /\ wire[c] = <<>>
  BY DEF Init, OnWire
<1>10. ASSUME NEW r \in Reqs PROVE Timed(r) /\ Balance(r)
  <2>1. path[r] = Main /\ got[r] = 0 /\ sent[r] = 0 /\ srv[r] = "new" /\ MaxParts \in Nat
    BY SessionAssumption, Zenon DEF Init
  <2>2. ~Offers(r) /\ act[r].at # "timer"
    BY <1>8, <2>1, Names, Zenon DEF Offers, Reading
  <2>3. Count(wire[Main], r) = 0
    <3>1. wire[Main] = <<>>
      BY <1>9, Names, Zenon
    <3>2. <<>> \in Seq(Frames) /\ DOMAIN <<>> = {}
      OBVIOUS
    <3>3. QED
      BY <3>1, <3>2, CountNone, Zenon
  <2>4. QED
    BY <2>1, <2>2, <2>3 DEF Balance, Timed, Offered
<1>11. QED
  BY <1>5, <1>6, <1>7, <1>8, <1>9, <1>10, ZenonT(60) DEF Inv, Flow

LEMMA InvStep ==
  ASSUME Counting, Inv, [Next]_vars PROVE Inv'
<1>1. ASSUME UNCHANGED vars PROVE Inv'
  BY <1>1, CallKeeps, ZenonT(60) DEF Inv, TypeOK, vars, stepVars, callVars, sessVars, srvVars
<1> SUFFICES ASSUME Step, UNCHANGED scn PROVE Inv'
  BY <1>1, Zenon DEF Next
<1>2. ASSUME NEW r \in Reqs, NEW p \in FreePaths, Claim(r, p) PROVE Inv'
  BY <1>2, ClaimKeeps, ZenonT(60)
<1>3. ASSUME NEW r \in Reqs, CallerStep(r) \/ CtxEnd(r) PROVE Inv'
  BY <1>3, CallerKeeps, WriteKeeps, ZenonT(60) DEF CallerStep
<1>4. ASSUME NEW r \in Reqs, WaitStep(r) PROVE Inv'
  BY <1>4, StopKeeps, WaitRetryKeeps, Zenon DEF WaitStep
<1>5. ASSUME NEW r \in Reqs, ServerStep(r) PROVE Inv'
  <2>1. scn \in Scenario
    BY SessionAssumption, ZenonT(60) DEF Inv, TypeOK
  <2>2. scn.kinds \subseteq AllKinds /\ scn.wrapped \subseteq BOOLEAN
    BY <2>1, ZenonT(60) DEF Scenario
  <2>3. PICK k \in scn.kinds : \E async \in scn.wrapped : Answer(r, k, async)
    BY <1>5, Zenon DEF ServerStep
  <2>4. PICK async \in scn.wrapped : Answer(r, k, async)
    BY <2>3, ZenonT(60)
  <2>5. QED
    BY <2>2, <2>4, AnswerKeeps, ZenonT(60)
<1>6. ASSUME NEW a \in Actors, ActorStep(a) PROVE Inv'
  BY <1>6, SelectSendKeeps, ReleasedKeeps, UnclaimKeeps, DeleteKeeps, LoopSendKeeps, LoopEndKeeps,
     ZenonT(60) DEF ActorStep
<1>7. ASSUME NEW c \in Conns, ReaderStep(c) \/ ReadTimeout(c) PROVE Inv'
  BY <1>7, StopKeeps, DispatchKeeps, ErrorKeeps, Zenon DEF ReaderStep
<1>8. ASSUME NEW c \in Conns, Lose(c) PROVE Inv'
  BY <1>8, LoseKeeps, ZenonT(60)
<1>9. ASSUME UserClose PROVE Inv'
  BY <1>9, CloseKeeps, Zenon DEF UserClose
<1>10. QED
  BY <1>2, <1>3, <1>4, <1>5, <1>6, <1>7, <1>8, <1>9, ZenonT(60) DEF Step

LEMMA Invariant ==
  ASSUME Counting
  PROVE  Spec => []Inv
<1>1. Init => Inv
  BY InitInv, ZenonT(60)
<1>2. Inv /\ [Next]_vars => Inv'
  BY InvStep, Zenon
<1>3. QED
  BY <1>1, <1>2, PTL DEF Spec

=============================================================================
