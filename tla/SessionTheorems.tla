--------------------------- MODULE SessionTheorems ---------------------------
(***************************************************************************)
(* What a session promises, from the invariant of SessionProofs: how it    *)
(* closes, what a success holds and when a silent connection is kept.      *)
(***************************************************************************)
EXTENDS SessionProofs

-----------------------------------------------------------------------------
(* Closing: once the mux is closed, the streams still claimed are on the   *)
(* list of a Close.                                                        *)

Releases(a, r) ==
  /\ act[a].job = "close"
  /\ r \in act[a].todo \/ (act[a].on = r /\ act[a].at \in {"select", "unclaim"})

Returned == act[Main].at = "gone" => quit \/ ended \cap scn.opener # {}
Listed == quit => \A r \in Reqs : entry[r] = "claimed" => Releases(Main, r) \/ Releases(User, r)
QuitInv == (quit <=> Main \in cancelled) /\ Returned /\ Listed

LEMMA QuitKept ==
  ASSUME QuitInv, UNCHANGED <<scn, quit>>, Main \in cancelled' <=> Main \in cancelled, ended \subseteq ended',
         act'[Main].at = "gone" => act[Main].at = "gone" \/ quit \/ ended \cap scn.opener # {},
         quit => \A r \in Reqs : entry'[r] = "claimed" => entry[r] = "claimed",
         \A a \in {Main, User}, r \in Reqs : Releases(a, r) /\ entry'[r] = "claimed" => Releases(a, r)'
  PROVE  QuitInv'
<1>1. Returned'
  BY ZenonT(60) DEF QuitInv, Returned
<1>2. Listed'
  BY ZenonT(60) DEF QuitInv, Listed
<1>3. QED
  BY <1>1, <1>2, ZenonT(60) DEF QuitInv

LEMMA QuitSame ==
  ASSUME QuitInv, UNCHANGED <<scn, quit, act>>, Main \in cancelled' <=> Main \in cancelled, ended \subseteq ended',
         quit => \A r \in Reqs : entry'[r] = "claimed" => entry[r] = "claimed"
  PROVE  QuitInv'
  BY QuitKept, Zenon DEF Releases

\* A goroutine that was not closing moves.
LEMMA QuitOther ==
  ASSUME QuitInv, UNCHANGED <<scn, quit, ended, entry>>, Main \in cancelled' <=> Main \in cancelled,
         NEW a, act[a].job # "close", \A b \in {Main, User} : b # a => act'[b] = act[b],
         a = Main /\ act'[a].at = "gone" => quit \/ ended \cap scn.opener # {}
  PROVE  QuitInv'
<1>1. \A b \in {Main, User}, r \in Reqs : Releases(b, r) => Releases(b, r)'
  BY ZenonT(60) DEF Releases
<1>2. act'[Main].at = "gone" => act[Main].at = "gone" \/ quit \/ ended \cap scn.opener # {}
  BY Zenon
<1>3. QED
  BY <1>1, <1>2, QuitKept, ZenonT(60)

\* A goroutine changes its place without forgetting what it is doing.
LEMMA QuitMove ==
  ASSUME TypeOK, QuitInv, UNCHANGED <<scn, quit, ended, cancelled>>, NEW a \in Actors, NEW l \in Ats, Move(a, l),
         l # "gone", NEW r \in Reqs, act[a].at \in {"select", "unclaim"} => r = act[a].on,
         \A q \in Reqs : entry'[q] = "claimed" => entry[q] = "claimed",
         act[a].job = "close" /\ act[a].at \in {"select", "unclaim"} /\ entry'[r] = "claimed" => l \in {"select", "unclaim"}
  PROVE  QuitInv'
<1>1. Goes(a, l)
  BY MoveGoes, ZenonT(60)
<1>2. /\ \A b \in Actors : b # a => act'[b] = act[b]
      /\ act'[a].at = l /\ act'[a].job = act[a].job /\ act'[a].on = act[a].on /\ act'[a].todo = act[a].todo
  BY <1>1, Zenon DEF Goes, Becomes
<1>3. \A b \in {Main, User}, q \in Reqs : Releases(b, q) /\ entry'[q] = "claimed" => Releases(b, q)'
  <2> SUFFICES ASSUME NEW b \in {Main, User}, NEW q \in Reqs, Releases(b, q), entry'[q] = "claimed"
               PROVE  Releases(b, q)'
    BY ZenonT(60)
  <2>1. CASE b # a
    BY <1>2, <2>1, Names, ZenonT(60) DEF Releases
  <2>2. CASE b = a
    BY <1>2, <2>2, ZenonT(60) DEF Releases
  <2>3. QED
    BY <2>1, <2>2, Zenon
<1>4. QED
  BY <1>2, <1>3, Names, QuitKept, ZenonT(60)

LEMMA QuitActor ==
  ASSUME Inv, QuitInv, UNCHANGED scn, NEW a \in Actors,
         SelectSend(a) \/ SelectReleased(a) \/ Unclaim(a) \/ Drain(a) \/ Delete(a)
  PROVE  QuitInv'
<1>0. /\ TypeOK /\ Shapes /\ Shape(a) /\ UNCHANGED <<scn, quit, ended, cancelled>> /\ (Acting(a) => act[a].on \in Reqs)
  BY ActOn, ZenonT(60) DEF Inv, Shapes, SelectSend, SelectReleased, Unclaim, Drain, Delete,
     Receive, Return, callVars, sessVars
<1>1. PICK r \in Reqs : r = act[a].on
  BY <1>0, ZenonT(60) DEF Acting, SelectSend, SelectReleased, Unclaim, Drain, Delete
<1>2. CASE SelectSend(a) \/ SelectReleased(a)
  <2>1. Move(a, Sent(a)) /\ act[a].at = "select" /\ entry' = entry
    BY <1>2, ZenonT(60) DEF SelectSend, SelectReleased, sessVars
  <2>2. Sent(a) \in Ats /\ Sent(a) # "gone" /\ (act[a].job = "close" => Sent(a) = "unclaim")
    BY <1>0, <2>1, SentCases, ZenonT(60) DEF Shape, Fits, Sent
  <2>3. QED
    BY <1>0, <1>1, <2>1, <2>2, QuitMove, Zenon
<1>3. CASE Unclaim(a) \/ Drain(a)
  <2>1. PICK l \in {"drain", "next", "delete"} : Move(a, l)
    BY <1>3, ZenonT(60) DEF Unclaim, Drain, Unclaimed
  <2>2. /\ \A q \in Reqs : entry'[q] = "claimed" => entry[q] = "claimed"
        /\ act[a].at \in {"select", "unclaim"} => entry'[r] # "claimed"
    BY <1>0, <1>1, <1>3 DEF Unclaim, Drain, TypeOK
  <2>3. l \in Ats /\ l # "gone"
    BY Zenon DEF Ats
  <2>4. QED
    BY <1>0, <1>1, <2>1, <2>2, <2>3, QuitMove, Zenon
<1>4. CASE Delete(a)
  <2>1. act[a].job # "close" /\ entry' = entry /\ cancelled' = cancelled
    BY <1>0, <1>4, ZenonT(60) DEF Delete, Shape, Fits
  <2>2. act' = [act EXCEPT ![a] = At(IF a \in Conns THEN "top" ELSE "idle")] /\ act \in [Actors -> Act]
    BY <1>0, <1>4, ZenonT(60) DEF Delete, TypeOK
  <2>3. act'[a].at # "gone" /\ \A b \in Actors : b # a => act'[b] = act[b]
    BY <2>2, Zenon DEF At, Busy
  <2>4. QED
    BY <1>0, <2>1, <2>3, Names, QuitOther, ZenonT(60)
<1>5. QED
  BY <1>2, <1>3, <1>4, ZenonT(60)

LEMMA QuitClose ==
  ASSUME Inv, QuitInv, UNCHANGED scn, NEW a \in {Main, User}, act[a].job # "close", Close(a)
  PROVE  QuitInv'
<1> DEFINE t == IF quit THEN {} ELSE {r \in Reqs : entry[r] = "claimed"}
<1>1. /\ quit' /\ cancelled' = Conns /\ act' = [act EXCEPT ![a] = Busy("next", "close", None, "none", t)]
      /\ entry' = entry /\ act \in [Actors -> Act] /\ a \in Actors
  BY Names, ZenonT(60) DEF Close, Inv, TypeOK
<1>2. act'[a].job = "close" /\ act'[a].todo = t /\ \A b \in Actors : b # a => act'[b] = act[b]
  BY <1>1, ZenonT(60) DEF Busy
<1>3. Listed'
  <2> SUFFICES ASSUME NEW r \in Reqs, entry[r] = "claimed"
               PROVE  Releases(Main, r)' \/ Releases(User, r)'
    BY <1>1, ZenonT(60) DEF Listed
  <2>1. CASE quit
    <3>1. PICK b \in {Main, User} : Releases(b, r)
      BY <2>1, Zenon DEF QuitInv, Listed
    <3>2. b # a /\ act'[b] = act[b]
      BY <1>2, <3>1, Names, ZenonT(60) DEF Releases
    <3>3. QED
      BY <3>1, <3>2, ZenonT(60) DEF Releases
  <2>2. CASE ~quit
    BY <1>2, <2>2, ZenonT(60) DEF Releases
  <2>3. QED
    BY <2>1, <2>2, Zenon
<1>4. QED
  BY <1>1, <1>3, Names, ZenonT(60) DEF QuitInv, Returned

LEMMA QuitLoop ==
  ASSUME Inv, QuitInv, UNCHANGED scn, NEW a \in Actors, LoopSend(a) \/ LoopEnd(a)
  PROVE  QuitInv'
<1>0. /\ TypeOK /\ Shape(a) /\ act[a].at = "next" /\ act[a].job \in {"fail", "redir", "close"} /\ a \in {Main, User}
      /\ act[a].todo \in SUBSET Reqs
  BY ActFields, ZenonT(60) DEF Inv, Shapes, Shape, Fits, LoopSend, LoopEnd
<1>1. CASE LoopEnd(a) /\ act[a].job # "close"
  BY <1>0, <1>1, QuitClose, ZenonT(60) DEF LoopEnd
<1>2. CASE LoopEnd(a) /\ act[a].job = "close"
  <2>1. /\ quit /\ act[a].todo = {} /\ act' = [act EXCEPT ![a] = At("gone")]
        /\ UNCHANGED <<callVars, sessVars>> /\ act \in [Actors -> Act]
    BY <1>0, <1>2, ZenonT(60) DEF LoopEnd, Shape, Fits, TypeOK
  <2>2. \A b \in Actors : b # a => act'[b] = act[b]
    BY <2>1, ZenonT(60)
  <2>3. \A b \in {Main, User}, r \in Reqs : Releases(b, r) => Releases(b, r)'
    BY <1>0, <2>1, <2>2, Names, ZenonT(60) DEF Releases
  <2>4. QED
    BY <2>1, <2>3, QuitKept, ZenonT(60) DEF callVars, sessVars
<1>3. CASE LoopSend(a)
  <2> DEFINE j == act[a].job
             m == IF j = "redir" THEN "redirect" ELSE "error"
             l == IF j = "close" THEN "unclaim" ELSE "next"
  <2>1. PICK r \in act[a].todo : SendData(a, j, r, m, act[a].todo \ {r}, l)
    BY <1>3, Zenon DEF LoopSend
  <2>2. j \in Jobs /\ m \in Msgs /\ l \in Ats /\ r \in Reqs /\ act[a].todo \ {r} \in SUBSET Reqs
    BY <1>0, ZenonT(60) DEF Jobs, Msgs, Ats, Final
  <2>3. PICK k \in {"select", "next", "unclaim"} :
           Becomes(a, k, j, r, m, act[a].todo \ {r}) /\ (j = "close" => k # "next")
    BY <1>0, <2>1, <2>2, SendBecomes, ZenonT(60)
  <2>4. /\ act'[a].at = k /\ act'[a].job = j /\ act'[a].on = r /\ act'[a].todo = act[a].todo \ {r}
        /\ \A b \in Actors : b # a => act'[b] = act[b]
    BY <2>3, ZenonT(60) DEF Becomes
  <2>5. UNCHANGED <<callVars, sessVars>>
    BY <1>3, ZenonT(60) DEF LoopSend
  <2>6. \A b \in {Main, User}, q \in Reqs : Releases(b, q) => Releases(b, q)'
    <3> SUFFICES ASSUME NEW b \in {Main, User}, NEW q \in Reqs, Releases(b, q) PROVE Releases(b, q)'
      BY ZenonT(60)
    <3>1. CASE b # a
      BY <2>4, <3>1, Names, ZenonT(60) DEF Releases
    <3>2. CASE b = a
      BY <1>0, <2>3, <2>4, <3>2, Zenon DEF Releases
    <3>3. QED
      BY <3>1, <3>2, ZenonT(60)
  <2>7. act'[Main].at = "gone" => act[Main].at = "gone"
    BY <2>4, Names, ZenonT(60)
  <2>8. QED
    BY <2>5, <2>6, <2>7, QuitKept, ZenonT(60) DEF callVars, sessVars
<1>4. QED
  BY <1>1, <1>2, <1>3, ZenonT(60)

LEMMA QuitReader ==
  ASSUME Inv, QuitInv, UNCHANGED scn, NEW c \in Conns, ReaderStep(c) \/ ReadTimeout(c)
  PROVE  QuitInv'
<1>0. /\ TypeOK /\ Shape(c) /\ act[c].at \in {"top", "read"} /\ c \in Actors
      /\ UNCHANGED <<quit, ended, entry>> /\ act \in [Actors -> Act]
  BY Names, Zenon DEF Inv, TypeOK, Shapes, ReaderStep, ReadTimeout, ReaderTop, Dispatch, ReadFail,
     callVars, sessVars
<1>1. act[c].job # "close"
  BY <1>0, ZenonT(60) DEF Shape, Fits
<1>2. Main \in cancelled' <=> Main \in cancelled
  BY Zenon DEF ReaderStep, ReadTimeout, ReaderTop, Dispatch, ReadFail, handleReadError, sessVars
<1>3. \A b \in {Main, User} : b # c => act'[b] = act[b]
  <2>1. CASE Dispatch(c)
    <3>1. PICK f \in Frames : f = Head(wire[c])
      BY <1>0, <2>1, TailFacts, ZenonT(60) DEF Dispatch, TypeOK
    <3>2. f.on \in Reqs
      BY ZenonT(60) DEF Frames
    <3>3. f.on # Main /\ f.on # User /\ User \in Actors /\ Main \in Actors
      BY <3>2, Names, Zenon
    <3>4. QED
      BY <1>0, <2>1, <3>1, <3>3, ZenonT(60) DEF Dispatch, SendData
  <2>2. CASE ~Dispatch(c)
    <3>1. \E x : act' = [act EXCEPT ![c] = x]
      BY <2>2, ZenonT(60) DEF ReaderStep, ReadTimeout, ReaderTop, ReadFail, handleReadError
    <3>2. QED
      BY <1>0, <3>1, Names, ZenonT(60)
  <2>3. QED
    BY <2>1, <2>2, Zenon
<1>4. ASSUME c = Main, act'[c].at = "gone" PROVE quit \/ ended \cap scn.opener # {}
  <2>1. CASE CtxDone(Main)
    BY <2>1, Zenon DEF CtxDone, QuitInv
  <2>2. CASE ~CtxDone(Main)
    <3>1. CASE ReaderTop(c)
      BY <1>0, <1>4, <2>2, <3>1, ZenonT(60) DEF ReaderTop, At, Busy
    <3>2. CASE Dispatch(c)
      <4>1. PICK f \in Frames : f = Head(wire[c])
        BY <1>0, <3>2, TailFacts, ZenonT(60) DEF Dispatch, TypeOK
      <4>2. f.on \in Reqs
        BY Zenon DEF Frames
      <4>3. f.on # c
        BY <4>2, Names, Zenon
      <4>4. QED
        BY <1>0, <1>4, <3>2, <4>1, <4>3 DEF Dispatch, SendData, At, Busy
    <3>3. CASE ReadFail(c) \/ ReadTimeout(c)
      BY <1>0, <1>4, <2>2, <3>3 DEF ReadFail, ReadTimeout, handleReadError, Busy
    <3>4. QED
      BY <3>1, <3>2, <3>3, ZenonT(60) DEF ReaderStep
  <2>3. QED
    BY <2>1, <2>2, ZenonT(60)
<1>5. QED
  BY <1>0, <1>1, <1>2, <1>3, <1>4, QuitOther, ZenonT(60)

LEMMA QuitStep ==
  ASSUME Inv, QuitInv, [Next]_vars
  PROVE  QuitInv'
<1>1. ASSUME UNCHANGED vars PROVE QuitInv'
  BY <1>1, QuitSame, Zenon DEF vars, stepVars, callVars, sessVars
<1> SUFFICES ASSUME Step, UNCHANGED scn PROVE QuitInv'
  BY <1>1, Zenon DEF Next
<1>2. ASSUME NEW r \in Reqs, NEW p \in FreePaths, Claim(r, p) PROVE QuitInv'
  BY <1>2, QuitSame, ZenonT(60) DEF Claim, Return, sessVars
<1>3. ASSUME NEW r \in Reqs, CallerStep(r) \/ CtxEnd(r) \/ ServerStep(r) PROVE QuitInv'
  <2>1. UNCHANGED <<quit, act, cancelled, entry>> /\ ended \subseteq ended'
    BY <1>3, Zenon DEF CallerStep, CtxEnd, ServerStep, Register, writeRequest, RecvClosed, GiveUp,
       Answer, Return, callVars, sessVars
  <2>2. QED
    BY <2>1, QuitSame, ZenonT(60)
<1>4. ASSUME NEW r \in Reqs, WaitStep(r) PROVE QuitInv'
  <2>1. Inv /\ act[r].at = "timer" /\ UNCHANGED <<quit, ended, entry, cancelled>> /\ Shape(r) /\ act \in [Actors -> Act]
    BY <1>4, Names, Zenon DEF WaitStep, WaitStop, WaitRetry, callVars, sessVars, Inv, Shapes, TypeOK
  <2>2. act[r].job # "close" /\ r # Main /\ r # User
    BY <2>1, Names, ZenonT(60) DEF Shape, Fits
  <2>3. \E x : act' = [act EXCEPT ![r] = x]
    BY <1>4, ZenonT(60) DEF WaitStep, WaitStop, WaitRetry, SendData
  <2>4. \A b \in {Main, User} : b # r => act'[b] = act[b]
    BY <2>1, <2>3, Names, ZenonT(60)
  <2>5. QED
    BY <2>1, <2>2, <2>4, QuitOther, ZenonT(60)
<1>5. ASSUME NEW a \in Actors, ActorStep(a) PROVE QuitInv'
  BY <1>5, QuitActor, QuitLoop, ZenonT(60) DEF ActorStep
<1>6. ASSUME NEW c \in Conns, ReaderStep(c) \/ ReadTimeout(c) PROVE QuitInv'
  BY <1>6, QuitReader, ZenonT(60)
<1>7. ASSUME NEW c \in Conns, Lose(c) PROVE QuitInv'
  BY <1>7, QuitSame, Zenon DEF Lose, callVars, sessVars
<1>8. ASSUME UserClose PROVE QuitInv'
  <2>1. act[User].job # "close"
    BY <1>8, Names, ZenonT(60) DEF UserClose, Inv, Shapes, Shape, Fits
  <2>2. QED
    BY <1>8, <2>1, QuitClose, ZenonT(60) DEF UserClose
<1>9. QED
  BY <1>2, <1>3, <1>4, <1>5, <1>6, <1>7, <1>8, ZenonT(60) DEF Step

LEMMA QuitInvariant ==
  ASSUME Counting
  PROVE  Spec => []QuitInv
<1>1. Init => QuitInv
  <2> SUFFICES ASSUME Init PROVE QuitInv
    BY Zenon
  <2>1. act[Main].at = "top" /\ ~quit /\ cancelled = {}
    BY Names, ZenonT(60) DEF Init, Bound, At, Busy
  <2>2. QED
    BY <2>1, ZenonT(60) DEF QuitInv, Returned, Listed
<1>2. Inv /\ QuitInv /\ [Next]_vars => QuitInv'
  BY QuitStep, Zenon
<1>3. Spec => []Inv
  BY Invariant, Zenon
<1>4. QED
  BY <1>1, <1>2, <1>3, PTL DEF Spec

LEMMA NoOrphans ==
  ASSUME Counting
  PROVE  Spec => [](scn.opener \cap scn.ending = {} => NoOrphan)
<1>1. Inv /\ QuitInv => (scn.opener \cap scn.ending = {} => NoOrphan)
  <2> SUFFICES ASSUME Inv, QuitInv, scn.opener \cap scn.ending = {}, act[Main].at = "gone",
                      act[User].at \in {"idle", "gone"}, NEW r \in Reqs, entry[r] = "claimed"
               PROVE  FALSE
    BY Zenon DEF NoOrphan
  <2>1. quit
    BY Zenon DEF Inv, TypeOK, QuitInv, Returned
  <2>2. act[Main].job = "none" /\ act[User].job = "none"
    BY Names, ZenonT(60) DEF Inv, Shapes, Shape, Fits
  <2>3. QED
    BY <2>1, <2>2, ZenonT(60) DEF QuitInv, Listed, Releases
<1>2. (Spec => []Inv) /\ (Spec => []QuitInv)
  BY Invariant, QuitInvariant, Zenon
<1>3. QED
  BY <1>1, <1>2, PTL

-----------------------------------------------------------------------------
(* Responses on a session nothing happens to: it is not closed, no         *)
(* connection of it is lost and there is no stream timeout.                *)

Calm == ~scn.canClose /\ ~scn.canLose /\ ~scn.canTimeout

Steady ==
  /\ ~quit
  /\ \A r \in Reqs : path[r] \in Bound
  /\ \A c \in Bound : conn[c] = "up"
  /\ \A c \in Conns : c \notin Bound => act[c].at = "gone"
  /\ \A a \in Actors : act[a].job \in {"none", "frame", "attn"}

\* A stream is only released by the goroutine that has delivered all of it, or
\* to a caller that has gone.
Releasing(a) ==
  /\ act[a].at = "select" => entry[act[a].on] = "claimed"
  /\ act[a].at = "drain" => entry[act[a].on] # "claimed"
  /\ act[a].at = "unclaim" /\ entry[act[a].on] = "claimed" /\ pc[act[a].on] = "wait" =>
       srv[act[a].on] = "ok" /\ NoFrame(act[a].on)

Whole(r) == srv[r] = "ok" /\ got[r] = sent[r]

\* No part of a response is dropped while its caller waits.
Complete(r) ==
  /\ res[r] = "ok" => Whole(r) /\ pc[r] = "ret"
  /\ pc[r] = "wait" /\ entry[r] # "claimed" => Whole(r)
  /\ pc[r] = "wait" /\ entry[r] = "claimed" => sent[r] = got[r] + Count(wire[path[r]], r) + Offered(r)

CalmInv == Steady /\ (\A a \in Actors : Releasing(a)) /\ (\A r \in Reqs : Complete(r))

\* Whoever handles a response is the reader of the connection it came by.
LEMMA CalmReads ==
  ASSUME Inv, Steady, NEW a \in Actors, Acting(a)
  PROVE  Reading(a) /\ act[a].on \in Reqs /\ path[act[a].on] = a /\ Answerable(act[a].on) /\ a \in Conns
<1>1. Shape(a) /\ act[a].job \in {"none", "frame", "attn"} /\ act[a].on \in Reqs /\ Delivery(a)
  BY ActOn, ZenonT(60) DEF Inv, Shapes, Steady, Flow
<1>2. Reading(a)
  BY <1>1, ZenonT(60) DEF Shape, Fits, Reading, Acting
<1>3. QED
  BY <1>1, <1>2, ZenonT(60) DEF Delivery, Reading, Shape, Fits

\* What a calm session never does.
LEMMA CalmNever ==
  ASSUME Inv, CalmInv, Calm
  PROVE  /\ \A a \in Actors : ~SelectReleased(a) /\ ~LoopSend(a) /\ ~LoopEnd(a)
         /\ \A c \in Conns : ~ReadFail(c) /\ ~ReadTimeout(c) /\ ~Lose(c)
         /\ \A r \in Reqs : ~WriteMayFail(r)
         /\ ~UserClose
<1>1. ASSUME NEW a \in Actors PROVE ~SelectReleased(a)
  BY ZenonT(60) DEF CalmInv, Steady, Releasing, SelectReleased
<1>2. ASSUME NEW a \in Actors PROVE ~LoopSend(a) /\ ~LoopEnd(a)
  BY ZenonT(60) DEF CalmInv, Steady, Inv, Shapes, Shape, Fits, LoopSend, LoopEnd
<1>3. ASSUME NEW c \in Conns PROVE ~ReadFail(c) /\ ~ReadTimeout(c) /\ ~Lose(c)
  BY Zenon DEF CalmInv, Steady, ReadFail, ReadTimeout, Lose, Calm
<1>4. ASSUME NEW r \in Reqs PROVE ~WriteMayFail(r)
  BY Zenon DEF CalmInv, Steady, WriteMayFail, Bound
<1>5. ~UserClose
  BY ZenonT(60) DEF UserClose, Calm
<1>6. QED
  BY <1>1, <1>2, <1>3, <1>4, <1>5, ZenonT(60)

\* A caller goes on, or its request is written.
LEMMA CalmCall ==
  ASSUME Counting, Inv, CalmInv, UNCHANGED <<scn, path, got, entry, quit, conn, wire, sent, act>>,
         \A q \in Reqs : srv'[q] = srv[q] \/ pc[q] = "write",
         \A q \in Reqs : \/ pc'[q] = pc[q] \/ pc'[q] = "ret"
                         \/ pc[q] \in {"claimed", "write"} /\ pc'[q] \in {"write", "wait"},
         \A q \in Reqs : \/ res'[q] = res[q]
                         \/ pc'[q] = "ret" /\ (res'[q] # "ok" \/ (pc[q] = "wait" /\ entry[q] = "closed"))
  PROVE  CalmInv'
<1>1. Steady'
  BY ZenonT(60) DEF CalmInv, Steady, Bound
<1>2. ASSUME NEW a \in Actors PROVE Releasing(a)'
  <2>1. Releasing(a) /\ NoFrame(act[a].on)' = NoFrame(act[a].on)
    BY ZenonT(60) DEF CalmInv, NoFrame
  <2>2. CASE Acting(a)
    <3>1. act[a].on \in Reqs /\ Answerable(act[a].on)
      BY <2>2, CalmReads, ZenonT(60) DEF CalmInv
    <3>2. QED
      BY <2>1, <3>1, ZenonT(60) DEF Releasing, NoFrame, Answerable
  <2>3. CASE ~Acting(a)
    BY <2>3, ZenonT(60) DEF Releasing, Acting
  <2>4. QED
    BY <2>2, <2>3, ZenonT(60)
<1>3. ASSUME NEW r \in Reqs PROVE Complete(r)'
  <2>1. Complete(r) /\ Balance(r) /\ Offered(r)' = Offered(r) /\ Offered(r) \in Nat
    BY Zenon DEF CalmInv, Inv, Flow, Offered, Offers, Reading, Acting
  <2>2. got[r] \in Nat /\ sent[r] \in Nat /\ Count(wire[path[r]], r) \in Nat
    BY CountType, SessionAssumption DEF Inv, TypeOK
  <2>3. CASE pc[r] \in {"claimed", "write"}
    <3>1. entry[r] = "claimed" /\ res[r] # "ok"
      BY <2>1, <2>3, ZenonT(60) DEF CalmInv, Steady, Inv, ClaimHeld, Complete
    <3>2. sent[r] = got[r] + Count(wire[path[r]], r) + Offered(r)
      BY <2>1, <2>2, <2>3 DEF Balance, Answerable
    <3>3. QED
      BY <2>1, <2>3, <3>1, <3>2, ZenonT(60) DEF Complete
  <2>4. CASE pc[r] \notin {"claimed", "write"}
    BY <2>1, <2>4, ZenonT(60) DEF Complete, Whole
  <2>5. QED
    BY <2>3, <2>4, ZenonT(60)
<1>4. QED
  BY <1>1, <1>2, <1>3, ZenonT(60) DEF CalmInv

LEMMA SteadyKept ==
  ASSUME Steady, UNCHANGED <<scn, path, quit, conn>>, NEW a \in Actors,
         \A b \in Actors : b # a => act'[b] = act[b], act'[a].job \in {"none", "frame", "attn"},
         act[a].at # "gone" \/ act'[a].at = "gone"
  PROVE  Steady'
<1>1. Bound' = Bound
  BY Zenon DEF Bound
<1>2. \A c \in Conns : c \notin Bound => act'[c].at = "gone"
  BY Names, Zenon DEF Steady
<1>3. \A b \in Actors : act'[b].job \in {"none", "frame", "attn"}
  BY ZenonT(60) DEF Steady
<1>4. QED
  BY <1>1, <1>2, <1>3, Zenon DEF Steady

LEMMA CalmClaim ==
  ASSUME Inv, CalmInv, NEW r \in Reqs, NEW p \in FreePaths, Claim(r, p), UNCHANGED scn
  PROVE  CalmInv'
<1>0. /\ ~quit /\ pc[r] = "new" /\ p \in Bound /\ entry' = [entry EXCEPT ![r] = "claimed"]
      /\ pc' = [pc EXCEPT ![r] = "claimed"] /\ path' = [path EXCEPT ![r] = p]
      /\ UNCHANGED <<got, res, quit, conn, wire, srv, sent, act>>
  BY ZenonT(60) DEF Claim, CalmInv, Steady, FreePaths, srvVars
<1>1. /\ entry'[r] = "claimed" /\ pc'[r] = "claimed" /\ path'[r] = p
      /\ \A q \in Reqs : q # r => entry'[q] = entry[q] /\ pc'[q] = pc[q] /\ path'[q] = path[q]
  BY <1>0, ZenonT(60) DEF Inv, TypeOK
<1>2. Steady'
  BY <1>0, <1>1, ZenonT(60) DEF CalmInv, Steady, Bound
<1>3. ASSUME NEW a \in Actors PROVE Releasing(a)'
  <2>1. Releasing(a)
    BY ZenonT(60) DEF CalmInv
  <2>2. CASE Acting(a)
    <3>1. act[a].on \in Reqs /\ act[a].on # r
      BY <1>0, <2>2, CalmReads, Zenon DEF CalmInv, Answerable
    <3>2. QED
      BY <1>0, <1>1, <2>1, <3>1, ZenonT(60) DEF Releasing, NoFrame
  <2>3. CASE ~Acting(a)
    BY <1>0, <2>3, Zenon DEF Releasing, Acting
  <2>4. QED
    BY <2>2, <2>3, ZenonT(60)
<1>4. ASSUME NEW q \in Reqs PROVE Complete(q)'
  <2>1. Complete(q)
    BY ZenonT(60) DEF CalmInv
  <2>2. CASE q = r
    BY <1>0, <1>1, <2>1, <2>2, ZenonT(60) DEF Complete
  <2>3. CASE q # r
    <3>1. Offered(q)' = Offered(q)
      BY <1>0, <1>1, <2>3, ZenonT(60) DEF Offered, Offers, Reading, Acting
    <3>2. QED
      BY <1>0, <1>1, <2>1, <2>3, <3>1, Zenon DEF Complete, Whole
  <2>4. QED
    BY <2>2, <2>3, Zenon
<1>5. QED
  BY <1>2, <1>3, <1>4, Zenon DEF CalmInv

LEMMA CalmAnswer ==
  ASSUME Counting, Inv, CalmInv, NEW r \in Reqs, NEW k \in AllKinds, NEW async \in BOOLEAN, Answer(r, k, async), UNCHANGED scn
  PROVE  CalmInv'
<1>0. /\ TypeOK /\ srv[r] = "asked" /\ UNCHANGED <<pc, path, got, res, entry, quit, conn, act>>
  BY Zenon DEF Inv, Answer, callVars, sessVars
<1>1. /\ \A q \in Reqs : q # r => srv'[q] = srv[q] /\ sent'[q] = sent[q]
      /\ sent'[r] = sent[r] + (IF k \in {"sofar", "ok"} THEN 1 ELSE 0)
      /\ sent[r] \in Nat /\ got[r] \in Nat
  BY <1>0, SessionAssumption DEF Answer, TypeOK
<1>2. \A q \in Reqs : /\ q # r /\ NoFrame(q) => NoFrame(q)'
                      /\ Count(wire'[path[q]], q) =
                           Count(wire[path[q]], q) + (IF q = r /\ k \in {"sofar", "ok"} THEN 1 ELSE 0)
                      /\ Count(wire[path[q]], q) \in Nat
  BY <1>0, AnswerAdds, ZenonT(60)
<1>3. Steady'
  BY <1>0, ZenonT(60) DEF CalmInv, Steady, Bound
<1>4. ASSUME NEW a \in Actors PROVE Releasing(a)'
  <2>1. Releasing(a) /\ (Acting(a) => act[a].on \in Reqs)
    BY CalmReads, Zenon DEF CalmInv
  <2>2. act' = act /\ entry' = entry /\ pc' = pc
    BY <1>0, ZenonT(60)
  <2>3. CASE Acting(a) /\ act[a].on = r
    BY <1>0, <2>1, <2>2, <2>3, ZenonT(60) DEF Releasing
  <2>4. CASE Acting(a) /\ act[a].on # r
    <3>1. /\ srv'[act[a].on] = srv[act[a].on] /\ (NoFrame(act[a].on) => NoFrame(act[a].on)')
      BY <1>1, <1>2, <2>1, <2>2, <2>4, ZenonT(60)
    <3>2. QED
      BY <2>1, <2>2, <3>1, Zenon DEF Releasing
  <2>5. CASE ~Acting(a)
    BY <2>2, <2>5, Zenon DEF Releasing, Acting
  <2>6. QED
    BY <2>3, <2>4, <2>5, Zenon
<1>5. ASSUME NEW q \in Reqs PROVE Complete(q)'
  <2>1. Complete(q) /\ Offered(q)' = Offered(q) /\ Offered(q) \in Nat
    BY <1>0, ZenonT(60) DEF CalmInv, Offered, Offers, Reading, Acting
  <2>2. CASE q = r
    BY <1>0, <1>1, <1>2, <2>1, <2>2 DEF Complete, Whole
  <2>3. CASE q # r
    BY <1>0, <1>1, <1>2, <2>1, <2>3 DEF Complete, Whole
  <2>4. QED
    BY <2>2, <2>3, ZenonT(60)
<1>6. QED
  BY <1>3, <1>4, <1>5, ZenonT(60) DEF CalmInv

LEMMA CalmDispatch ==
  ASSUME Counting, Inv, CalmInv, NEW c \in Conns, Dispatch(c), UNCHANGED scn
  PROVE  CalmInv'
<1>0. /\ TypeOK /\ act[c].at = "read" /\ c \in Actors /\ wire[c] \in Seq(Frames) /\ wire[c] # <<>>
      /\ UNCHANGED <<pc, path, got, res, entry, quit, conn, srv, sent>>
  BY Names, Zenon DEF Inv, Dispatch, callVars, sessVars, srvVars, TypeOK
<1>1. PICK f \in Frames : f = Head(wire[c]) /\ f = wire[c][1] /\ 1 \in DOMAIN wire[c]
  BY <1>0, TailFacts, ZenonT(60)
<1>2. PICK r \in Reqs : r = f.on
  BY Zenon DEF Frames
<1>3. path[r] = c /\ Answerable(r) /\ (f.kind = "wait" => ~f.async)
  BY <1>1, <1>2 DEF Inv, Flow, OnWire
<1>4. /\ act' \in [Actors -> Act] /\ Shapes' /\ r # c
      /\ \A b \in Actors : b # c /\ b # r => act'[b] = act[b]
      /\ act'[r] = act[r] \/ (f.kind = "wait" /\ act'[r].at = "timer")
      /\ Acting(c)' => Reading(c)' /\ act'[c].on = r
      /\ act'[c].at = "select" => entry[r] = "claimed"
      /\ act'[c].at \in {"top", "select"} \/ (act'[c].at = "unclaim" /\ entry[r] # "claimed")
      /\ entry[r] = "claimed" /\ f.kind # "wait" => act'[c].at = "select" /\ act'[c].msg = f.kind /\ Reading(c)'
      /\ Reading(c)' /\ act'[c].at = "select" => act'[c].msg \in {f.kind, "error"}
  BY <1>1, <1>2, <1>3, DispatchDoes
<1>5. \A q \in Reqs : /\ NoFrame(q) => NoFrame(q)'
                      /\ path[q] # c => wire'[path[q]] = wire[path[q]]
                      /\ Count(wire[c], q) = Count(wire'[c], q) + (IF IsPart(f, q) THEN 1 ELSE 0)
                      /\ Count(wire[c], q) \in Nat /\ Count(wire'[c], q) \in Nat
  BY <1>0, <1>1, DispatchTakes, Zenon
<1>6. c \in Bound
  BY <1>0, ZenonT(60) DEF CalmInv, Steady
<1>7. Steady'
  <2>1. act'[c].job \in {"none", "frame", "attn"}
    <3>1. Shape(c)'
      BY <1>0, <1>4, Zenon DEF Shapes
    <3>2. CASE act'[c].at = "top"
      BY <3>1, <3>2, ZenonT(60) DEF Shape, Fits
    <3>3. CASE act'[c].at \in {"select", "unclaim"}
      BY <1>4, <3>3, ZenonT(60) DEF Acting, Reading
    <3>4. QED
      BY <1>4, <3>2, <3>3, ZenonT(60)
  <2>2. act'[r].job \in {"none", "frame", "attn"} /\ r \in Actors /\ r \notin Conns
    BY <1>4, Names, ZenonT(60) DEF Shapes, Shape, Fits, CalmInv, Steady
  <2>3. \A a \in Actors : act'[a].job \in {"none", "frame", "attn"}
    BY <1>4, <2>1, <2>2, Zenon DEF CalmInv, Steady
  <2>4. \A d \in Conns : d \notin Bound => act'[d].at = "gone"
    BY <1>4, <1>6, <2>2, Names, ZenonT(60) DEF CalmInv, Steady
  <2>5. Bound' = Bound
    BY Zenon DEF Bound
  <2>6. QED
    BY <1>0, <2>3, <2>4, <2>5, Zenon DEF CalmInv, Steady
<1>8. ASSUME NEW a \in Actors PROVE Releasing(a)'
  <2>1. Releasing(a) /\ (Acting(a) => act[a].on \in Reqs)
    BY CalmReads, Zenon DEF CalmInv
  <2>2. CASE a = c
    BY <1>0, <1>4, <2>2, ZenonT(60) DEF Releasing, Acting
  <2>3. CASE a # c /\ act'[a] = act[a]
    BY <1>0, <1>5, <2>1, <2>3, Zenon DEF Releasing, Acting
  <2>4. CASE a = r /\ act'[r].at = "timer"
    BY <2>4, Zenon DEF Releasing
  <2>5. QED
    BY <1>4, <2>2, <2>3, <2>4, ZenonT(60)
<1>9. ASSUME NEW q \in Reqs PROVE Complete(q)'
  <2>1. Complete(q) /\ path[q] \in Conns /\ got[q] \in Nat /\ sent[q] \in Nat
    BY <1>0, SessionAssumption DEF CalmInv, TypeOK
  <2>2. CASE path[q] # c
    <3>1. act'[path[q]] = act[path[q]]
      BY <1>4, <2>1, <2>2, Names, ZenonT(60)
    <3>2. Offered(q)' = Offered(q)
      BY <1>0, <3>1, ZenonT(60) DEF Offered, Offers, Reading, Acting
    <3>3. QED
      BY <1>0, <1>5, <2>1, <2>2, <3>2, ZenonT(60) DEF Complete, Whole
  <2>3. CASE path[q] = c
    <3>1. ~Offers(q)
      BY <1>0, <2>3, Zenon DEF Offers
    <3>2. entry[q] = "claimed" => (Offers(q)' <=> IsPart(f, q))
      BY <1>0, <1>2, <1>4, <2>3, ZenonT(60) DEF Offers, IsPart, Reading
    <3>3. QED
      BY <1>0, <1>5, <2>1, <2>3, <3>1, <3>2 DEF Complete, Whole, Offered
  <2>4. QED
    BY <2>2, <2>3, ZenonT(60)
<1>10. QED
  BY <1>7, <1>8, <1>9, ZenonT(60) DEF CalmInv

\* The caller takes what its reader hands it.
LEMMA CalmSend ==
  ASSUME Counting, Inv, CalmInv, NEW a \in Actors, SelectSend(a), UNCHANGED scn
  PROVE  CalmInv'
<1>0. /\ TypeOK /\ Shapes /\ act[a].at = "select" /\ Acting(a) /\ Move(a, Sent(a)) /\ Releasing(a) /\ Delivery(a)
      /\ UNCHANGED <<path, ended, entry, quit, conn, wire, srv, sent>>
  BY Zenon DEF Inv, Flow, CalmInv, SelectSend, Receive, Return, sessVars, srvVars, Acting
<1>1. PICK r \in Reqs : r = act[a].on
  BY <1>0, CalmReads, Zenon DEF CalmInv
<1>2. Reading(a) /\ path[r] = a /\ a \in Conns /\ entry[r] = "claimed" /\ pc[r] = "wait" /\ a # r
  BY <1>0, <1>1, CalmReads, Names DEF CalmInv, Releasing, SelectSend
<1>3. Goes(a, Sent(a)) /\ Sent(a) \in {"top", "unclaim"} /\ (act[a].msg = "sofar" <=> Sent(a) = "top")
  <2>1. Sent(a) \in Ats /\ act[a].job \in {"frame", "attn"}
    BY <1>0, <1>2, SentCases, Zenon DEF Reading
  <2>2. QED
    BY <1>0, <2>1, MoveGoes, ZenonT(60) DEF Sent
<1>4. /\ act'[a].at \in {"top", "unclaim"} /\ (act'[a].at = "unclaim" => act[a].msg # "sofar")
      /\ act'[a].on = r /\ act'[a].job = act[a].job
      /\ \A b \in Actors : b # a => act'[b] = act[b]
  BY <1>1, <1>3, ZenonT(60) DEF Goes, Becomes
<1>5. \A q \in Reqs : q # r => pc'[q] = pc[q] /\ got'[q] = got[q] /\ res'[q] = res[q]
  BY <1>0, <1>1, ZenonT(60) DEF SelectSend, Receive, Return, TypeOK
<1>6. \/ act[a].msg \in {"sofar", "ok"} /\ got'[r] = got[r] + 1 /\ pc'[r] = "wait" /\ res'[r] = res[r]
      \/ got'[r] = got[r] /\ pc'[r] = "ret" /\ res'[r] # "ok"
  BY <1>0, <1>1, <1>2, ZenonT(60) DEF SelectSend, Receive, Return, TypeOK
<1>7. Steady'
  BY <1>0, <1>2, <1>4, SteadyKept, ZenonT(60) DEF CalmInv, Reading
<1>8. ASSUME NEW b \in Actors PROVE Releasing(b)'
  <2>1. Releasing(b) /\ (Acting(b) => act[b].on \in Reqs /\ path[act[b].on] = b)
    BY CalmReads, ZenonT(60) DEF CalmInv
  <2>2. CASE b # a
    <3>1. act'[b] = act[b] /\ (Acting(b) => act[b].on # r)
      BY <1>2, <1>4, <2>1, <2>2, ZenonT(60)
    <3>2. QED
      BY <1>0, <1>5, <2>1, <3>1, ZenonT(60) DEF Releasing, Acting, NoFrame
  <2>3. CASE b = a
    <3>1. act[a].msg = "ok" => srv[r] = "ok" /\ NoFrame(r)
      BY <1>0, <1>1, <1>2, Zenon DEF Delivery
    <3>2. act'[a].at = "unclaim" /\ pc'[r] = "wait" => act[a].msg = "ok"
      BY <1>4, <1>6, ZenonT(60)
    <3>3. QED
      BY <1>0, <1>4, <2>3, <3>1, <3>2, Zenon DEF Releasing, NoFrame
  <2>4. QED
    BY <2>2, <2>3, Zenon
<1>9. ASSUME NEW q \in Reqs PROVE Complete(q)'
  <2>1. Complete(q) /\ path[q] \in Conns /\ got[q] \in Nat /\ sent[q] \in Nat /\ Count(wire[path[q]], q) \in Nat
    BY <1>0, SessionAssumption, CountType DEF CalmInv, TypeOK
  <2>2. CASE q # r
    <3>1. Offers(q)' <=> Offers(q)
      <4>1. CASE path[q] # a
        BY <1>0, <1>4, <2>1, <4>1, Names, ZenonT(60) DEF Offers, Reading, Acting
      <4>2. CASE path[q] = a
        BY <1>0, <1>1, <1>4, <2>2, <4>2, Zenon DEF Offers
      <4>3. QED
        BY <4>1, <4>2, ZenonT(60)
    <3>2. Offered(q)' = Offered(q)
      BY <3>1, ZenonT(60) DEF Offered
    <3>3. QED
      BY <1>0, <1>5, <2>1, <2>2, <3>2, Zenon DEF Complete, Whole
  <2>3. CASE q = r
    <3>1. ~Offers(r)'
      BY <1>0, <1>2, <1>4, ZenonT(60) DEF Offers
    <3>2. act[a].msg \in {"sofar", "ok"} => Offers(r)
      BY <1>0, <1>1, <1>2, Zenon DEF Offers
    <3>3. res[r] # "ok"
      BY <1>2, <2>1, <2>3, ZenonT(60) DEF Complete
    <3>4. CASE act[a].msg \in {"sofar", "ok"} /\ got'[r] = got[r] + 1 /\ pc'[r] = "wait" /\ res'[r] = res[r]
      <4>1. Offered(r)' = 0 /\ Offered(r) = 1
        BY <3>1, <3>2, <3>4, ZenonT(60) DEF Offered
      <4>2. sent[r] = got[r] + Count(wire[path[r]], r) + 1
        BY <1>2, <2>1, <2>3, <4>1, ZenonT(60) DEF Complete
      <4>3. sent[r] = got'[r] + Count(wire[path[r]], r) + 0
        BY <2>1, <2>3, <3>4, <4>2
      <4>4. QED
        BY <1>0, <1>2, <2>3, <3>3, <3>4, <4>1, <4>3, ZenonT(60) DEF Complete
    <3>5. CASE got'[r] = got[r] /\ pc'[r] = "ret" /\ res'[r] # "ok"
      BY <2>3, <3>5, ZenonT(60) DEF Complete
    <3>6. QED
      BY <1>6, <3>4, <3>5, Zenon
  <2>4. QED
    BY <2>2, <2>3, ZenonT(60)
<1>10. QED
  BY <1>7, <1>8, <1>9, ZenonT(60) DEF CalmInv

\* The reader retires the stream of a response it has delivered.
LEMMA CalmUnclaim ==
  ASSUME Counting, Inv, CalmInv, NEW a \in Actors, Unclaim(a) \/ Drain(a), UNCHANGED scn
  PROVE  CalmInv'
<1>0. /\ TypeOK /\ Shapes /\ Acting(a) /\ act[a].at \in {"unclaim", "drain"} /\ Releasing(a)
      /\ UNCHANGED <<pc, path, got, res, quit, conn, wire, srv, sent>>
  BY Zenon DEF Inv, CalmInv, Unclaim, Drain, callVars, srvVars, Acting
<1>1. PICK r \in Reqs : r = act[a].on
  BY <1>0, CalmReads, ZenonT(60) DEF CalmInv
<1>2. Reading(a) /\ path[r] = a /\ a \in Conns /\ Answerable(r) /\ act[a].job \in {"frame", "attn"}
  BY <1>0, <1>1, CalmReads, ZenonT(60) DEF CalmInv, Reading
<1>3. PICK l \in {"drain", "delete"} : Move(a, l)
  BY <1>2, ZenonT(60) DEF Unclaim, Drain, Unclaimed
<1>4. Goes(a, l)
  BY <1>0, <1>3, MoveGoes, ZenonT(60) DEF Ats
<1>5. /\ act'[a].at \in {"drain", "delete"} /\ act'[a].on = r /\ act'[a].job = act[a].job
      /\ \A b \in Actors : b # a => act'[b] = act[b]
  BY <1>1, <1>4, ZenonT(60) DEF Goes, Becomes
<1>6. entry'[r] # "claimed" /\ \A q \in Reqs : q # r => entry'[q] = entry[q]
  BY <1>0, <1>1 DEF Unclaim, Drain, TypeOK
<1>7. Steady'
  BY <1>0, <1>2, <1>5, SteadyKept, ZenonT(60) DEF CalmInv
<1>8. ASSUME NEW b \in Actors PROVE Releasing(b)'
  <2>1. Releasing(b) /\ (Acting(b) => act[b].on \in Reqs /\ path[act[b].on] = b)
    BY CalmReads, ZenonT(60) DEF CalmInv
  <2>2. CASE b # a
    <3>1. act'[b] = act[b] /\ (Acting(b) => act[b].on # r)
      BY <1>2, <1>5, <2>1, <2>2, ZenonT(60)
    <3>2. QED
      BY <1>0, <1>6, <2>1, <3>1, ZenonT(60) DEF Releasing, Acting, NoFrame
  <2>3. CASE b = a
    BY <1>0, <1>5, <1>6, <2>3, Zenon DEF Releasing
  <2>4. QED
    BY <2>2, <2>3, ZenonT(60)
<1>9. ASSUME NEW q \in Reqs PROVE Complete(q)'
  <2>1. Complete(q) /\ path[q] \in Conns /\ got[q] \in Nat /\ sent[q] \in Nat
    BY <1>0, SessionAssumption DEF CalmInv, TypeOK
  <2>2. Offers(q)' <=> Offers(q)
    <3>1. CASE path[q] # a
      BY <1>0, <1>5, <2>1, <3>1, Names, ZenonT(60) DEF Offers, Reading, Acting
    <3>2. CASE path[q] = a
      BY <1>0, <1>5, <3>2, Zenon DEF Offers
    <3>3. QED
      BY <3>1, <3>2, ZenonT(60)
  <2>3. CASE q # r
    BY <1>0, <1>6, <2>1, <2>2, <2>3, ZenonT(60) DEF Complete, Whole, Offered
  <2>4. CASE q = r
    <3>1. ASSUME pc[r] = "wait", entry[r] = "claimed" PROVE Whole(r)
      <4>1. act[a].at = "unclaim" /\ srv[r] = "ok" /\ NoFrame(r)
        BY <1>0, <1>1, <3>1, ZenonT(60) DEF Releasing
      <4>2. Count(wire[path[r]], r) = 0
        BY <1>0, <2>1, <2>4, <4>1, NoFrameCount, Zenon
      <4>3. Offered(r) = 0
        BY <1>2, <4>1, ZenonT(60) DEF Offered, Offers
      <4>4. QED
        BY <2>1, <2>4, <3>1, <4>1, <4>2, <4>3 DEF Complete, Whole
    <3>2. QED
      BY <1>0, <1>6, <2>1, <2>4, <3>1, ZenonT(60) DEF Complete, Whole
  <2>5. QED
    BY <2>3, <2>4, ZenonT(60)
<1>10. QED
  BY <1>7, <1>8, <1>9, ZenonT(60) DEF CalmInv

\* A goroutine that hands over nothing comes to rest.
LEMMA CalmRest ==
  ASSUME Inv, CalmInv, UNCHANGED <<scn, pc, path, got, res, entry, quit, conn, wire, sent>>,
         NEW a \in Actors, act[a].at # "select", NEW l \in {"top", "read", "gone", "idle"},
         act' = [act EXCEPT ![a] = At(l)], a \in Conns => l = "gone" \/ act[a].at # "gone",
         \A q \in Reqs : srv'[q] = srv[q] \/ srv[q] = "told"
  PROVE  CalmInv'
<1>1. /\ act'[a].at = l /\ act'[a].job = "none"
      /\ \A b \in Actors : b # a => act'[b] = act[b]
  BY ZenonT(60) DEF At, Busy, Inv, TypeOK
<1>2. Steady'
  BY <1>1, Names, ZenonT(60) DEF CalmInv, Steady, Bound
<1>3. ASSUME NEW b \in Actors PROVE Releasing(b)'
  <2>1. Releasing(b) /\ (Acting(b) => act[b].on \in Reqs)
    BY CalmReads, ZenonT(60) DEF CalmInv
  <2>2. CASE b # a
    BY <1>1, <2>1, <2>2 DEF Releasing, Acting, NoFrame
  <2>3. CASE b = a
    BY <1>1, <2>3, ZenonT(60) DEF Releasing
  <2>4. QED
    BY <2>2, <2>3, Zenon
<1>4. ASSUME NEW q \in Reqs PROVE Complete(q)'
  <2>1. Complete(q) /\ path[q] \in Actors
    BY Names, ZenonT(60) DEF CalmInv, Inv, TypeOK
  <2>2. Offers(q)' <=> Offers(q)
    BY <1>1, <2>1, ZenonT(60) DEF Offers, Reading, Acting
  <2>3. QED
    BY <2>1, <2>2, ZenonT(60) DEF Complete, Whole, Offered
<1>5. QED
  BY <1>2, <1>3, <1>4, Zenon DEF CalmInv

LEMMA CalmStep ==
  ASSUME Counting, Inv, CalmInv, Calm, [Next]_vars
  PROVE  CalmInv'
<1>1. ASSUME UNCHANGED vars PROVE CalmInv'
  BY <1>1, CalmCall, ZenonT(60) DEF vars, stepVars, callVars, sessVars, srvVars
<1> SUFFICES ASSUME Step, UNCHANGED scn PROVE CalmInv'
  BY <1>1, Zenon DEF Next
<1>0. TypeOK
  BY ZenonT(60) DEF Inv
<1>2. ASSUME NEW r \in Reqs, NEW p \in FreePaths, Claim(r, p) PROVE CalmInv'
  BY <1>2, CalmClaim, ZenonT(60)
<1>3. ASSUME NEW r \in Reqs, CallerStep(r) \/ CtxEnd(r) PROVE CalmInv'
  <2>1. UNCHANGED <<path, got, entry, quit, conn, wire, sent, act>>
    BY <1>3, ZenonT(60) DEF CallerStep, CtxEnd, Register, writeRequest, RecvClosed, GiveUp, Return,
       sessVars, srvVars
  <2>2. \A q \in Reqs : srv'[q] = srv[q] \/ pc[q] = "write"
    BY <1>0, <1>3, ZenonT(60) DEF CallerStep, CtxEnd, Register, writeRequest, RecvClosed, GiveUp,
       Asked, srvVars, TypeOK
  <2>3. \A q \in Reqs : \/ pc'[q] = pc[q] \/ pc'[q] = "ret"
                        \/ pc[q] \in {"claimed", "write"} /\ pc'[q] \in {"write", "wait"}
    BY <1>0, <1>3, ZenonT(60) DEF CallerStep, CtxEnd, Register, writeRequest, RecvClosed, GiveUp,
       Return, TypeOK
  <2>4. \A q \in Reqs : \/ res'[q] = res[q]
                        \/ pc'[q] = "ret" /\ (res'[q] # "ok" \/ (pc[q] = "wait" /\ entry[q] = "closed"))
    BY <1>0, <1>3 DEF CallerStep, CtxEnd, Register, writeRequest, RecvClosed, GiveUp, Return, TypeOK
  <2>5. QED
    BY <2>1, <2>2, <2>3, <2>4, CalmCall, ZenonT(60)
<1>4. ASSUME NEW r \in Reqs, WaitStep(r) PROVE CalmInv'
  <2>1. act[r].at = "timer" /\ srv[r] = "told" /\ r \in Actors /\ r \notin Conns /\ ~WriteMayFail(r)
    BY <1>4, Names, CalmNever, Zenon DEF WaitStep, WaitStop, WaitRetry, Inv, Flow, Timed
  <2>2. /\ act' = [act EXCEPT ![r] = At("idle")]
        /\ UNCHANGED <<pc, path, got, res, entry, quit, conn, wire, sent>>
    BY <1>4, <2>1, ZenonT(60) DEF WaitStep, WaitStop, WaitRetry, callVars, sessVars, srvVars
  <2>3. \A q \in Reqs : srv'[q] = srv[q] \/ srv[q] = "told"
    BY <1>0, <1>4, <2>1, ZenonT(60) DEF WaitStep, WaitStop, WaitRetry, Asked, srvVars, TypeOK
  <2>4. QED
    BY <2>1, <2>2, <2>3, CalmRest, Zenon
<1>5. ASSUME NEW r \in Reqs, ServerStep(r) PROVE CalmInv'
  <2>1. scn \in Scenario
    BY <1>0, SessionAssumption, Zenon DEF TypeOK
  <2>2. scn.kinds \subseteq AllKinds /\ scn.wrapped \subseteq BOOLEAN
    BY <2>1, ZenonT(60) DEF Scenario
  <2>3. PICK k \in scn.kinds : \E async \in scn.wrapped : Answer(r, k, async)
    BY <1>5, ZenonT(60) DEF ServerStep
  <2>4. PICK async \in scn.wrapped : Answer(r, k, async)
    BY <2>3, Zenon
  <2>5. QED
    BY <2>2, <2>4, CalmAnswer, ZenonT(60)
<1>6. ASSUME NEW a \in Actors, Delete(a) PROVE CalmInv'
  <2>1. /\ act[a].at = "delete" /\ act' = [act EXCEPT ![a] = At(IF a \in Conns THEN "top" ELSE "idle")]
        /\ UNCHANGED <<pc, path, got, res, entry, quit, conn, wire, srv, sent>>
    BY <1>6, ZenonT(60) DEF Delete, callVars, srvVars
  <2>2. QED
    BY <2>1, CalmRest, Zenon
<1>7. ASSUME NEW a \in Actors, ActorStep(a) PROVE CalmInv'
  BY <1>6, <1>7, CalmSend, CalmUnclaim, CalmNever, ZenonT(60) DEF ActorStep
<1>8. ASSUME NEW c \in Conns, ReaderTop(c) PROVE CalmInv'
  <2>1. /\ act[c].at = "top" /\ act' = [act EXCEPT ![c] = At(IF CtxDone(c) THEN "gone" ELSE "read")] /\ c \in Actors
        /\ UNCHANGED <<pc, path, got, res, entry, quit, conn, wire, srv, sent>>
    BY <1>8, Names, ZenonT(60) DEF ReaderTop, callVars, sessVars, srvVars
  <2>2. QED
    BY <2>1, CalmRest, Zenon
<1>9. ASSUME NEW c \in Conns, ReaderStep(c) \/ ReadTimeout(c) \/ Lose(c) PROVE CalmInv'
  BY <1>8, <1>9, CalmDispatch, CalmNever, ZenonT(60) DEF ReaderStep
<1>10. QED
  BY <1>2, <1>3, <1>4, <1>5, <1>7, <1>9, CalmNever, ZenonT(60) DEF Step

LEMMA CalmHolds ==
  ASSUME Counting
  PROVE  Spec => [](~scn.canClose /\ ~scn.canLose /\ ~scn.canTimeout => SuccessIsComplete)
<1>1. Init => CalmInv
  <2> SUFFICES ASSUME Init PROVE CalmInv
    BY Zenon
  <2>1. \A l \in {"top", "gone", "idle"} : At(l).at = l /\ At(l).job = "none"
    BY Zenon DEF At, Busy
  <2>2. ASSUME NEW a \in Actors PROVE act[a].at \in {"top", "gone", "idle"} /\ act[a].job = "none"
    BY <2>1, ZenonT(60) DEF Init
  <2>3. \A c \in Conns : c \notin Bound => act[c].at = "gone"
    BY <2>1, Names, ZenonT(60) DEF Init
  <2>4. Bound \subseteq Conns /\ Main \in Bound
    <3>1. scn \in Scenario
      BY SessionAssumption, ZenonT(60) DEF Init
    <3>2. QED
      BY <3>1, Zenon DEF Bound, Conns, Scenario
  <2>5. Steady
    BY <2>2, <2>3, <2>4, ZenonT(60) DEF Init, Steady
  <2>6. \A a \in Actors : Releasing(a)
    BY <2>2, Zenon DEF Releasing
  <2>7. \A r \in Reqs : Complete(r)
    BY ZenonT(60) DEF Init, Complete
  <2>8. QED
    BY <2>5, <2>6, <2>7, ZenonT(60) DEF CalmInv
<1>2. Inv /\ (Calm => CalmInv) /\ [Next]_vars => (Calm => CalmInv)'
  <2>1. [Next]_vars => (Calm' <=> Calm)
    BY Zenon DEF Calm, Next, vars
  <2>2. QED
    BY <2>1, CalmStep, ZenonT(60)
<1>3. (Calm => CalmInv) => (~scn.canClose /\ ~scn.canLose /\ ~scn.canTimeout => SuccessIsComplete)
  BY ZenonT(60) DEF Calm, CalmInv, Complete, Whole, SuccessIsComplete
<1>4. Spec => []Inv
  BY Invariant, Zenon
<1>5. QED
  BY <1>1, <1>2, <1>3, <1>4, PTL DEF Spec

-----------------------------------------------------------------------------
(* The table of pending requests of a session with one connection, whose   *)
(* callers wait for their answers.                                         *)

\* The steps of others than the goroutines that handle responses leave alone a
\* reader that does not read.
LEMMA OtherMoves ==
  ASSUME Inv, Step, NEW c \in Conns, \A a \in Actors : ~ActorStep(a),
         act[c].at # "top", ~(act[c].at = "read" /\ (Dispatch(c) \/ ReadFail(c) \/ ReadTimeout(c)))
  PROVE  act'[c] = act[c]
<1>0. act \in [Actors -> Act] /\ c \in Actors /\ c # User /\ c \notin Reqs
  BY Names, Zenon DEF Inv, TypeOK
<1>1. ASSUME NEW x \in Actors, x # c, NEW y, act' = [act EXCEPT ![x] = y] PROVE act'[c] = act[c]
  BY <1>0, <1>1, ZenonT(60)
<1>2. ASSUME NEW r \in Reqs, NEW p \in FreePaths, Claim(r, p) PROVE act' = act
  BY <1>2, ZenonT(60) DEF Claim
<1>3. ASSUME NEW r \in Reqs, CallerStep(r) \/ CtxEnd(r) \/ ServerStep(r) PROVE act' = act
  BY <1>3, Zenon DEF CallerStep, CtxEnd, ServerStep, Register, writeRequest, RecvClosed, GiveUp,
     Answer
<1>4. ASSUME NEW r \in Reqs, WaitStep(r) PROVE act'[c] = act[c]
  <2>1. \E y : act' = [act EXCEPT ![r] = y]
    BY <1>4, ZenonT(60) DEF WaitStep, WaitStop, WaitRetry, SendData
  <2>2. QED
    BY <1>0, <1>1, <2>1, Names, ZenonT(60)
<1>6. ASSUME NEW d \in Conns, ReaderTop(d) \/ ReadFail(d) \/ ReadTimeout(d)
      PROVE  act'[c] = act[c]
  <2>1. CASE d = c
    BY <1>6, <2>1, Zenon DEF ReaderTop, ReadFail, ReadTimeout
  <2>2. CASE d # c
    <3>1. \E y : act' = [act EXCEPT ![d] = y]
      BY <1>6, ZenonT(60) DEF ReaderTop, ReadFail, ReadTimeout, handleReadError
    <3>2. QED
      BY <1>1, <2>2, <3>1, Names, ZenonT(60)
  <2>3. QED
    BY <2>1, <2>2, ZenonT(60)
<1>7. ASSUME NEW d \in Conns, Dispatch(d), d # c PROVE act'[c] = act[c]
  <2>1. wire[d] \in Seq(Frames) /\ wire[d] # <<>>
    BY <1>7, ZenonT(60) DEF Inv, TypeOK, Dispatch
  <2>2. PICK f \in Frames : f = Head(wire[d])
    BY <2>1, TailFacts, ZenonT(60)
  <2>3. f.on \in Reqs
    BY ZenonT(60) DEF Frames
  <2>4. CASE \E y : act' = [act EXCEPT ![d] = y]
    BY <1>1, <1>7, <2>4, Names, ZenonT(60)
  <2>5. CASE act' = [act EXCEPT ![d] = At("top"), ![f.on] = At("timer")]
    BY <1>0, <1>7, <2>3, <2>5, Names, ZenonT(60)
  <2>6. QED
    BY <1>7, <2>2, <2>4, <2>5, Zenon DEF Dispatch, SendData
<1>8. ASSUME UserClose PROVE act'[c] = act[c]
  <2>1. \E y : act' = [act EXCEPT ![User] = y]
    BY <1>8, Zenon DEF UserClose, Close
  <2>2. QED
    BY <1>0, <1>1, <2>1, Names, ZenonT(60)
<1>9. ASSUME NEW d \in Conns, Lose(d) PROVE act' = act
  BY <1>9, ZenonT(60) DEF Lose
<1>10. ASSUME NEW d \in Conns, ReaderStep(d) \/ ReadTimeout(d) \/ Lose(d)
       PROVE  act'[c] = act[c]
  <2>1. CASE Dispatch(d)
    <3>1. d # c
      BY <2>1, ZenonT(60) DEF Dispatch
    <3>2. QED
      BY <1>7, <2>1, <3>1, Zenon
  <2>2. QED
    BY <1>6, <1>9, <1>10, <2>1, ZenonT(60) DEF ReaderStep
<1>11. QED
  BY <1>2, <1>3, <1>4, <1>8, <1>10, ZenonT(60) DEF Step

\* Only a read moves a reader that waits for one, and nothing one that is gone.
LEMMA ReaderMoves ==
  ASSUME Inv, Step, NEW c \in Conns, act[c].at \in {"gone", "read"}
  PROVE  act'[c] = act[c] \/ (act[c].at = "read" /\ (Dispatch(c) \/ ReadFail(c) \/ ReadTimeout(c)))
<1>0. act \in [Actors -> Act] /\ c \in Actors /\ c # User /\ c \notin Reqs
  BY Names, Zenon DEF Inv, TypeOK
<1>1. ASSUME NEW x \in Actors, x # c, NEW y, act' = [act EXCEPT ![x] = y] PROVE act'[c] = act[c]
  BY <1>0, <1>1, ZenonT(60)
<1>2. ASSUME NEW a \in Actors, ActorStep(a) PROVE act'[c] = act[c]
  <2>1. a # c
    BY <1>2, Zenon DEF ActorStep, SelectSend, SelectReleased, Unclaim, Drain, Delete, LoopSend,
       LoopEnd
  <2>2. CASE SelectSend(a) \/ SelectReleased(a) \/ Unclaim(a) \/ Drain(a)
    <3>1. \E l : act' = [act EXCEPT ![a].at = l]
      BY <2>2, Zenon DEF SelectSend, SelectReleased, Unclaim, Drain, Move
    <3>2. QED
      BY <1>0, <2>1, <3>1, ZenonT(60)
  <2>3. CASE Delete(a) \/ LoopSend(a) \/ LoopEnd(a)
    <3>1. \E y : act' = [act EXCEPT ![a] = y]
      BY <2>3, ZenonT(60) DEF Delete, LoopSend, LoopEnd, Close, SendData
    <3>2. QED
      BY <1>1, <2>1, <3>1, ZenonT(60)
  <2>4. QED
    BY <1>2, <2>2, <2>3, ZenonT(60) DEF ActorStep
<1>3. QED
  BY <1>2, OtherMoves, Zenon

\* One connection, and callers that wait for their answers.
Plain == scn.subs = {} /\ scn.ending = {} /\ scn.limited = {}

Single == (\A r \in Reqs : path[r] = Main) /\ (\A c \in Subs : act[c].at = "gone")

\* The session is in order: no failure has been met and it is not closed.
Kept == act[Main].job \notin {"fail", "redir"} /\ ~quit /\ conn[Main] = "up"

\* Main's reader is taking r's stream and then r itself out of the tables.
Retiring(r, places) == act[Main].on = r /\ act[Main].at \in places

Table(r) ==
  /\ act[r].job # "retry"
  /\ r \in pending[Main] => pc[r] \in {"write", "wait"} \/ Retiring(r, {"unclaim", "drain", "delete"})
  /\ entry[r] = "closing" => Retiring(r, {"drain"})
  /\ entry[r] = "closed" /\ r \in pending[Main] => Retiring(r, {"delete"})

IdleInv == Single /\ (Kept => \A r \in Reqs : Table(r))

LEMMA SingleStep ==
  ASSUME Inv, Single, Plain, Step, UNCHANGED scn
  PROVE  Single'
<1>1. ASSUME NEW c \in Subs PROVE act'[c].at = "gone"
  <2>1. c \in Conns /\ act[c].at = "gone"
    BY ZenonT(60) DEF Conns, Single
  <2>2. QED
    BY <2>1, ReaderMoves, Zenon
<1>2. path' = path \/ \E r \in Reqs, p \in FreePaths : Claim(r, p)
  BY ZenonT(60) DEF Step, CallerStep, CtxEnd, ServerStep, Register, writeRequest, RecvClosed,
     GiveUp, Answer, Return, WaitStep, WaitStop,
     WaitRetry, ActorStep, SelectSend, Receive, SelectReleased, Unclaim, Drain, Delete, LoopSend,
     LoopEnd, Close, ReaderStep,
     ReaderTop, Dispatch, ReadFail, ReadTimeout, Lose, UserClose, callVars
<1>3. ASSUME NEW r \in Reqs, NEW p \in FreePaths, Claim(r, p) PROVE \A q \in Reqs : path'[q] = Main
  <2>1. p = Main
    BY ZenonT(60) DEF FreePaths, Bound, Plain
  <2>2. QED
    BY <1>3, <2>1, ZenonT(60) DEF Claim, Return, Single, Inv, TypeOK
<1>4. QED
  BY <1>1, <1>2, <1>3, ZenonT(60) DEF Single

\* In a session in order only the reader handles responses.
LEMMA KeptReads ==
  ASSUME Inv, IdleInv, Kept, NEW a \in Actors, act[a].at \in {"select", "unclaim", "drain", "delete", "next"}
  PROVE  /\ a = Main /\ act[Main].job \in {"frame", "attn"} /\ act[Main].at # "next"
         /\ act[Main].on \in Reqs /\ Answerable(act[Main].on)
<1>1. Shape(a) /\ act[a].job \in Jobs
  BY ActFields, ZenonT(60) DEF Inv, Shapes
<1>2. act[a].job \notin {"fail", "redir"}
  BY <1>1, ZenonT(60) DEF Shape, Fits, Kept
<1>3. act[a].job # "close"
  BY <1>1, Zenon DEF Shape, Fits, Kept
<1>4. act[a].job # "retry"
  BY <1>1, Zenon DEF Shape, Fits, IdleInv, Table
<1>5. act[a].job \in {"frame", "attn"} /\ act[a].at # "next" /\ a \in Conns
  BY <1>1, <1>2, <1>3, <1>4, ZenonT(60) DEF Shape, Fits, Jobs
<1>6. a = Main
  BY <1>5, Zenon DEF IdleInv, Single, Conns
<1>7. Acting(a) /\ Delivery(a)
  BY <1>5, ZenonT(60) DEF Acting, Inv, Flow
<1>8. act[a].on \in Reqs
  BY <1>7, ActOn, ZenonT(60) DEF Inv
<1>9. QED
  BY <1>5, <1>6, <1>7, <1>8, Zenon DEF Delivery

\* What a session in order never does.
LEMMA KeptNever ==
  ASSUME Inv, IdleInv, Kept, Plain
  PROVE  /\ \A a \in Actors : ~SelectReleased(a) /\ ~LoopSend(a) /\ ~LoopEnd(a)
         /\ \A r \in Reqs : ~WriteMayFail(r) /\ ~GiveUp(r) /\ ~CtxEnd(r)
         /\ \A c \in Conns : act[c].at \in {"top", "read"} => c = Main
<1>1. ASSUME NEW a \in Actors PROVE ~SelectReleased(a)
  <2> SUFFICES ASSUME SelectReleased(a) PROVE FALSE
    BY ZenonT(60)
  <2>1. a = Main /\ act[Main].on \in Reqs /\ act[Main].at = "select" /\ entry[act[Main].on] = "closing"
    BY KeptReads, Zenon DEF SelectReleased, Kept
  <2>2. QED
    BY <2>1, ZenonT(60) DEF IdleInv, Table, Retiring
<1>2. ASSUME NEW a \in Actors PROVE ~LoopSend(a) /\ ~LoopEnd(a)
  BY KeptReads, ZenonT(60) DEF LoopSend, LoopEnd
<1>3. ASSUME NEW r \in Reqs PROVE ~WriteMayFail(r)
  BY ZenonT(60) DEF WriteMayFail, IdleInv, Single, Kept
<1>4. ASSUME NEW r \in Reqs PROVE ~GiveUp(r) /\ ~CtxEnd(r)
  BY Zenon DEF GiveUp, CtxEnd, Plain, Inv, TypeOK
<1>5. ASSUME NEW c \in Conns, act[c].at \in {"top", "read"} PROVE c = Main
  BY <1>5, ZenonT(60) DEF IdleInv, Single, Conns
<1>6. QED
  BY <1>1, <1>2, <1>3, <1>4, <1>5, ZenonT(60)

LEMMA KeptBefore ==
  ASSUME Inv, Step, Kept'
  PROVE  Kept
<1>1. ~quit
  BY ZenonT(60) DEF Kept, Step, CallerStep, CtxEnd, ServerStep, Claim, Register, writeRequest,
     RecvClosed, GiveUp, Answer, WaitStep,
     WaitStop, WaitRetry, ActorStep, SelectSend, SelectReleased, Unclaim, Drain, Delete, LoopSend,
     LoopEnd, Close, ReaderStep,
     ReaderTop, Dispatch, ReadFail, ReadTimeout, Lose, UserClose, sessVars
<1>2. conn[Main] = "up"
  <2>1. conn \in [Conns -> {"up", "lost", "down"}] /\ Main \in Conns /\ conn'[Main] = "up"
    BY Names, ZenonT(60) DEF Inv, TypeOK, Kept
  <2>2. \/ conn' = conn \/ conn' = [c \in Conns |-> IF c = Main THEN conn[c] ELSE "down"]
        \/ \E c \in Conns : conn' = [conn EXCEPT ![c] = "down"] \/ conn' = [conn EXCEPT ![c] = "lost"]
    BY <2>1, ZenonT(60) DEF Step, CallerStep, CtxEnd, ServerStep, Claim, Register, writeRequest,
       RecvClosed, GiveUp, Answer, WaitStep,
       WaitStop, WaitRetry, ActorStep, SelectSend, SelectReleased, Unclaim, Drain, Delete,
       LoopSend, LoopEnd, Close, ReaderStep,
       ReaderTop, Dispatch, ReadFail, ReadTimeout, handleReadError, Lose, UserClose
  <2>3. QED
    BY <2>1, <2>2, ZenonT(60)
<1>3. ASSUME act[Main].job \in {"fail", "redir"} PROVE FALSE
  <2>1. act[Main].at \in {"select", "next"}
    <3>1. Shape(Main) /\ act[Main].at \in Ats
      BY Names, ActFields, ZenonT(60) DEF Inv, Shapes
    <3>2. QED
      BY <1>3, <3>1, Zenon DEF Shape, Fits, Ats
  <2>2. ASSUME NEW a \in Actors, ActorStep(a) PROVE act'[Main].job = act[Main].job
    <3>0. act \in [Actors -> Act] /\ Main \in Actors
      BY Names, ZenonT(60) DEF Inv, TypeOK
    <3>1. CASE a # Main
      <4>1. CASE SelectSend(a) \/ SelectReleased(a) \/ Unclaim(a) \/ Drain(a)
        <5>1. \E l : act' = [act EXCEPT ![a].at = l]
          BY <4>1, ZenonT(60) DEF SelectSend, SelectReleased, Unclaim, Drain, Move
        <5>2. QED
          BY <3>0, <3>1, <5>1, ZenonT(60)
      <4>2. CASE Delete(a) \/ LoopSend(a) \/ LoopEnd(a)
        <5>1. \E y : act' = [act EXCEPT ![a] = y]
          BY <4>2, ZenonT(60) DEF Delete, LoopSend, LoopEnd, Close, SendData
        <5>2. QED
          BY <3>0, <3>1, <5>1, ZenonT(60)
      <4>3. QED
        BY <2>2, <4>1, <4>2, ZenonT(60) DEF ActorStep
    <3>2. CASE a = Main
      <4>1. CASE SelectSend(a) \/ SelectReleased(a)
        <5>1. Move(a, Sent(a))
          BY <4>1, ZenonT(60) DEF SelectSend, SelectReleased
        <5>2. QED
          BY <3>0, <3>2, <5>1, ZenonT(60) DEF Move, Act
      <4>2. CASE LoopSend(a)
        <5> DEFINE m == IF act[a].job = "redir" THEN "redirect" ELSE "error"
                   k == IF act[a].job = "close" THEN "unclaim" ELSE "next"
        <5>1. PICK r : SendData(a, act[a].job, r, m, act[a].todo \ {r}, k)
          BY <4>2, Zenon DEF LoopSend
        <5>2. QED
          BY <3>0, <3>2, <5>1, ZenonT(60) DEF SendData, Busy
      <4>3. CASE LoopEnd(a)
        BY <1>3, <3>2, <4>3, ZenonT(60) DEF LoopEnd, Close, Kept
      <4>4. QED
        BY <2>1, <2>2, <3>2, <4>1, <4>2, <4>3, ZenonT(60) DEF ActorStep, Unclaim, Drain, Delete
    <3>3. QED
      BY <3>1, <3>2, Zenon
  <2>3. ASSUME \A a \in Actors : ~ActorStep(a) PROVE act'[Main] = act[Main]
    <3>1. Main \in Conns /\ act[Main].at \notin {"top", "read"}
      BY <2>1, Names, ZenonT(60)
    <3>2. QED
      BY <2>3, <3>1, OtherMoves, ZenonT(60)
  <2>4. QED
    BY <1>3, <2>2, <2>3, ZenonT(60) DEF Kept
<1>4. QED
  BY <1>1, <1>2, <1>3, ZenonT(60) DEF Kept

\* Nothing moves but callers that go on waiting and the goroutines of kXR_wait.
LEMMA TableSame ==
  ASSUME \A q \in Reqs : Table(q), act'[Main] = act[Main], UNCHANGED <<entry, pending>>,
         \A q \in Reqs : act'[q].job # "retry",
         \A q \in Reqs : pc[q] \in {"write", "wait"} => pc'[q] \in {"write", "wait"}
  PROVE  \A q \in Reqs : Table(q)'
  BY ZenonT(60) DEF Table, Retiring

\* The reader was not retiring a request.
LEMMA TableFree ==
  ASSUME \A q \in Reqs : Table(q), act[Main].at \notin {"unclaim", "drain", "delete"}, UNCHANGED <<entry, pending>>,
         \A q \in Reqs : act'[q].job # "retry",
         \A q \in Reqs : pc'[q] = pc[q] \/ pc'[q] \in {"write", "wait"} \/ Retiring(q, {"unclaim"})'
  PROVE  \A q \in Reqs : Table(q)'
  BY ZenonT(60) DEF Table, Retiring

LEMMA KeptCaller ==
  ASSUME Inv, IdleInv, Plain, Kept, UNCHANGED scn, NEW r \in Reqs,
         (\E p \in FreePaths : Claim(r, p)) \/ CallerStep(r) \/ CtxEnd(r)
  PROVE  \A q \in Reqs : Table(q)'
<1>0. /\ TypeOK /\ \A q \in Reqs : Table(q)
  BY ZenonT(60) DEF Inv, IdleInv
<1>1. CASE \E p \in FreePaths : Claim(r, p)
  <2>1. /\ pc[r] = "new" /\ entry' = [entry EXCEPT ![r] = "claimed"] /\ pc' = [pc EXCEPT ![r] = "claimed"]
        /\ UNCHANGED <<pending, act>>
    BY <1>1, ZenonT(60) DEF Claim, Kept
  <2>2. entry'[r] = "claimed" /\ \A q \in Reqs : q # r => entry'[q] = entry[q] /\ pc'[q] = pc[q]
    BY <1>0, <2>1, ZenonT(60) DEF TypeOK
  <2>3. r \notin pending[Main]
    <3>1. ~Retiring(r, {"unclaim", "drain", "delete"})
      BY <2>1, KeptReads, Names, Zenon DEF Retiring, Answerable
    <3>2. QED
      BY <1>0, <2>1, <3>1, ZenonT(60) DEF Table
  <2>4. ASSUME NEW q \in Reqs PROVE Table(q)'
    <3>1. Table(q)
      BY <1>0, ZenonT(60)
    <3>2. CASE q = r
      BY <2>1, <2>2, <2>3, <3>1, <3>2, ZenonT(60) DEF Table
    <3>3. CASE q # r
      BY <2>1, <2>2, <3>1, <3>3, ZenonT(60) DEF Table, Retiring
    <3>4. QED
      BY <3>2, <3>3, ZenonT(60)
  <2>5. QED
    BY <2>4, ZenonT(60)
<1>2. CASE Register(r)
  <2>1. /\ pc[r] = "claimed" /\ pc' = [pc EXCEPT ![r] = "write"] /\ UNCHANGED <<entry, act>>
        /\ pending' = [pending EXCEPT ![Main] = @ \cup {r}]
    BY <1>2, Zenon DEF Register
  <2>2. /\ entry[r] = "claimed" /\ pending'[Main] = pending[Main] \cup {r} /\ pc'[r] = "write"
        /\ \A q \in Reqs : q # r => pc'[q] = pc[q]
    BY <1>0, <2>1, Names, ZenonT(60) DEF TypeOK, Inv, ClaimHeld, Kept
  <2>3. QED
    BY <1>0, <2>1, <2>2, ZenonT(60) DEF Table, Retiring
<1>3. CASE writeRequest(r)
  <2>1. pc' = [pc EXCEPT ![r] = "wait"] /\ UNCHANGED <<entry, pending, act>>
    BY <1>3, KeptNever, Zenon DEF writeRequest, sessVars
  <2>2. QED
    BY <1>0, <2>1, Names, TableSame, ZenonT(60) DEF TypeOK, Table
<1>4. CASE RecvClosed(r)
  <2>1. /\ pc' = [pc EXCEPT ![r] = "ret"] /\ UNCHANGED <<entry, pending, act>> /\ entry[r] = "closed"
    BY <1>4, ZenonT(60) DEF RecvClosed, Return, sessVars
  <2>2. \A q \in Reqs : q # r => pc'[q] = pc[q]
    BY <1>0, <2>1, ZenonT(60) DEF TypeOK
  <2>3. QED
    BY <1>0, <2>1, <2>2, ZenonT(60) DEF Table, Retiring
<1>5. QED
  BY <1>1, <1>2, <1>3, <1>4, KeptNever, ZenonT(60) DEF CallerStep

LEMMA KeptActor ==
  ASSUME Inv, IdleInv, Plain, Kept, UNCHANGED scn, NEW a \in Actors, ActorStep(a)
  PROVE  \A q \in Reqs : Table(q)'
<1>0. /\ TypeOK /\ Shapes /\ (\A q \in Reqs : Table(q)) /\ act \in [Actors -> Act] /\ Main \in Actors
  BY Names, ZenonT(60) DEF Inv, IdleInv, TypeOK
<1>1. SelectSend(a) \/ Unclaim(a) \/ Drain(a) \/ Delete(a)
  BY KeptNever, ZenonT(60) DEF ActorStep
<1>2. a = Main /\ act[Main].job \in {"frame", "attn"} /\ act[Main].on \in Reqs /\ Answerable(act[Main].on)
  BY <1>1, KeptReads, ZenonT(60) DEF SelectSend, Unclaim, Drain, Delete
<1>3. PICK r \in Reqs : r = act[Main].on
  BY <1>2, ZenonT(60)
<1>4. ASSUME NEW q \in Reqs, \E y : act' = [act EXCEPT ![Main] = y] PROVE act'[q] = act[q] /\ act'[q].job # "retry"
  BY <1>0, <1>4, Names, ZenonT(60) DEF Table
<1>5. ASSUME NEW l \in Ats, Move(Main, l)
      PROVE  /\ act'[Main].at = l /\ act'[Main].on = r /\ \A q \in Reqs : act'[q].job # "retry"
  <2>1. Goes(Main, l)
    BY <1>0, <1>5, MoveGoes, ZenonT(60)
  <2>2. \A q \in Reqs : act'[q] = act[q]
    BY <2>1, Names, ZenonT(60) DEF Goes, Becomes
  <2>3. QED
    BY <1>0, <1>3, <2>1, <2>2, Zenon DEF Goes, Becomes, Table
<1>6. CASE SelectSend(a)
  <2>1. Sent(Main) = (IF act[Main].msg = "sofar" THEN "top" ELSE "unclaim") /\ Sent(Main) \in Ats
    BY <1>2, ZenonT(60) DEF Sent, Ats
  <2>2. Move(Main, Sent(Main)) /\ act[Main].at = "select" /\ UNCHANGED <<entry, pending>>
    BY <1>2, <1>6, ZenonT(60) DEF SelectSend, sessVars
  <2>3. \A q \in Reqs : q # r => pc'[q] = pc[q]
    BY <1>0, <1>2, <1>3, <1>6 DEF SelectSend, Receive, Return, TypeOK
  <2>4. pc'[r] = pc[r] \/ act[Main].msg # "sofar"
    BY <1>0, <1>2, <1>3, <1>6, ZenonT(60) DEF SelectSend, Receive, Plain
  <2>5. pc'[r] = pc[r] \/ Retiring(r, {"unclaim"})'
    BY <1>5, <2>1, <2>2, <2>4, Zenon DEF Retiring
  <2>6. \A q \in Reqs : act'[q].job # "retry"
    BY <1>5, <2>1, <2>2, ZenonT(60)
  <2>7. QED
    BY <1>0, <2>2, <2>3, <2>5, <2>6, TableFree, ZenonT(60)
<1>7. CASE Unclaim(a)
  <2>1. act[Main].at = "unclaim" /\ UNCHANGED <<pc, pending>>
    BY <1>2, <1>7, Zenon DEF Unclaim, callVars
  <2>2. CASE entry[r] = "claimed"
    <3>1. Move(Main, "drain") /\ entry' = [entry EXCEPT ![r] = "closing"]
      BY <1>2, <1>3, <1>7, <2>2, ZenonT(60) DEF Unclaim
    <3>2. entry'[r] = "closing" /\ \A q \in Reqs : q # r => entry'[q] = entry[q]
      BY <1>0, <3>1, Zenon DEF TypeOK
    <3>3. act'[Main].at = "drain" /\ act'[Main].on = r /\ \A q \in Reqs : act'[q].job # "retry"
      BY <1>5, <3>1, ZenonT(60) DEF Ats
    <3>4. QED
      BY <1>0, <1>3, <2>1, <3>2, <3>3, ZenonT(60) DEF Table, Retiring
  <2>3. CASE entry[r] # "claimed"
    <3>1. Move(Main, "delete") /\ entry' = entry
      BY <1>2, <1>3, <1>7, <2>3, Zenon DEF Unclaim, Unclaimed
    <3>2. act'[Main].at = "delete" /\ act'[Main].on = r /\ \A q \in Reqs : act'[q].job # "retry"
      BY <1>5, <3>1, ZenonT(60) DEF Ats
    <3>3. QED
      BY <1>0, <1>3, <2>1, <3>1, <3>2, ZenonT(60) DEF Table, Retiring
  <2>4. QED
    BY <2>2, <2>3, ZenonT(60)
<1>8. CASE Drain(a)
  <2>1. act[Main].at = "drain" /\ UNCHANGED <<pc, pending>> /\ Move(Main, "delete") /\ entry' = [entry EXCEPT ![r] = "closed"]
    BY <1>2, <1>3, <1>8, Zenon DEF Drain, callVars, Unclaimed
  <2>2. entry'[r] = "closed" /\ \A q \in Reqs : q # r => entry'[q] = entry[q]
    BY <1>0, <2>1, ZenonT(60) DEF TypeOK
  <2>3. act'[Main].at = "delete" /\ act'[Main].on = r /\ \A q \in Reqs : act'[q].job # "retry"
    BY <1>5, <2>1, ZenonT(60) DEF Ats
  <2>4. QED
    BY <1>0, <1>3, <2>1, <2>2, <2>3, ZenonT(60) DEF Table, Retiring
<1>9. CASE Delete(a)
  <2>1. /\ act[Main].at = "delete" /\ UNCHANGED <<pc, entry>> /\ pending' = [pending EXCEPT ![Main] = @ \ {r}]
        /\ \E y : act' = [act EXCEPT ![Main] = y]
    BY <1>2, <1>3, <1>9, Names, ZenonT(60) DEF Delete, callVars
  <2>2. pending'[Main] = pending[Main] \ {r}
    BY <1>0, <2>1, Names, ZenonT(60) DEF TypeOK
  <2>3. \A q \in Reqs : act'[q].job # "retry"
    BY <1>4, <2>1, ZenonT(60)
  <2>4. QED
    BY <1>0, <1>3, <2>1, <2>2, <2>3, ZenonT(60) DEF Table, Retiring
<1>10. QED
  BY <1>1, <1>6, <1>7, <1>8, <1>9, ZenonT(60)

LEMMA KeptReader ==
  ASSUME Inv, IdleInv, Plain, Kept, Kept', UNCHANGED scn, NEW c \in Conns, ReaderStep(c) \/ ReadTimeout(c)
  PROVE  \A q \in Reqs : Table(q)'
<1>0. /\ TypeOK /\ (\A q \in Reqs : Table(q)) /\ act \in [Actors -> Act] /\ Main \in Actors
  BY Names, ZenonT(60) DEF Inv, IdleInv, TypeOK
<1>1. c = Main /\ act[Main].at \in {"top", "read"}
  BY KeptNever, ZenonT(60) DEF ReaderStep, ReaderTop, Dispatch, ReadFail, ReadTimeout
<1>2. UNCHANGED <<pc, entry, pending>>
  BY ZenonT(60) DEF ReaderStep, ReaderTop, Dispatch, ReadFail, ReadTimeout, callVars, sessVars
<1>3. \A q \in Reqs : act'[q].job # "retry"
  <2>1. CASE Dispatch(c)
    <3>1. /\ Shapes'
          /\ \E r \in Reqs : /\ act'[r] = act[r] \/ act'[r].at = "timer"
                            /\ \A b \in Actors : b # c /\ b # r => act'[b] = act[b]
      BY <2>1, DispatchMoves, Zenon
    <3>2. QED
      BY <1>0, <3>1, Names DEF Table, Shapes, Shape, Fits
  <2>2. CASE ~Dispatch(c)
    <3>1. \E y : act' = [act EXCEPT ![Main] = y]
      BY <1>1, <2>2, Zenon DEF ReaderStep, ReaderTop, ReadFail, ReadTimeout, handleReadError
    <3>2. QED
      BY <1>0, <3>1, Names, ZenonT(60) DEF Table
  <2>3. QED
    BY <2>1, <2>2, ZenonT(60)
<1>4. QED
  BY <1>0, <1>1, <1>2, <1>3, TableFree, ZenonT(60)

LEMMA IdleStep ==
  ASSUME Inv, IdleInv, Plain, [Next]_vars
  PROVE  IdleInv'
<1>1. ASSUME UNCHANGED vars PROVE IdleInv'
  BY <1>1, Zenon DEF IdleInv, Single, Kept, Table, Retiring, vars, stepVars, callVars, sessVars
<1> SUFFICES ASSUME Step, UNCHANGED scn PROVE IdleInv'
  BY <1>1, Zenon DEF Next
<1>2. Single'
  BY SingleStep, ZenonT(60) DEF IdleInv
<1> SUFFICES ASSUME Kept' PROVE \A q \in Reqs : Table(q)'
  BY <1>2, Zenon DEF IdleInv
<1>3. Kept /\ TypeOK /\ \A q \in Reqs : Table(q)
  BY KeptBefore, ZenonT(60) DEF IdleInv, Inv
<1>4. ASSUME NEW r \in Reqs, (\E p \in FreePaths : Claim(r, p)) \/ CallerStep(r) \/ CtxEnd(r)
      PROVE  \A q \in Reqs : Table(q)'
  BY <1>3, <1>4, KeptCaller, ZenonT(60)
<1>5. ASSUME NEW r \in Reqs, WaitStep(r) PROVE \A q \in Reqs : Table(q)'
  <2>1. act' = [act EXCEPT ![r] = At("idle")] /\ UNCHANGED <<pc, entry, pending>>
    BY <1>3, <1>5, KeptNever, ZenonT(60) DEF WaitStep, WaitStop, WaitRetry, callVars, sessVars
  <2>2. act'[Main] = act[Main] /\ \A q \in Reqs : q # r => act'[q] = act[q]
    BY <1>3, <2>1, Names, ZenonT(60) DEF TypeOK
  <2>3. act'[r].job = "none"
    BY <1>3, <2>1, Names, Zenon DEF TypeOK, At, Busy
  <2>4. QED
    BY <1>3, <2>1, <2>2, <2>3, TableSame, Zenon DEF Table
<1>6. ASSUME UNCHANGED <<pc, entry, pending, act>> PROVE \A q \in Reqs : Table(q)'
  BY <1>3, <1>6, TableSame, Zenon DEF Table
<1>7. ASSUME NEW r \in Reqs, ServerStep(r) PROVE \A q \in Reqs : Table(q)'
  BY <1>6, <1>7, Zenon DEF ServerStep, Answer, callVars, sessVars
<1>8. ASSUME NEW c \in Conns, Lose(c) PROVE \A q \in Reqs : Table(q)'
  BY <1>6, <1>8, ZenonT(60) DEF Lose, callVars, sessVars
<1>9. ASSUME NEW c \in Conns, ReaderStep(c) \/ ReadTimeout(c) PROVE \A q \in Reqs : Table(q)'
  BY <1>3, <1>9, KeptReader, Zenon
<1>10. ASSUME NEW a \in Actors, ActorStep(a) PROVE \A q \in Reqs : Table(q)'
  BY <1>3, <1>10, KeptActor, ZenonT(60)
<1>11. ~UserClose
  BY Zenon DEF UserClose, Close, Kept
<1>12. QED
  BY <1>4, <1>5, <1>7, <1>8, <1>9, <1>10, <1>11, ZenonT(60) DEF Step

LEMMA IdleHolds ==
  ASSUME Counting, \A s \in Scenarios : s.subs = {} /\ s.ending = {} /\ s.limited = {}
  PROVE  Spec => IdleKept
<1> DEFINE Held ==
      \A c \in Conns : act[c].at = "read" /\ conn[c] = "up" /\ act'[c].job \in {"fail", "redir"} =>
        \E r \in Reqs : pc[r] \in {"write", "wait"}
<1>1. Inv => Plain
  BY Zenon DEF Inv, TypeOK, Plain
<1>2. Init => IdleInv
  <2> SUFFICES ASSUME Init PROVE IdleInv
    BY Zenon
  <2>1. Bound = {Main}
    BY ZenonT(60) DEF Init, Bound
  <2>2. Main \notin Subs /\ Subs \subseteq Conns
    BY SessionAssumption, ZenonT(60) DEF Conns
  <2>3. \A l \in {"top", "gone", "idle"} : At(l).at = l /\ At(l).job = "none"
    BY ZenonT(60) DEF At, Busy
  <2>4. \A c \in Subs : act[c].at = "gone"
    BY <2>1, <2>2, <2>3, Names, ZenonT(60) DEF Init
  <2>5. \A r \in Reqs : act[r].job = "none"
    BY <2>3, Names, ZenonT(60) DEF Init
  <2>6. QED
    BY <2>4, <2>5, Names, ZenonT(60) DEF Init, IdleInv, Single, Table
<1>3. Inv /\ IdleInv /\ [Next]_vars => IdleInv'
  BY <1>1, IdleStep, ZenonT(60)
<1>4. Inv /\ QuitInv /\ IdleInv /\ [Next]_vars => [Held]_vars
  <2> SUFFICES ASSUME Inv, QuitInv, IdleInv, Step, NEW c \in Conns, act[c].at = "read", conn[c] = "up",
                      act'[c].job \in {"fail", "redir"}
               PROVE  \E r \in Reqs : pc[r] \in {"write", "wait"}
    BY ZenonT(60) DEF Next
  <2>1. act[c].job = "none" /\ c = Main /\ act \in [Actors -> Act] /\ c \in Actors
    BY Names, ZenonT(60) DEF Inv, Shapes, Shape, Fits, IdleInv, Single, Conns, TypeOK
  <2>2. ~Dispatch(c)
    <3> SUFFICES ASSUME Dispatch(c) PROVE FALSE
      BY Zenon
    <3>1. /\ Shapes' /\ act'[c].at \in {"top", "select", "unclaim"} /\ (Acting(c)' => Reading(c)')
      BY DispatchMoves, Zenon
    <3>2. QED
      BY <2>1, <3>1, Zenon DEF Shapes, Shape, Fits, Acting, Reading
  <2>3. ReadFail(c) \/ ReadTimeout(c)
    BY <2>1, <2>2, ReaderMoves, Zenon
  <2>4. ~CtxDone(c)
    <3>1. At("gone").job = "none"
      BY Zenon DEF At, Busy
    <3>2. CtxDone(c) => act' = [act EXCEPT ![c] = At("gone")]
      BY <2>3, Zenon DEF ReadFail, ReadTimeout
    <3>3. QED
      BY <2>1, <3>1, <3>2, ZenonT(60)
  <2>5. pending[c] # {}
    BY <2>3, <2>4, ZenonT(60) DEF ReadFail, ReadTimeout
  <2>6. Kept
    BY <2>1, <2>4, ZenonT(60) DEF Kept, CtxDone, QuitInv
  <2>7. PICK r \in Reqs : r \in pending[Main]
    BY <2>1, <2>5, Zenon DEF Inv, TypeOK
  <2>8. QED
    BY <2>1, <2>6, <2>7, ZenonT(60) DEF IdleInv, Table, Retiring
<1>5. (Spec => []Inv) /\ (Spec => []QuitInv)
  BY Invariant, QuitInvariant, Zenon
<1>6. Spec => [][Held]_vars
  BY <1>2, <1>3, <1>4, <1>5, PTL DEF Spec
<1>7. QED
  BY <1>6, ZenonT(60) DEF IdleKept

-----------------------------------------------------------------------------
(* Counting the parts in transit.  The library of finite sets is brought   *)
(* in only here.                                                           *)
INSTANCE FunctionTheorems
INSTANCE FiniteSetTheorems

LEMMA MineType ==
  ASSUME NEW s \in Seq(Frames), NEW r
  PROVE  IsFiniteSet(Mine(s, r)) /\ Count(s, r) \in Nat
<1>1. Mine(s, r) \subseteq 1 .. Len(s) /\ Len(s) \in Nat
  BY DEF Mine
<1>2. IsFiniteSet(1 .. Len(s))
  BY <1>1, FS_Interval
<1>3. IsFiniteSet(Mine(s, r))
  BY <1>1, <1>2, FS_Subset, ZenonT(60)
<1>4. QED
  BY <1>3, FS_CardinalityType, ZenonT(60) DEF Count

LEMMA MineNone ==
  ASSUME NEW s \in Seq(Frames), NEW r, \A i \in DOMAIN s : s[i].on # r
  PROVE  Count(s, r) = 0
<1>1. Mine(s, r) = {}
  BY Zenon DEF Mine, IsPart
<1>2. QED
  BY <1>1, FS_EmptySet, ZenonT(60) DEF Count

LEMMA MineAppend ==
  ASSUME NEW s \in Seq(Frames), NEW f \in Frames, NEW r
  PROVE  Count(Append(s, f), r) = Count(s, r) + (IF IsPart(f, r) THEN 1 ELSE 0)
<1> DEFINE n == Len(s) + 1
           u == Append(s, f)
<1>1. /\ n \in Nat /\ DOMAIN u = 1 .. n /\ DOMAIN s = 1 .. Len(s) /\ Len(s) \in Nat
      /\ u[n] = f /\ \A i \in 1 .. Len(s) : u[i] = s[i]
  BY AppendFacts
<1> HIDE DEF n, u
<1>2. n = Len(s) + 1
  BY Zenon DEF n
<1>3. IsFiniteSet(Mine(s, r)) /\ Count(s, r) \in Nat /\ n \notin Mine(s, r)
  <2>1. n \notin Mine(s, r)
    BY <1>1, <1>2 DEF Mine
  <2>2. QED
    BY <2>1, MineType, ZenonT(60)
<1>4. CASE IsPart(f, r)
  <2>1. Mine(u, r) = Mine(s, r) \cup {n}
    BY <1>1, <1>2, <1>4 DEF Mine
  <2>2. QED
    BY <1>3, <1>4, <2>1, FS_AddElement, ZenonT(60) DEF Count, u
<1>5. CASE ~IsPart(f, r)
  <2>1. Mine(u, r) = Mine(s, r)
    BY <1>1, <1>2, <1>5 DEF Mine
  <2>2. QED
    BY <1>3, <1>5, <2>1 DEF Count, u
<1>6. QED
  BY <1>4, <1>5, ZenonT(60)

LEMMA MineTail ==
  ASSUME NEW s \in Seq(Frames), s # <<>>, NEW r
  PROVE  Count(s, r) = Count(Tail(s), r) + (IF IsPart(Head(s), r) THEN 1 ELSE 0)
<1> DEFINE A == Mine(Tail(s), r)
           B == {i \in Mine(s, r) : i # 1}
           g == [i \in A |-> i + 1]
<1>1. /\ Tail(s) \in Seq(Frames) /\ Head(s) = s[1] /\ 1 \in DOMAIN s
      /\ DOMAIN s = 1 .. Len(s) /\ Len(s) \in Nat /\ Len(s) >= 1
      /\ DOMAIN Tail(s) = 1 .. (Len(s) - 1)
      /\ \A i \in 1 .. (Len(s) - 1) : Tail(s)[i] = s[i + 1]
  BY TailFacts, Zenon
<1>2. IsFiniteSet(A) /\ Cardinality(A) \in Nat
  BY <1>1, MineType, ZenonT(60) DEF Count
<1>3. \A i \in A : i \in Nat /\ i + 1 \in B
  BY <1>1 DEF Mine
<1>4. \A j \in B : j - 1 \in A /\ j - 1 + 1 = j
  BY <1>1 DEF Mine
<1>5. g \in Bijection(A, B)
  <2>1. g \in [A -> B]
    BY <1>3, ZenonT(60)
  <2>2. \A i, k \in A : g[i] = g[k] => i = k
    BY <1>3
  <2>3. \A j \in B : \E i \in A : g[i] = j
    <3> TAKE j \in B
    <3>1. j - 1 \in A /\ g[j - 1] = j
      BY <1>4, Zenon
    <3>2. QED
      BY <3>1, Zenon
  <2> HIDE DEF A, B, g
  <2>4. QED
    BY <2>1, <2>2, <2>3, Fun_IsBij, ZenonT(60)
<1>6. ExistsBijection(A, B)
  BY <1>5, ZenonT(60) DEF ExistsBijection
<1>7. IsFiniteSet(B) /\ Cardinality(B) = Cardinality(A)
  BY <1>2, <1>6, FS_Bijection, ZenonT(60)
<1>8. CASE IsPart(Head(s), r)
  <2>1. Mine(s, r) = B \cup {1} /\ 1 \notin B
    BY <1>1, <1>8, ZenonT(60) DEF Mine
  <2>2. QED
    BY <1>2, <1>7, <1>8, <2>1, FS_AddElement, ZenonT(60) DEF Count
<1>9. CASE ~IsPart(Head(s), r)
  <2>1. Mine(s, r) = B
    BY <1>1, <1>9, ZenonT(60) DEF Mine
  <2> HIDE DEF A, B
  <2>2. Cardinality(Mine(s, r)) = Cardinality(A)
    BY <1>7, <2>1, ZenonT(60)
  <2>3. QED
    BY <1>2, <1>9, <2>2 DEF Count, A
<1>10. QED
  BY <1>8, <1>9, ZenonT(60)

LEMMA Counted == Counting
BY MineType, MineNone, MineAppend, MineTail, ZenonT(60) DEF Counting

-----------------------------------------------------------------------------
(* The theorems. *)

(***************************************************************************)
(* The state of a session keeps its types: no response goes to a stream    *)
(* nobody asked for, no goroutine delivers what is not a response, and no  *)
(* count of parts runs past what a response may have.                      *)
(***************************************************************************)
THEOREM TypeCorrect == Spec => []TypeOK
<1>1. Inv => TypeOK
  BY Zenon DEF Inv
<1>2. Spec => []Inv
  BY Counted, Invariant, ZenonT(60)
<1>3. QED
  BY <1>1, <1>2, PTL

(***************************************************************************)
(* consume: "Whatever is still waiting is released by the close itself".   *)
(* As long as the context the session was opened in outlives it, a reader  *)
(* that has returned leaves no caller waiting on a claimed stream, however *)
(* Close, handleReadError and the callers of Send are interleaved.  Where  *)
(* that context can end, the reader returns without closing anything.      *)
(***************************************************************************)
THEOREM NobodyIsOrphaned == Spec => [](scn.opener \cap scn.ending = {} => NoOrphan)
BY Counted, NoOrphans, ZenonT(60)

(***************************************************************************)
(* On a session that is not closed under its callers, keeps its            *)
(* connections and has no stream timeout, a request that succeeds has      *)
(* every part of a response the server ended, whatever the interleaving of *)
(* the readers, kXR_wait, asynchronous responses and abandoned streams.    *)
(* Close breaks it: it makes send return success on what has arrived.      *)
(***************************************************************************)
THEOREM SuccessesAreComplete ==
  Spec => [](~scn.canClose /\ ~scn.canLose /\ ~scn.canTimeout => SuccessIsComplete)
BY Counted, CalmHolds, ZenonT(60)

(***************************************************************************)
(* WithStreamTimeout: "An idle connection is not affected."  In a session  *)
(* without data connections, whose callers neither give up nor limit their *)
(* response, the read deadline only tears a connection down while a        *)
(* request written to it still waits for its answer: every path by which   *)
(* a request ends takes it out of the table consume looks at.  A caller    *)
(* that gives up, or a response on a data connection, leaves it there.     *)
(***************************************************************************)
THEOREM IdleIsKept ==
  ASSUME \A s \in Scenarios : s.subs = {} /\ s.ending = {} /\ s.limited = {}
  PROVE  Spec => IdleKept
BY Counted, IdleHolds, Zenon

=============================================================================
