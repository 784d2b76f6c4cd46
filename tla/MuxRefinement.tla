--------------------------- MODULE MuxRefinement ---------------------------
(* The proof that the Mux implements Streams, for every number of           *)
(* goroutines, ids and waiters.  It rests on the invariant of MuxProofs.    *)
EXTENDS MuxProofs

\* A step that leaves the map, the channels and the allocation alone leaves
\* every stream where it is in its life.
LEMMA PhaseStays ==
  ASSUME UNCHANGED <<dataWaiters, ch, allocated>>
  PROVE  Phase' = Phase
BY DEF Phase

\* A step moves one stream on when it leaves the others where they are.
LEMMA PhaseMoves ==
  ASSUME NEW w0 \in Waiters, NEW p, Phase'[w0] = p,
         \A w \in Waiters \ {w0} : Phase'[w] = Phase[w]
  PROVE  Phase' = [Phase EXCEPT ![w0] = p]
<1>1. Phase = [w \in Waiters |-> Phase[w]] /\ Phase' = [w \in Waiters |-> Phase'[w]]
  BY Zenon DEF Phase
<1>2. [Phase EXCEPT ![w0] = p] = [w \in Waiters |-> IF w = w0 THEN p ELSE Phase[w]]
  BY <1>1, Zenon
<1>3. [w \in Waiters |-> Phase'[w]] = [w \in Waiters |-> IF w = w0 THEN p ELSE Phase[w]]
  BY Zenon
<1> QED
  BY <1>1, <1>2, <1>3, Zenon

\* A registration opens a stream.
LEMMA RegisterOpens ==
  ASSUME IInv, NEW c \in Callers, NEW id \in IDs,
         ~closed, dataWaiters[id] = Nil, Register(c, id)
  PROVE  Abs!Open(id, allocated + 1)
<1> DEFINE n == allocated + 1
<1>1. n \in Waiters /\ allocated \in Nat
  BY MuxAssumption DEF Register, IInv, TypeOK, Waiters, MuxAssumption
<1>2. ~ch[n] /\ \A i \in IDs : dataWaiters[i] # n
  BY <1>1 DEF IInv, InvFresh, TypeOK, Waiters, Nil
<1>3. Phase[n] = "new"
  BY <1>1, <1>2 DEF Phase
<1>4. /\ dataWaiters' = [dataWaiters EXCEPT ![id] = n]
      /\ allocated' = n /\ ch' = ch /\ sending' = sending /\ closed' = closed
  BY DEF Register
<1>5. \A w \in Waiters \ {n} :
        (\E i \in IDs : dataWaiters'[i] = w) <=> (\E i \in IDs : dataWaiters[i] = w)
  BY <1>4 DEF IInv, TypeOK, Waiters, Nil
<1>6. \A w \in Waiters \ {n} : Phase'[w] = Phase[w]
  <2>1. \A w \in Waiters \ {n} : w > allocated' <=> w > allocated
    BY <1>1, <1>4 DEF Waiters
  <2> QED
    BY <1>4, <1>5, <2>1 DEF Phase
<1>7. Phase'[n] = "open"
  <2>1. dataWaiters'[id] = n
    BY <1>4 DEF IInv, TypeOK
  <2> QED
    BY <1>1, <1>2, <1>4, <2>1 DEF Phase
<1>8. Phase' = [Phase EXCEPT ![n] = "open"]
  BY <1>1, <1>6, <1>7, PhaseMoves
<1> QED
  BY <1>3, <1>4, <1>8 DEF Abs!Open

\* What the map holds is open: nobody has begun to retire it.
LEMMA HeldIsOpen ==
  ASSUME IInv, NEW id \in IDs, dataWaiters[id] # Nil
  PROVE  dataWaiters[id] \in Waiters /\ Phase[dataWaiters[id]] = "open"
<1>1. dataWaiters[id] \in Waiters /\ dataWaiters[id] <= allocated /\ allocated \in Nat
  BY DEF IInv, TypeOK, InvFresh
<1>2. ~ch[dataWaiters[id]]
  BY <1>1 DEF IInv, InvMap, InvUnclaim
<1>3. ~(dataWaiters[id] > allocated)
  BY <1>1 DEF Waiters
<1> QED
  BY <1>1, <1>2, <1>3 DEF Phase

\* The lookup of SendData begins a delivery, or does nothing.
LEMMA LookupBegins ==
  ASSUME IInv, NEW t \in Workers, NEW id \in IDs, NEW missing, Lookup(t, id, missing),
         UNCHANGED <<muxVars, allocated, done, ch, ids>>
  PROVE  \/ \E w \in Waiters : Abs!BeginDelivery(w, t)
         \/ UNCHANGED Abs!streamVars
<1>1. Phase' = Phase /\ dataWaiters' = dataWaiters /\ closed' = closed
  BY PhaseStays DEF muxVars
<1>2. CASE dataWaiters[id] = Nil
  BY <1>1, <1>2 DEF Lookup, Abs!streamVars
<1>3. CASE dataWaiters[id] # Nil
  <2>1. sending' = [sending EXCEPT ![dataWaiters[id]] = @ \cup {t}]
    BY <1>3 DEF Lookup
  <2>2. dataWaiters[id] \in Waiters /\ Phase[dataWaiters[id]] = "open"
    BY <1>3, HeldIsOpen
  <2> QED
    BY <1>1, <2>1, <2>2 DEF Abs!BeginDelivery
<1> QED
  BY <1>2, <1>3

\* The deferred sending.Done ends one.
LEMMA SendDoneEnds ==
  ASSUME IInv, NEW t \in Workers, SendDone(t)
  PROVE  \E w \in Waiters : Abs!EndDelivery(w, t)
<1>1. Phase' = Phase /\ dataWaiters' = dataWaiters /\ closed' = closed
  BY PhaseStays DEF SendDone, muxVars
<1>2. cur[t] \in Waiters /\ t \in sending[cur[t]]
  BY DEF SendDone, IInv, TypeOK, InvSending, Proc
<1> QED
  BY <1>1, <1>2 DEF SendDone, Abs!EndDelivery

\* Unclaim's section under the mutex retires a stream, or finds none.
LEMMA RemoveRetires ==
  ASSUME IInv, NEW t \in Workers, NEW id \in IDs, NEW rest, Remove(t, id, rest)
  PROVE  Abs!Retire(id) \/ UNCHANGED Abs!streamVars
<1>1. /\ dataWaiters' = [dataWaiters EXCEPT ![id] = Nil]
      /\ ch' = ch /\ allocated' = allocated /\ sending' = sending /\ closed' = closed
  BY DEF Remove, waiterVars
<1>2. CASE dataWaiters[id] = Nil
  <2>1. dataWaiters' = dataWaiters
    BY <1>1, <1>2 DEF IInv, TypeOK
  <2> QED
    BY <1>1, <2>1, PhaseStays DEF Abs!streamVars
<1>3. CASE dataWaiters[id] # Nil
  <2> DEFINE w0 == dataWaiters[id]
  <2>1. w0 \in Waiters /\ w0 <= allocated /\ allocated \in Nat /\ ~ch[w0]
    BY <1>3 DEF IInv, TypeOK, InvFresh, InvMap, InvUnclaim
  <2>2. \A i \in IDs : dataWaiters'[i] # w0
    BY <1>1, <1>3, <2>1 DEF IInv, TypeOK, InvMap, Waiters, Nil
  <2>3. Phase'[w0] = "closing"
    <3>1. ~(w0 > allocated)
      BY <2>1 DEF Waiters
    <3> QED
      BY <1>1, <2>1, <2>2, <3>1 DEF Phase
  <2>4. \A w \in Waiters \ {w0} :
          (\E i \in IDs : dataWaiters'[i] = w) <=> (\E i \in IDs : dataWaiters[i] = w)
    BY <1>1 DEF IInv, TypeOK, Waiters, Nil
  <2>5. \A w \in Waiters \ {w0} : Phase'[w] = Phase[w]
    BY <1>1, <2>4 DEF Phase
  <2>6. Phase' = [Phase EXCEPT ![w0] = "closing"]
    BY <2>1, <2>3, <2>5, PhaseMoves
  <2> QED
    BY <1>1, <1>3, <2>6 DEF Abs!Retire
<1> QED
  BY <1>2, <1>3

\* Closing the channel finishes the stream: no delivery to it is in flight.
LEMMA CloseChFinishes ==
  ASSUME IInv, NEW t \in Workers, CloseCh(t)
  PROVE  \E w \in Waiters : Abs!Finish(w)
<1> DEFINE w0 == cur[t]
<1>1. /\ w0 \in Waiters /\ ~ch[w0] /\ sending[w0] = {} /\ Unclaiming(t, w0)
      /\ w0 <= allocated /\ allocated \in Nat
  BY DEF CloseCh, IInv, TypeOK, InvUnclaim, InvFresh, Unclaiming, Proc
<1>2. \A i \in IDs : dataWaiters[i] # w0
  BY <1>1 DEF IInv, InvMap, Waiters, Nil
<1>3. ~(w0 > allocated)
  BY <1>1 DEF Waiters
<1>4. Phase[w0] = "closing"
  BY <1>1, <1>2, <1>3 DEF Phase
<1>5. /\ ch' = [ch EXCEPT ![w0] = TRUE]
      /\ UNCHANGED <<dataWaiters, allocated, sending, closed>>
  BY DEF CloseCh, muxVars
<1>6. ch'[w0] /\ \A w \in Waiters \ {w0} : ch'[w] = ch[w]
  BY <1>1, <1>5 DEF IInv, TypeOK
<1>7. Phase'[w0] = "closed" /\ \A w \in Waiters \ {w0} : Phase'[w] = Phase[w]
  BY <1>1, <1>5, <1>6 DEF Phase
<1>8. Phase' = [Phase EXCEPT ![w0] = "closed"]
  BY <1>1, <1>7, PhaseMoves
<1> QED
  BY <1>1, <1>4, <1>5, <1>8 DEF Abs!Finish

\* A step that touches neither the map nor a waiter is none of a Streams.
LEMMA FrameStutters ==
  ASSUME UNCHANGED <<dataWaiters, closed>>, UNCHANGED waiterVars
  PROVE  UNCHANGED Abs!streamVars
BY PhaseStays DEF waiterVars, Abs!streamVars

\* Every step of a goroutine is a step of a Streams, or none.
LEMMA StepRefines == IInv /\ [Next]_vars => [Abs!Next]_(Abs!streamVars)
<1> DEFINE Goal == Abs!Next \/ UNCHANGED Abs!streamVars
<1> SUFFICES ASSUME IInv, [Next]_vars PROVE Goal
  OBVIOUS
<1>1. ASSUME Feed \/ FeedQuit \/ UNCHANGED vars PROVE Goal
  BY <1>1, FrameStutters DEF Feed, FeedQuit, vars, muxVars
<1>2. ASSUME NEW c \in Callers, NEW id \in IDs, ~closed, dataWaiters[id] = Nil,
             Register(c, id)
      PROVE  Goal
  <2>1. allocated + 1 \in Waiters
    BY <1>2, MuxAssumption DEF Register, IInv, TypeOK, Waiters, MuxAssumption
  <2> QED
    BY <1>2, <2>1, RegisterOpens DEF Abs!Next
<1>3. ASSUME NEW c \in Callers, CallerStep(c) PROVE Goal
  <2>1. arg[c] \in IDs
    BY DEF IInv, TypeOK, Proc
  <2>2. ASSUME Leave(c) PROVE Goal
    BY <2>2, FrameStutters DEF Leave, muxVars
  <2>3. ASSUME ClaimBegin(c) \/ ClaimTake(c) PROVE Goal
    BY <2>3, FrameStutters DEF ClaimBegin, ClaimTake, muxVars
  <2>4. ASSUME Claim(c) PROVE Goal
    <3>1. ASSUME UNCHANGED <<muxVars, waiterVars, arg, cur, ids>> PROVE Goal
      BY <3>1, FrameStutters DEF muxVars
    <3> QED
      BY <1>2, <2>1, <2>2, <2>4, <3>1 DEF Claim
  <2>5. ASSUME NEW id \in IDs, ClaimWithID(c, id) PROVE Goal
    BY <1>2, <2>5 DEF ClaimWithID
  <2> QED
    BY <1>3, <2>2, <2>3, <2>4, <2>5 DEF CallerStep, RecvClosed, GoAway
<1>4. ASSUME NEW t \in Workers, WorkerStep(t) \/ WorkerStart(t) PROVE Goal
  <2>1. ASSUME NEW id \in IDs, SendData(t, id) \/ CloseSend(t, id) PROVE Goal
    BY <2>1, LookupBegins DEF SendData, CloseSend, Abs!Next
  <2>2. ASSUME SendDone(t) PROVE Goal
    BY <2>2, SendDoneEnds DEF Abs!Next
  <2>3. ASSUME NEW id \in IDs, NEW rest, Remove(t, id, rest) PROVE Goal
    BY <2>3, RemoveRetires DEF Abs!Next
  <2>4. ASSUME CloseUnclaim(t) \/ \E id \in IDs : Unclaim(t, id) PROVE Goal
    <3>1. arg[t] \in IDs
      BY DEF IInv, TypeOK, Proc
    <3> QED
      BY <2>3, <2>4, <3>1 DEF CloseUnclaim, Unclaim
  <2>5. ASSUME CloseCh(t) PROVE Goal
    BY <2>5, CloseChFinishes DEF Abs!Next
  <2>6. ASSUME Close(t) PROVE Goal
    <3>1. ~closed /\ closed' = TRUE /\ UNCHANGED <<dataWaiters, sending>>
      BY <2>6 DEF Close, waiterVars
    <3>2. Phase' = Phase
      BY <2>6, PhaseStays DEF Close, waiterVars
    <3> QED
      BY <3>1, <3>2 DEF Abs!Next, Abs!Shut
  <2>7. ASSUME SelectReleased(t) \/ Wait(t) \/ CloseQuit(t)
               \/ \E c \in Callers : SelectSend(t, c)
        PROVE  Goal
    BY <2>7, FrameStutters DEF SelectReleased, SelectSend, Wait, CloseQuit, muxVars
  <2>8. ASSUME Release(t) PROVE Goal
    BY <2>8, PhaseStays DEF Release, muxVars, Abs!streamVars
  <2> QED
    BY <1>4, <2>1, <2>2, <2>4, <2>5, <2>6, <2>7, <2>8 DEF WorkerStep, WorkerStart
<1> QED
  BY <1>1, <1>3, <1>4 DEF Next

(***************************************************************************)
(* The Mux, with its goroutines, its mutex and its channels, implements    *)
(* Streams: an id has one stream at a time, no delivery begins on one that *)
(* is being retired, a channel is closed once and after the last delivery  *)
(* has left, and a closed Mux opens no stream.                             *)
(***************************************************************************)
THEOREM Implements == Spec => IsStreams
<1>1. Init => Abs!Init
  BY MuxAssumption DEF Init, Abs!Init, Phase, Waiters, Nil, MuxAssumption
<1>2. IInv /\ [Next]_vars => [Abs!Next]_(Abs!streamVars)
  BY StepRefines
<1> QED
  BY <1>1, <1>2, IInvAlways, PTL DEF Spec, IsStreams, Abs!Spec

=============================================================================
