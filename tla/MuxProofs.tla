----------------------------- MODULE MuxProofs -----------------------------
(* Proofs about Mux, for every number of goroutines, ids and waiters. *)
EXTENDS Mux, TLAPS

-----------------------------------------------------------------------------
(* Type correctness: first the operators several actions share. *)

\* A caller that leaves Claim or its receive keeps the types.
LEMMA LeaveType ==
  ASSUME TypeOK, NEW c \in Callers, Leave(c)
  PROVE  TypeOK'
BY MuxAssumption DEF MuxAssumption, TypeOK, Proc, IDs, Waiters, Nil, CallerPC, WorkerPC,
   Goto, muxVars, waiterVars, Leave

\* A registration allocates a waiter within the bound.
LEMMA RegisterType ==
  ASSUME TypeOK, NEW c \in Callers, NEW id \in IDs, Register(c, id)
  PROVE  TypeOK'
BY MuxAssumption DEF MuxAssumption, TypeOK, Proc, IDs, Waiters, Nil, CallerPC, WorkerPC,
   Goto, Register

\* The lookup of SendData registers the worker with the waiter it finds.
LEMMA LookupType ==
  ASSUME TypeOK, NEW t \in Workers, NEW id \in IDs, NEW missing \in WorkerPC,
         Lookup(t, id, missing), UNCHANGED <<muxVars, allocated, done, ch, ids>>
  PROVE  TypeOK'
<1> USE MuxAssumption DEF MuxAssumption, TypeOK, Proc, IDs, Waiters, Nil, CallerPC, WorkerPC,
      Goto, muxVars, Lookup
<1>1. arg' \in [Proc -> IDs] /\ cur' \in [Proc -> Waiters \cup {Nil}]
  OBVIOUS
<1>2. sending' \in [Waiters -> SUBSET Workers]
  <2>1. CASE dataWaiters[id] = Nil
    BY <2>1
  <2>2. CASE dataWaiters[id] # Nil
    <3>1. dataWaiters[id] \in Waiters
      BY <2>2
    <3>2. sending' = [sending EXCEPT ![dataWaiters[id]] = @ \cup {t}]
      BY <2>2
    <3> QED
      BY <3>1, <3>2
  <2> QED
    BY <2>1, <2>2
<1>3. \E l \in WorkerPC : pc' = [pc EXCEPT ![t] = l]
  OBVIOUS
<1>4. /\ pc' \in [Proc -> CallerPC \cup WorkerPC]
      /\ \A c \in Callers : pc'[c] \in CallerPC
      /\ \A u \in Workers : pc'[u] \in WorkerPC
  BY <1>3
<1> QED
  BY <1>1, <1>2, <1>4

\* The lookup of Unclaim empties one entry of the map.
LEMMA RemoveType ==
  ASSUME TypeOK, NEW t \in Workers, NEW id \in IDs, NEW rest \in SUBSET IDs,
         Remove(t, id, rest)
  PROVE  TypeOK'
BY MuxAssumption, SMTT(30) DEF MuxAssumption, TypeOK, Proc, IDs, Waiters, Nil, CallerPC, WorkerPC,
   Goto, waiterVars, Remove, Return

\* Every step of every goroutine keeps the Mux well typed.
LEMMA TypeStep == TypeOK /\ [Next]_vars => TypeOK'
<1> SUFFICES ASSUME TypeOK, [Next]_vars PROVE TypeOK'
  OBVIOUS
<1> USE MuxAssumption, SMTT(30) DEF MuxAssumption, TypeOK, Proc, IDs, Waiters, Nil, CallerPC, WorkerPC,
      Goto, muxVars, waiterVars, procVars
<1>1. ASSUME Feed PROVE TypeOK'
  BY <1>1 DEF Feed
<1>2. ASSUME FeedQuit PROVE TypeOK'
  BY <1>2 DEF FeedQuit
<1>3. ASSUME NEW c \in Callers, ClaimBegin(c) PROVE TypeOK'
  BY <1>3 DEF ClaimBegin
<1>4. ASSUME NEW c \in Callers, ClaimTake(c) PROVE TypeOK'
  <2>1. pc' = [pc EXCEPT ![c] = "claim"]
        /\ UNCHANGED <<dataWaiters, freeClosed, nextID, quit, closed, waiterVars, cur, ids>>
    BY <1>4 DEF ClaimTake
  <2>2. CASE freeIDs # <<>>
    <3>1. Head(freeIDs) \in IDs /\ Tail(freeIDs) \in Seq(IDs) /\ Len(Tail(freeIDs)) <= FreeCap
      BY <2>2
    <3>2. arg' = [arg EXCEPT ![c] = Head(freeIDs)] /\ freeIDs' = Tail(freeIDs)
      BY <1>4, <2>2 DEF ClaimTake
    <3>3. arg' \in [Proc -> IDs] /\ freeIDs' \in Seq(IDs) /\ Len(freeIDs') <= FreeCap
      BY <3>1, <3>2
    <3> QED
      BY <2>1, <3>3
  <2>3. CASE freeIDs = <<>>
    <3>1. arg' = [arg EXCEPT ![c] = 0] /\ freeIDs' = freeIDs
      BY <1>4, <2>3 DEF ClaimTake
    <3> QED
      BY <2>1, <3>1
  <2> QED
    BY <2>2, <2>3, Zenon
<1>5. ASSUME NEW c \in Callers, Goto(c, "take"), UNCHANGED <<muxVars, waiterVars, arg, cur, ids>>
      PROVE  TypeOK'
  BY <1>5
<1>6. ASSUME NEW t \in Workers, pc' = [pc EXCEPT ![t] = "sent"],
             UNCHANGED <<muxVars, waiterVars, arg, cur, ids>>
      PROVE  TypeOK'
  BY <1>6
<1>7. ASSUME NEW t \in Workers, SendDone(t) PROVE TypeOK'
  <2>1. /\ sending' \in [Waiters -> SUBSET Workers]
        /\ cur' \in [Proc -> Waiters \cup {Nil}]
    BY <1>7, Zenon DEF SendDone
  <2>2. \E l \in WorkerPC : pc' = [pc EXCEPT ![t] = l]
    BY <1>7, Zenon DEF SendDone
  <2>3. /\ pc' \in [Proc -> CallerPC \cup WorkerPC]
        /\ \A c \in Callers : pc'[c] \in CallerPC
        /\ \A u \in Workers : pc'[u] \in WorkerPC
    BY <2>2
  <2> QED
    BY <1>7, <2>1, <2>3 DEF SendDone
<1>8. ASSUME NEW t \in Workers, Release(t) PROVE TypeOK'
  <2>1. done' \in [Waiters -> BOOLEAN]
    BY <1>8, Zenon DEF Release
  <2> QED
    BY <1>8, <2>1 DEF Release
<1>9. ASSUME NEW t \in Workers, Wait(t) PROVE TypeOK'
  BY <1>9 DEF Wait
<1>10. ASSUME NEW t \in Workers, CloseCh(t) PROVE TypeOK'
  <2>1. ch' \in [Waiters -> BOOLEAN] /\ cur' \in [Proc -> Waiters \cup {Nil}]
    BY <1>10, Zenon DEF CloseCh
  <2> QED
    BY <1>10, <2>1 DEF Return, CloseCh
<1>11. ASSUME NEW t \in Workers, Close(t) PROVE TypeOK'
  BY <1>11 DEF Close
<1>12. ASSUME NEW t \in Workers, CloseQuit(t) PROVE TypeOK'
  BY <1>12 DEF Return, CloseQuit
<1>13. ASSUME NEW t \in Workers, CloseUnclaim(t)
       PROVE  arg[t] \in IDs /\ ids[t] \ {arg[t]} \in SUBSET IDs
  OBVIOUS
<1>14. \A c \in Callers : arg[c] \in IDs
  OBVIOUS
<1>15. "idle" \in WorkerPC /\ "fail" \in WorkerPC
  OBVIOUS
<1>16. CASE UNCHANGED vars
  BY <1>16 DEF vars
<1> HIDE MuxAssumption DEF MuxAssumption, TypeOK, Proc, IDs, Waiters, Nil, CallerPC, WorkerPC,
      Goto, muxVars, waiterVars, procVars
<1>17. ASSUME NEW c \in Callers, CallerStep(c) PROVE TypeOK'
  <2>1. ASSUME Claim(c) PROVE TypeOK'
    BY <2>1, <1>5, <1>14, LeaveType, RegisterType DEF Claim
  <2>2. ASSUME NEW id \in IDs, ClaimWithID(c, id) PROVE TypeOK'
    BY <2>2, RegisterType DEF ClaimWithID
  <2>3. ASSUME RecvClosed(c) \/ GoAway(c) PROVE TypeOK'
    BY <2>3, LeaveType DEF RecvClosed, GoAway
  <2> QED
    BY <1>3, <1>4, <1>17, <2>1, <2>2, <2>3 DEF CallerStep
<1>18. ASSUME NEW t \in Workers, WorkerStep(t) PROVE TypeOK'
  <2>1. ASSUME SelectReleased(t) \/ \E c \in Callers : SelectSend(t, c) PROVE TypeOK'
    BY <2>1, <1>6 DEF SelectSend, SelectReleased, Goto
  <2>2. ASSUME CloseUnclaim(t) PROVE TypeOK'
    BY <2>2, <1>13, RemoveType DEF CloseUnclaim
  <2>3. ASSUME NEW id \in IDs, CloseSend(t, id) PROVE TypeOK'
    BY <2>3, <1>15, LookupType DEF CloseSend
  <2> QED
    BY <1>7, <1>8, <1>9, <1>10, <1>12, <1>18, <2>1, <2>2, <2>3 DEF WorkerStep
<1>19. ASSUME NEW t \in Workers, WorkerStart(t) PROVE TypeOK'
  <2>1. ASSUME NEW id \in IDs, SendData(t, id) PROVE TypeOK'
    BY <2>1, <1>15, LookupType DEF SendData
  <2>2. ASSUME NEW id \in IDs, Unclaim(t, id) PROVE TypeOK'
    BY <2>2, RemoveType DEF Unclaim
  <2> QED
    BY <1>11, <1>19, <2>1, <2>2 DEF WorkerStart
<1> QED
  BY <1>1, <1>2, <1>16, <1>17, <1>18, <1>19 DEF Next

-----------------------------------------------------------------------------
(* The inductive invariant: first what several actions have in common. *)

\* NoLostWaiter survives a step that changes neither the map nor a channel, lets
\* no new caller receive and no Unclaim end.
LEMMA KeepsWaiters ==
  ASSUME NoLostWaiter, dataWaiters' = dataWaiters, ch' = ch,
         \A d \in Callers : pc'[d] = "recv" =>
           pc[d] = "recv" /\ arg'[d] = arg[d] /\ cur'[d] = cur[d],
         \A u \in Workers : pc[u] \in {"release", "wait", "close"} =>
           pc'[u] \in {"release", "wait", "close"} /\ cur'[u] = cur[u]
  PROVE  NoLostWaiter'
BY DEF NoLostWaiter, Unclaiming

\* A step that only concerns the queue of free ids, or none at all.
LEMMA FrameInv ==
  ASSUME IInv, TypeOK', UNCHANGED <<dataWaiters, quit, closed>>, UNCHANGED waiterVars,
         UNCHANGED procVars
  PROVE  IInv'
<1> USE MuxAssumption, SMTT(30) DEF MuxAssumption, IInv, TypeOK, Proc, IDs, Waiters, Nil,
      CallerPC, WorkerPC, Goto, muxVars, waiterVars, procVars, Unclaiming
<1>1. InvFresh'
  BY DEF InvFresh
<1>2. InvMap'
  BY DEF InvMap
<1>3. InvUnclaim'
  BY DEF InvUnclaim
<1>4. InvSending'
  BY DEF InvSending
<1>5. InvQuit'
  BY DEF InvQuit
<1>6. NoLostWaiter'
  BY DEF NoLostWaiter
<1>7. ClosedIsRetired'
  BY DEF ClosedIsRetired
<1> HIDE DEF TypeOK
<1> QED
  BY <1>1, <1>2, <1>3, <1>4, <1>5, <1>6, <1>7

\* A caller that goes elsewhere than to a receive disturbs no stream.
LEMMA CallerMoveInv ==
  ASSUME IInv, TypeOK', NEW c \in Callers, NEW l \in {"idle", "take", "claim"}, NEW i,
         pc' = [pc EXCEPT ![c] = l], arg' = [arg EXCEPT ![c] = i],
         cur' = cur \/ cur' = [cur EXCEPT ![c] = Nil],
         UNCHANGED <<dataWaiters, quit, closed>>, UNCHANGED waiterVars, UNCHANGED ids
  PROVE  IInv'
<1> USE MuxAssumption, SMTT(30) DEF MuxAssumption, IInv, TypeOK, Proc, IDs, Waiters, Nil,
      CallerPC, WorkerPC, Goto, muxVars, waiterVars, procVars, Unclaiming
<1>1. InvFresh'
  BY DEF InvFresh
<1>2. InvMap'
  BY DEF InvMap, InvFresh, InvUnclaim, InvSending
<1>3. InvUnclaim'
  BY DEF InvUnclaim, InvFresh, InvMap, InvSending
<1>4. InvSending'
  BY DEF InvSending, InvFresh
<1>5. InvQuit'
  BY DEF InvQuit
<1>6. NoLostWaiter'
  BY KeepsWaiters
<1>7. ClosedIsRetired'
  BY DEF ClosedIsRetired
<1> HIDE DEF TypeOK
<1> QED
  BY <1>1, <1>2, <1>3, <1>4, <1>5, <1>6, <1>7

\* A registration under a free id, on a Mux not closed, is of a fresh waiter.
LEMMA RegisterInv ==
  ASSUME IInv, TypeOK', NEW c \in Callers, NEW id \in IDs,
         ~closed, pc[c] \in {"idle", "claim"}, dataWaiters[id] = Nil, Register(c, id)
  PROVE  IInv'
<1> USE MuxAssumption, SMTT(30) DEF MuxAssumption, IInv, TypeOK, Proc, IDs, Waiters, Nil,
      CallerPC, WorkerPC, Goto, muxVars, waiterVars, procVars, Unclaiming
<1>1. InvFresh'
  <2>1. allocated' = allocated + 1 /\ allocated + 1 \in Waiters
    BY DEF Register
  <2>2. \A i \in IDs : dataWaiters'[i] <= allocated'
    <3> SUFFICES ASSUME NEW i \in IDs PROVE dataWaiters'[i] <= allocated'
      OBVIOUS
    <3>1. dataWaiters'[i] = allocated + 1 \/ dataWaiters'[i] = dataWaiters[i]
      BY DEF Register
    <3>2. dataWaiters[i] \in Int /\ dataWaiters[i] <= allocated /\ allocated \in Int
      BY DEF InvFresh
    <3> QED
      BY <2>1, <3>1, <3>2
  <2>3. \A p \in Proc : cur'[p] <= allocated'
    <3> SUFFICES ASSUME NEW p \in Proc PROVE cur'[p] <= allocated'
      OBVIOUS
    <3>1. cur'[p] = allocated + 1 \/ cur'[p] = cur[p]
      BY DEF Register
    <3>2. cur[p] \in Int /\ cur[p] <= allocated /\ allocated \in Int
      BY DEF InvFresh
    <3> QED
      BY <2>1, <3>1, <3>2
  <2>4. \A w \in Waiters : w > allocated' => ~done'[w] /\ ~ch'[w] /\ sending'[w] = {}
    BY <2>1 DEF Register, InvFresh
  <2>5. \A d \in Callers : pc'[d] = "recv" => cur'[d] # Nil
    BY <2>1 DEF Register, InvFresh
  <2> QED
    BY <2>2, <2>3, <2>4, <2>5 DEF InvFresh
<1>2. InvMap'
  BY DEF Register, InvMap, InvFresh, InvUnclaim, InvSending
<1>3. InvUnclaim'
  BY DEF Register, InvUnclaim, InvFresh, InvMap, InvSending
<1>4. InvSending'
  BY DEF Register, InvSending, InvFresh
<1>5. InvQuit'
  BY DEF Register, InvQuit
<1>6. NoLostWaiter'
  <2> SUFFICES ASSUME NEW d \in Callers, pc'[d] = "recv"
               PROVE  \/ dataWaiters'[arg'[d]] = cur'[d]
                      \/ \E t \in Workers : pc'[t] \in {"release", "wait", "close"} /\ cur'[t] = cur'[d]
                      \/ ch'[cur'[d]]
    BY DEF NoLostWaiter
  <2>1. CASE d = c
    BY <2>1 DEF Register
  <2>2. CASE d # c
    <3>1. pc[d] = "recv" /\ arg'[d] = arg[d] /\ cur'[d] = cur[d] /\ cur[d] # Nil /\ ch' = ch
      BY <2>2 DEF Register, InvFresh
    <3>2. \A t \in Workers : pc'[t] = pc[t] /\ cur'[t] = cur[t]
      BY DEF Register
    <3>3. \A i \in IDs : dataWaiters[i] # Nil => dataWaiters'[i] = dataWaiters[i]
      BY DEF Register
    <3> QED
      <4>1. arg[d] \in IDs
        OBVIOUS
      <4>2. CASE dataWaiters[arg[d]] = cur[d]
        BY <3>1, <3>3, <4>1, <4>2
      <4>3. CASE \E t \in Workers : Unclaiming(t, cur[d])
        BY <3>1, <3>2, <4>3
      <4>4. CASE ch[cur[d]]
        BY <3>1, <4>4
      <4> QED
        BY <3>1, <4>2, <4>3, <4>4 DEF NoLostWaiter
  <2> QED
    BY <2>1, <2>2
<1>7. ClosedIsRetired'
  BY DEF Register, ClosedIsRetired
<1> HIDE DEF TypeOK
<1> QED
  BY <1>1, <1>2, <1>3, <1>4, <1>5, <1>6, <1>7

\* A delivery registers only with a waiter nobody retires.
LEMMA LookupInv ==
  ASSUME IInv, TypeOK', NEW t \in Workers, NEW id \in IDs, NEW missing \in {"idle", "fail"},
         pc[t] = (IF missing = "idle" THEN "idle" ELSE "next"),
         Lookup(t, id, missing), UNCHANGED <<muxVars, allocated, done, ch, ids>>
  PROVE  IInv'
<1> USE MuxAssumption, SMTT(30) DEF MuxAssumption, IInv, TypeOK, Proc, IDs, Waiters, Nil,
      CallerPC, WorkerPC, Goto, muxVars, waiterVars, procVars, Unclaiming
<1>1. CASE dataWaiters[id] = Nil
  <2>1. /\ \E l \in {"idle", "fail"} : pc' = [pc EXCEPT ![t] = l] /\ (l = "idle" => pc[t] = "idle")
        /\ cur' = [cur EXCEPT ![t] = Nil] /\ arg' = [arg EXCEPT ![t] = id]
        /\ UNCHANGED <<muxVars, waiterVars, ids>>
    BY <1>1 DEF Lookup
  <2>2. InvFresh'
    BY <2>1 DEF InvFresh
  <2>3. InvMap'
    BY <2>1 DEF InvMap, InvFresh, InvUnclaim, InvSending
  <2>4. InvUnclaim'
    BY <2>1 DEF InvUnclaim, InvFresh, InvMap, InvSending
  <2>5. InvSending'
    BY <2>1 DEF InvSending, InvFresh
  <2>6. InvQuit'
    BY <2>1 DEF InvQuit
  <2>7. NoLostWaiter'
    BY <2>1, KeepsWaiters
  <2>8. ClosedIsRetired'
    BY <2>1 DEF ClosedIsRetired
  <2> QED
    BY <2>2, <2>3, <2>4, <2>5, <2>6, <2>7, <2>8
<1>2. CASE dataWaiters[id] # Nil
  <2> DEFINE w == dataWaiters[id]
  <2>1. /\ pc' = [pc EXCEPT ![t] = "select"] /\ sending' = [sending EXCEPT ![w] = @ \cup {t}]
        /\ cur' = [cur EXCEPT ![t] = w] /\ arg' = [arg EXCEPT ![t] = id]
        /\ UNCHANGED <<muxVars, allocated, done, ch, ids>>
    BY <1>2 DEF Lookup
  <2>2. w \in Waiters /\ w <= allocated /\ ~done[w] /\ (\A u \in Workers : ~Unclaiming(u, w))
    BY <1>2 DEF InvFresh, InvMap
  <2> HIDE DEF w
  <2>3. InvFresh'
    BY <2>1, <2>2 DEF InvFresh
  <2>4. InvMap'
    BY <2>1, <2>2 DEF InvMap, InvFresh, InvUnclaim, InvSending
  <2>5. InvUnclaim'
    BY <2>1, <2>2 DEF InvUnclaim, InvFresh, InvMap, InvSending
  <2>6. InvSending'
    BY <2>1, <2>2 DEF InvSending, InvFresh
  <2>7. InvQuit'
    BY <2>1, <2>2 DEF InvQuit
  <2>8. NoLostWaiter'
    BY <2>1, KeepsWaiters
  <2>9. ClosedIsRetired'
    BY <2>1, <2>2 DEF ClosedIsRetired
  <2> QED
    BY <2>3, <2>4, <2>5, <2>6, <2>7, <2>8, <2>9
<1> QED
  BY <1>1, <1>2

\* The worker that deletes an entry is the one to retire its waiter.
LEMMA RemoveInv ==
  ASSUME IInv, TypeOK', NEW t \in Workers, NEW id \in IDs, NEW rest \in SUBSET IDs,
         pc[t] \in {"idle", "fail"}, ids[t] \subseteq rest \cup {id}, Remove(t, id, rest)
  PROVE  IInv'
<1> USE MuxAssumption, SMTT(30) DEF MuxAssumption, IInv, TypeOK, Proc, IDs, Waiters, Nil,
      CallerPC, WorkerPC, Goto, muxVars, waiterVars, procVars, Unclaiming
<1>1. InvFresh'
  BY DEF Remove, Return, InvFresh
<1>2. InvMap'
  BY DEF Remove, Return, InvMap, InvFresh, InvUnclaim, InvSending
<1>3. InvUnclaim'
  BY DEF Remove, Return, InvUnclaim, InvFresh, InvMap, InvSending
<1>4. InvSending'
  BY DEF Remove, Return, InvSending, InvFresh
<1>5. InvQuit'
  <2>1. /\ \E l \in WorkerPC \ {"quit"} : pc' = [pc EXCEPT ![t] = l] /\ (l = "idle" => rest = {})
        /\ ids' = [ids EXCEPT ![t] = rest] /\ quit' = quit /\ closed' = closed
    BY Zenon DEF Remove, Return
  <2>2. \A u \in Workers : pc'[u] = "quit" => pc[u] = "quit"
    BY <2>1
  <2>3. \A u \in Workers : pc'[u] = "idle" => ids'[u] = {}
    <3>1. pc'[t] = "idle" => ids'[t] = {}
      <4>1. PICK l \in WorkerPC : pc' = [pc EXCEPT ![t] = l] /\ (l = "idle" => rest = {})
        BY <2>1, Zenon
      <4>2. pc'[t] = l /\ ids'[t] = rest
        BY <2>1, <4>1
      <4> QED
        BY <4>1, <4>2, Zenon
    <3>2. \A u \in Workers : u # t => pc'[u] = pc[u] /\ ids'[u] = ids[u]
      BY <2>1
    <3> QED
      BY <3>1, <3>2, Zenon DEF InvQuit
  <2> QED
    BY <2>1, <2>2, <2>3 DEF InvQuit
<1>6. NoLostWaiter'
  <2> SUFFICES ASSUME NEW d \in Callers, pc'[d] = "recv"
               PROVE  \/ dataWaiters'[arg'[d]] = cur'[d]
                      \/ \E u \in Workers : pc'[u] \in {"release", "wait", "close"} /\ cur'[u] = cur'[d]
                      \/ ch'[cur'[d]]
    BY DEF NoLostWaiter
  <2>1. pc[d] = "recv" /\ arg'[d] = arg[d] /\ cur'[d] = cur[d] /\ cur[d] # Nil /\ ch' = ch
    BY DEF Remove, InvFresh
  <2>2. CASE dataWaiters[arg[d]] = cur[d] /\ arg[d] = id
    <3>1. pc'[t] = "release" /\ cur'[t] = cur[d]
      BY <2>1, <2>2 DEF Remove
    <3> QED
      BY <2>1, <3>1
  <2>3. CASE dataWaiters[arg[d]] = cur[d] /\ arg[d] # id
    BY <2>1, <2>3 DEF Remove
  <2>4. CASE \E u \in Workers : Unclaiming(u, cur[d])
    <3>1. PICK u \in Workers : Unclaiming(u, cur[d])
      BY <2>4
    <3>2. pc'[u] = pc[u] /\ cur'[u] = cur[u]
      BY <3>1 DEF Remove
    <3> QED
      BY <2>1, <3>1, <3>2
  <2>5. CASE ch[cur[d]]
    BY <2>1, <2>5
  <2> QED
    BY <2>1, <2>2, <2>3, <2>4, <2>5 DEF NoLostWaiter
<1>7. ClosedIsRetired'
  BY DEF Remove, Return, ClosedIsRetired
<1> HIDE DEF TypeOK
<1> QED
  BY <1>1, <1>2, <1>3, <1>4, <1>5, <1>6, <1>7


-----------------------------------------------------------------------------
(* The other steps of a worker, one by one. *)

\* A delivery that has left its select is still counted.
LEMMA SelectInv ==
  ASSUME IInv, TypeOK', NEW t \in Workers, pc[t] = "select",
         pc' = [pc EXCEPT ![t] = "sent"], UNCHANGED muxVars, UNCHANGED waiterVars,
         UNCHANGED <<arg, cur, ids>>
  PROVE  IInv'
<1> USE MuxAssumption, SMTT(30) DEF MuxAssumption, IInv, TypeOK, Proc, IDs, Waiters, Nil,
      CallerPC, WorkerPC, Goto, muxVars, waiterVars, procVars, Unclaiming
<1>1. InvFresh'
  BY DEF InvFresh
<1>2. InvMap'
  BY DEF InvMap, InvFresh, InvUnclaim, InvSending
<1>3. InvUnclaim'
  BY DEF InvUnclaim, InvFresh, InvMap, InvSending
<1>4. InvSending'
  BY DEF InvSending, InvFresh
<1>5. InvQuit'
  BY DEF InvQuit
<1>6. NoLostWaiter'
  BY KeepsWaiters
<1>7. ClosedIsRetired'
  BY DEF ClosedIsRetired
<1> HIDE DEF TypeOK
<1> QED
  BY <1>1, <1>2, <1>3, <1>4, <1>5, <1>6, <1>7

\* sending.Done takes the delivery out of the count as it leaves.
LEMMA SendDoneInv ==
  ASSUME IInv, TypeOK', NEW t \in Workers, SendDone(t)
  PROVE  IInv'
<1> USE MuxAssumption, SMTT(30) DEF MuxAssumption, IInv, TypeOK, Proc, IDs, Waiters, Nil,
      CallerPC, WorkerPC, Goto, muxVars, waiterVars, procVars, Unclaiming
<1>1. InvFresh'
  BY DEF SendDone, InvFresh
<1>2. InvMap'
  BY DEF SendDone, InvMap, InvFresh, InvUnclaim, InvSending
<1>3. InvUnclaim'
  BY DEF SendDone, InvUnclaim, InvFresh, InvMap, InvSending
<1>4. InvSending'
  BY DEF SendDone, InvSending, InvFresh
<1>5. InvQuit'
  BY DEF SendDone, InvQuit
<1>6. NoLostWaiter'
  BY KeepsWaiters DEF SendDone
<1>7. ClosedIsRetired'
  BY DEF SendDone, ClosedIsRetired
<1> HIDE DEF TypeOK
<1> QED
  BY <1>1, <1>2, <1>3, <1>4, <1>5, <1>6, <1>7

\* Only the worker that deleted the entry closes done.
LEMMA ReleaseInv ==
  ASSUME IInv, TypeOK', NEW t \in Workers, Release(t)
  PROVE  IInv'
<1> USE MuxAssumption, SMTT(30) DEF MuxAssumption, IInv, TypeOK, Proc, IDs, Waiters, Nil,
      CallerPC, WorkerPC, Goto, muxVars, waiterVars, procVars, Unclaiming
<1>1. InvFresh'
  BY DEF Release, InvFresh
<1>2. InvMap'
  BY DEF Release, InvMap, InvFresh, InvUnclaim, InvSending
<1>3. InvUnclaim'
  BY DEF Release, InvUnclaim, InvFresh, InvMap, InvSending
<1>4. InvSending'
  BY DEF Release, InvSending, InvFresh
<1>5. InvQuit'
  BY DEF Release, InvQuit
<1>6. NoLostWaiter'
  BY KeepsWaiters DEF Release
<1>7. ClosedIsRetired'
  BY DEF Release, ClosedIsRetired
<1> HIDE DEF TypeOK
<1> QED
  BY <1>1, <1>2, <1>3, <1>4, <1>5, <1>6, <1>7

\* The wait ends when no delivery is left, and none can come.
LEMMA WaitInv ==
  ASSUME IInv, TypeOK', NEW t \in Workers, Wait(t)
  PROVE  IInv'
<1> USE MuxAssumption, SMTT(30) DEF MuxAssumption, IInv, TypeOK, Proc, IDs, Waiters, Nil,
      CallerPC, WorkerPC, Goto, muxVars, waiterVars, procVars, Unclaiming
<1>1. InvFresh'
  BY DEF Wait, InvFresh
<1>2. InvMap'
  BY DEF Wait, InvMap, InvFresh, InvUnclaim, InvSending
<1>3. InvUnclaim'
  BY DEF Wait, InvUnclaim, InvFresh, InvMap, InvSending
<1>4. InvSending'
  BY DEF Wait, InvSending, InvFresh
<1>5. InvQuit'
  BY DEF Wait, InvQuit
<1>6. NoLostWaiter'
  BY KeepsWaiters DEF Wait
<1>7. ClosedIsRetired'
  BY DEF Wait, ClosedIsRetired
<1> HIDE DEF TypeOK
<1> QED
  BY <1>1, <1>2, <1>3, <1>4, <1>5, <1>6, <1>7

\* The channel is closed with no delivery left on it.
LEMMA CloseChInv ==
  ASSUME IInv, TypeOK', NEW t \in Workers, CloseCh(t)
  PROVE  IInv'
<1> USE MuxAssumption, SMTT(30) DEF MuxAssumption, IInv, TypeOK, Proc, IDs, Waiters, Nil,
      CallerPC, WorkerPC, Goto, muxVars, waiterVars, procVars, Unclaiming
<1>1. InvFresh'
  BY DEF Return, CloseCh, InvFresh
<1>2. InvMap'
  BY DEF Return, CloseCh, InvMap, InvFresh, InvUnclaim, InvSending
<1>3. InvUnclaim'
  BY DEF Return, CloseCh, InvUnclaim, InvFresh, InvMap, InvSending
<1>4. InvSending'
  BY DEF Return, CloseCh, InvSending, InvFresh
<1>5. InvQuit'
  BY DEF Return, CloseCh, InvQuit
<1>6. NoLostWaiter'
  <2> SUFFICES ASSUME NEW d \in Callers, pc'[d] = "recv"
               PROVE  \/ dataWaiters'[arg'[d]] = cur'[d]
                      \/ \E u \in Workers : pc'[u] \in {"release", "wait", "close"} /\ cur'[u] = cur'[d]
                      \/ ch'[cur'[d]]
    BY DEF NoLostWaiter
  <2>1. /\ pc[d] = "recv" /\ arg'[d] = arg[d] /\ cur'[d] = cur[d] /\ cur[d] \in Waiters
        /\ dataWaiters' = dataWaiters
    BY DEF CloseCh, InvFresh
  <2>2. cur[t] \in Waiters /\ ch' = [ch EXCEPT ![cur[t]] = TRUE]
    BY DEF CloseCh, InvUnclaim
  <2>3. \A u \in Workers : u # t => pc'[u] = pc[u] /\ cur'[u] = cur[u]
    BY DEF CloseCh
  <2>4. CASE \E u \in Workers : u # t /\ Unclaiming(u, cur[d])
    BY <2>1, <2>3, <2>4
  <2>5. CASE Unclaiming(t, cur[d]) \/ ch[cur[d]]
    BY <2>1, <2>2, <2>5
  <2> QED
    BY <2>1, <2>4, <2>5 DEF NoLostWaiter
<1>7. ClosedIsRetired'
  BY DEF Return, CloseCh, ClosedIsRetired
<1> HIDE DEF TypeOK
<1> QED
  BY <1>1, <1>2, <1>3, <1>4, <1>5, <1>6, <1>7

\* The first Close takes its snapshot of the map.
LEMMA CloseInv ==
  ASSUME IInv, TypeOK', NEW t \in Workers, Close(t)
  PROVE  IInv'
<1> USE MuxAssumption, SMTT(30) DEF MuxAssumption, IInv, TypeOK, Proc, IDs, Waiters, Nil,
      CallerPC, WorkerPC, Goto, muxVars, waiterVars, procVars, Unclaiming
<1>1. InvFresh'
  BY DEF Close, InvFresh
<1>2. InvMap'
  BY DEF Close, InvMap, InvFresh, InvUnclaim, InvSending
<1>3. InvUnclaim'
  BY DEF Close, InvUnclaim, InvFresh, InvMap, InvSending
<1>4. InvSending'
  BY DEF Close, InvSending, InvFresh
<1>5. InvQuit'
  BY DEF Close, InvQuit
<1>6. NoLostWaiter'
  BY KeepsWaiters DEF Close
<1>7. ClosedIsRetired'
  BY DEF Close, ClosedIsRetired
<1> HIDE DEF TypeOK
<1> QED
  BY <1>1, <1>2, <1>3, <1>4, <1>5, <1>6, <1>7

\* Nobody else can have closed quit.
LEMMA CloseQuitInv ==
  ASSUME IInv, TypeOK', NEW t \in Workers, CloseQuit(t)
  PROVE  IInv'
<1> USE MuxAssumption, SMTT(30) DEF MuxAssumption, IInv, TypeOK, Proc, IDs, Waiters, Nil,
      CallerPC, WorkerPC, Goto, muxVars, waiterVars, procVars, Unclaiming
<1>1. InvFresh'
  BY DEF Return, CloseQuit, InvFresh
<1>2. InvMap'
  BY DEF Return, CloseQuit, InvMap, InvFresh, InvUnclaim, InvSending
<1>3. InvUnclaim'
  BY DEF Return, CloseQuit, InvUnclaim, InvFresh, InvMap, InvSending
<1>4. InvSending'
  BY DEF Return, CloseQuit, InvSending, InvFresh
<1>5. InvQuit'
  BY DEF Return, CloseQuit, InvQuit
<1>6. NoLostWaiter'
  BY KeepsWaiters DEF Return, CloseQuit
<1>7. ClosedIsRetired'
  BY DEF Return, CloseQuit, ClosedIsRetired
<1> HIDE DEF TypeOK
<1> QED
  BY <1>1, <1>2, <1>3, <1>4, <1>5, <1>6, <1>7

\* Every step of every goroutine keeps the invariant.
LEMMA IInvStep == IInv /\ TypeOK' /\ [Next]_vars => IInv'
<1> SUFFICES ASSUME IInv, TypeOK', [Next]_vars PROVE IInv'
  OBVIOUS
<1>1. ASSUME Feed \/ FeedQuit \/ UNCHANGED vars PROVE IInv'
  BY <1>1, FrameInv DEF Feed, FeedQuit, vars, muxVars
<1>2. ASSUME NEW c \in Callers, CallerStep(c) PROVE IInv'
  <2>1. /\ arg \in [Proc -> IDs] /\ arg[c] \in IDs /\ c \in Proc
    BY DEF IInv, TypeOK, Proc
  <2>2. arg = [arg EXCEPT ![c] = arg[c]]
    BY <2>1
  <2>3. ASSUME Leave(c) PROVE IInv'
    BY <2>3, CallerMoveInv, Zenon DEF Leave, Goto, muxVars
  <2>4. ASSUME Goto(c, "take"), UNCHANGED <<muxVars, waiterVars, arg, cur, ids>> PROVE IInv'
    BY <2>2, <2>4, CallerMoveInv, Zenon DEF Goto, muxVars
  <2>5. ASSUME ClaimTake(c) PROVE IInv'
    BY <2>5, CallerMoveInv, Zenon DEF ClaimTake, Goto
  <2>6. ASSUME Claim(c) PROVE IInv'
    BY <2>1, <2>3, <2>4, <2>6, RegisterInv DEF Claim
  <2>7. ASSUME NEW id \in IDs, ClaimWithID(c, id) PROVE IInv'
    BY <2>7, RegisterInv DEF ClaimWithID
  <2>8. ASSUME ClaimBegin(c) \/ RecvClosed(c) \/ GoAway(c) PROVE IInv'
    BY <2>3, <2>4, <2>8 DEF ClaimBegin, RecvClosed, GoAway
  <2> QED
    BY <1>2, <2>5, <2>6, <2>7, <2>8 DEF CallerStep
<1>3. ASSUME NEW t \in Workers, WorkerStep(t) PROVE IInv'
  <2>1. ASSUME SelectReleased(t) \/ \E c \in Callers : SelectSend(t, c) PROVE IInv'
    BY <2>1, SelectInv DEF SelectReleased, SelectSend, Goto
  <2>2. ASSUME NEW id \in IDs, CloseSend(t, id) PROVE IInv'
    BY <2>2, LookupInv DEF CloseSend
  <2>3. ASSUME CloseUnclaim(t) PROVE IInv'
    <3>1. arg[t] \in IDs /\ ids[t] \ {arg[t]} \in SUBSET IDs
      BY DEF IInv, TypeOK, Proc
    <3> QED
      BY <2>3, <3>1, RemoveInv DEF CloseUnclaim
  <2> QED
    BY <1>3, <2>1, <2>2, <2>3, SendDoneInv, ReleaseInv, WaitInv, CloseChInv, CloseQuitInv,
       SMTT(30) DEF WorkerStep
<1>4. ASSUME NEW t \in Workers, WorkerStart(t) PROVE IInv'
  <2>1. ASSUME NEW id \in IDs, SendData(t, id) PROVE IInv'
    BY <2>1, LookupInv DEF SendData
  <2>2. ASSUME NEW id \in IDs, Unclaim(t, id) PROVE IInv'
    <3>1. ids[t] = {}
      BY <2>2 DEF Unclaim, IInv, InvQuit
    <3> QED
      BY <2>2, <3>1, RemoveInv DEF Unclaim
  <2> QED
    BY <1>4, <2>1, <2>2, CloseInv DEF WorkerStart
<1> QED
  BY <1>1, <1>2, <1>3, <1>4 DEF Next

\* A new Mux satisfies the invariant.
LEMMA IInvInit == Init => IInv
<1> SUFFICES ASSUME Init PROVE IInv
  OBVIOUS
<1> USE MuxAssumption DEF MuxAssumption, Init, Proc, IDs, Waiters, Nil
<1>1. TypeOK
  <2>1. 0 \in IDs /\ <<>> \in Seq(IDs) /\ Len(<<>>) <= FreeCap
    OBVIOUS
  <2>2. allocated \in 0 .. MaxWaiters
    OBVIOUS
  <2>3. /\ pc \in [Proc -> CallerPC \cup WorkerPC]
        /\ \A p \in Proc : pc[p] \in CallerPC /\ pc[p] \in WorkerPC
    BY DEF CallerPC, WorkerPC
  <2>4. /\ done \in [Waiters -> BOOLEAN] /\ ch \in [Waiters -> BOOLEAN]
        /\ sending \in [Waiters -> SUBSET Workers]
        /\ cur \in [Proc -> Waiters \cup {Nil}] /\ ids \in [Workers -> SUBSET IDs]
    OBVIOUS
  <2> QED
    BY <2>1, <2>2, <2>3, <2>4, Zenon DEF TypeOK
<1>2. InvFresh
  BY DEF InvFresh
<1>3. InvMap /\ InvUnclaim /\ InvSending /\ InvQuit
  BY DEF InvMap, InvUnclaim, InvSending, InvQuit, Unclaiming
<1>4. NoLostWaiter /\ ClosedIsRetired
  BY DEF NoLostWaiter, ClosedIsRetired
<1> QED
  BY <1>1, <1>2, <1>3, <1>4 DEF IInv

\* The invariant holds in every reachable state.
LEMMA IInvAlways == Spec => []IInv
<1>1. IInv /\ [Next]_vars => IInv'
  <2>1. IInv => TypeOK
    BY DEF IInv
  <2> QED
    BY <2>1, TypeStep, IInvStep
<1> QED
  BY <1>1, IInvInit, PTL DEF Spec

-----------------------------------------------------------------------------
(* The theorems. *)

(***************************************************************************)
(* Every variable of the Mux keeps its type: in particular a stream id,    *)
(* also the one the feeder wraps around, stays within the pool.            *)
(***************************************************************************)
THEOREM TypeCorrect == Spec => []TypeOK
<1>1. IInv => TypeOK
  BY DEF IInv
<1> QED
  BY <1>1, IInvAlways, PTL

(***************************************************************************)
(* For any number of goroutines, SendData, Unclaim and Close never send on *)
(* a closed channel nor close a channel twice.                             *)
(***************************************************************************)
THEOREM PanicFree == Spec => []NoPanic
<1>1. IInv => NoPanic
  BY DEF IInv, TypeOK, InvUnclaim, InvSending, InvQuit, NoPanic, Waiters, Nil, Proc
<1> QED
  BY <1>1, IInvAlways, PTL

(***************************************************************************)
(* A caller in its receive is still reachable through the map, through an  *)
(* Unclaim under way, or has its channel closed: no Claim, ClaimWithID or  *)
(* Close makes its waiter unreachable.                                     *)
(***************************************************************************)
THEOREM WaiterNeverLost == Spec => []NoLostWaiter
<1>1. IInv => NoLostWaiter
  BY DEF IInv
<1> QED
  BY <1>1, IInvAlways, PTL

(***************************************************************************)
(* The snapshot Close takes under the mutex stays complete: a stream that  *)
(* is claimed on a closed Mux is one Close has still to retire.            *)
(***************************************************************************)
THEOREM CloseSnapshotComplete == Spec => []ClosedIsRetired
<1>1. IInv => ClosedIsRetired
  BY DEF IInv
<1> QED
  BY <1>1, IInvAlways, PTL

(***************************************************************************)
(* SendData calls sending.Add only on a waiter whose Unclaim has not begun *)
(* to wait, as sync.WaitGroup demands.                                     *)
(***************************************************************************)
THEOREM WaitGroupRule == Spec => AddBeforeWait
<1> DEFINE Rule == \A w \in Waiters : sending'[w] \subseteq sending[w] \/ ~done[w]
<1>1. IInv /\ [Next]_vars => Rule
  <2> SUFFICES ASSUME IInv, [Next]_vars, NEW w \in Waiters
               PROVE  sending'[w] \subseteq sending[w] \/ ~done[w]
    OBVIOUS
  <2>1. CASE sending' = sending
    BY <2>1
  <2>2. ASSUME NEW t \in Workers, NEW id \in IDs, NEW missing, Lookup(t, id, missing)
        PROVE  sending'[w] \subseteq sending[w] \/ ~done[w]
    BY <2>2, Zenon DEF Lookup, IInv, TypeOK, InvMap, Waiters, Nil
  <2>3. ASSUME NEW t \in Workers, SendDone(t)
        PROVE  sending'[w] \subseteq sending[w] \/ ~done[w]
    BY <2>3 DEF SendDone, IInv, TypeOK
  <2>4. \/ sending' = sending
        \/ \E t \in Workers : SendDone(t)
        \/ \E t \in Workers, id \in IDs, missing \in WorkerPC : Lookup(t, id, missing)
    BY Zenon DEF Next, CallerStep, WorkerStep, WorkerStart, vars, muxVars, waiterVars, procVars,
       Feed, FeedQuit, ClaimBegin, ClaimTake, Claim, ClaimWithID, Register, Leave, RecvClosed,
       GoAway, SendData, SelectSend, SelectReleased, Unclaim, Remove, Release, Wait, CloseCh,
       Close, CloseQuit, CloseSend, CloseUnclaim, WorkerPC
  <2> QED
    BY <2>1, <2>2, <2>3, <2>4
<1>2. IInv /\ [Next]_vars => [Rule]_vars
  BY <1>1
<1> QED
  BY <1>2, IInvAlways, PTL DEF Spec, AddBeforeWait

=============================================================================
