-------------------------------- MODULE Mux --------------------------------
(***************************************************************************)
(* The stream multiplexer of the XRootD client, xrootd/internal/mux.       *)
(*                                                                         *)
(* A Mux hands every request a stream id and a channel (a "waiter"); the   *)
(* goroutine reading the connection delivers responses with SendData and   *)
(* retires a stream with Unclaim, while Close may run at any time.  Every  *)
(* section of code under m.mu is free of blocking operations and is one    *)
(* action; what happens outside m.mu (channel operations, WaitGroup.Wait)  *)
(* interleaves freely, one action per operation.                           *)
(*                                                                         *)
(* Callers run Claim or ClaimWithID and then receive from their channel.   *)
(* Workers run SendData, Unclaim and Close.  A waiter is a number, given   *)
(* out in the order of allocation and never reused, as a pointer is.       *)
(* What a response carries is not represented.                             *)
(***************************************************************************)
EXTENDS Integers, Sequences

CONSTANTS Callers,        \* goroutines that claim a stream and read from it
          Workers,        \* goroutines that deliver, unclaim and close
          PoolSize,       \* streamIDPoolSize
          FreeCap,        \* freeIDsBufferSize
          MaxWaiters      \* bound: how many waiters are ever allocated

ASSUME MuxAssumption ==
  /\ Callers \cap Workers = {}
  /\ PoolSize \in Nat \ {0}
  /\ FreeCap \in Nat \ {0}
  /\ MaxWaiters \in Nat

Proc == Callers \cup Workers
IDs == 0 .. PoolSize - 1
Waiters == 1 .. MaxWaiters
Nil == 0        \* no waiter: what a lookup in the map yields when it fails

VARIABLES
  dataWaiters,  \* the map from stream ids to waiters, Nil where it has no entry
  freeIDs,      \* contents of the buffered channel of candidate ids
  freeClosed,   \* the feeder has closed freeIDs
  nextID,       \* i, the next id the feeder goroutine offers
  quit,         \* quit is closed
  closed,       \* Mux.closed
  allocated,    \* number of waiters created so far
  done,         \* [Waiters -> BOOLEAN], waiter.done is closed
  ch,           \* [Waiters -> BOOLEAN], waiter.ch is closed
  sending,      \* [Waiters -> SUBSET Workers], the deliveries waiter.sending counts
  pc,           \* control point of each goroutine
  arg,          \* the stream id each goroutine works on
  cur,          \* the waiter each goroutine holds
  ids           \* the ids a Close in progress has still to retire

muxVars == <<dataWaiters, freeIDs, freeClosed, nextID, quit, closed>>
waiterVars == <<allocated, done, ch, sending>>
procVars == <<pc, arg, cur, ids>>
vars == <<muxVars, waiterVars, procVars>>

CallerPC == {"idle", "take", "claim", "recv"}
WorkerPC == {"idle", "select", "sent", "release", "wait", "close",
             "quit", "next", "fail"}

TypeOK ==
  /\ dataWaiters \in [IDs -> Waiters \cup {Nil}]
  /\ freeIDs \in Seq(IDs) /\ Len(freeIDs) <= FreeCap
  /\ freeClosed \in BOOLEAN
  /\ nextID \in IDs
  /\ quit \in BOOLEAN /\ closed \in BOOLEAN
  /\ allocated \in 0 .. MaxWaiters
  /\ done \in [Waiters -> BOOLEAN]
  /\ ch \in [Waiters -> BOOLEAN]
  /\ sending \in [Waiters -> SUBSET Workers]
  /\ pc \in [Proc -> CallerPC \cup WorkerPC]
  /\ \A c \in Callers : pc[c] \in CallerPC
  /\ \A t \in Workers : pc[t] \in WorkerPC
  /\ arg \in [Proc -> IDs]
  /\ cur \in [Proc -> Waiters \cup {Nil}]
  /\ ids \in [Workers -> SUBSET IDs]

Init ==
  /\ dataWaiters = [i \in IDs |-> Nil]
  /\ freeIDs = <<>> /\ freeClosed = FALSE /\ nextID = 0
  /\ quit = FALSE /\ closed = FALSE
  /\ allocated = 0
  /\ done = [w \in Waiters |-> FALSE]
  /\ ch = [w \in Waiters |-> FALSE]
  /\ sending = [w \in Waiters |-> {}]
  /\ pc = [p \in Proc |-> "idle"]
  /\ arg = [p \in Proc |-> 0]
  /\ cur = [p \in Proc |-> Nil]
  /\ ids = [t \in Workers |-> {}]

Goto(p, l) == pc' = [pc EXCEPT ![p] = l]

\* A caller returns; what its local variables held is gone.
Leave(c) ==
  /\ Goto(c, "idle")
  /\ arg' = [arg EXCEPT ![c] = 0]
  /\ cur' = [cur EXCEPT ![c] = Nil]
  /\ UNCHANGED <<muxVars, waiterVars, ids>>

\* Where a worker goes when an operation ends: to the loop of the Close that
\* called it, if that has ids left, else out.
Return(left) == IF left = {} THEN "idle" ELSE "next"

-----------------------------------------------------------------------------
(* The goroutine started by New: it offers the ids in turn until quit. *)

Feed ==
  /\ ~freeClosed
  /\ Len(freeIDs) < FreeCap
  /\ freeIDs' = Append(freeIDs, nextID)
  /\ nextID' = (nextID + 1) % PoolSize
  /\ UNCHANGED <<dataWaiters, freeClosed, quit, closed, waiterVars, procVars>>

FeedQuit ==
  /\ ~freeClosed
  /\ quit
  /\ freeClosed' = TRUE
  /\ UNCHANGED <<dataWaiters, freeIDs, nextID, quit, closed, waiterVars, procVars>>

-----------------------------------------------------------------------------
(* Claim and ClaimWithID *)

ClaimBegin(c) ==
  /\ pc[c] = "idle"
  /\ allocated < MaxWaiters
  /\ Goto(c, "take")
  /\ UNCHANGED <<muxVars, waiterVars, arg, cur, ids>>

\* id := <-m.freeIDs: once the channel is closed and drained, the zero id.
ClaimTake(c) ==
  /\ pc[c] = "take"
  /\ \/ /\ freeIDs # <<>>
        /\ arg' = [arg EXCEPT ![c] = Head(freeIDs)]
        /\ freeIDs' = Tail(freeIDs)
     \/ /\ freeIDs = <<>> /\ freeClosed
        /\ arg' = [arg EXCEPT ![c] = 0]
        /\ UNCHANGED freeIDs
  /\ Goto(c, "claim")
  /\ UNCHANGED <<dataWaiters, freeClosed, nextID, quit, closed, waiterVars, cur, ids>>

\* Register a new waiter for id and return its channel to the caller.
Register(c, id) ==
  /\ allocated < MaxWaiters
  /\ allocated' = allocated + 1
  /\ dataWaiters' = [dataWaiters EXCEPT ![id] = allocated + 1]
  /\ cur' = [cur EXCEPT ![c] = allocated + 1]
  /\ arg' = [arg EXCEPT ![c] = id]
  /\ Goto(c, "recv")
  /\ UNCHANGED <<freeIDs, freeClosed, nextID, quit, closed, done, ch, sending, ids>>

\* Defect: closed is not looked at under the mutex.
ClaimWhenClosed(c) ==
  /\ pc[c] = "claim"
  /\ \/ /\ dataWaiters[arg[c]] # Nil
        /\ Goto(c, "take")
        /\ UNCHANGED <<muxVars, waiterVars, arg, cur, ids>>
     \/ dataWaiters[arg[c]] = Nil /\ Register(c, arg[c])

\* The section of Claim under the mutex: an error on a closed Mux, another
\* turn of the loop for an id somebody claimed by ClaimWithID, else success.
Claim(c) ==
  /\ pc[c] = "claim"
  /\ \/ /\ closed
        /\ Leave(c)
     \/ /\ ~closed /\ dataWaiters[arg[c]] # Nil
        /\ Goto(c, "take")
        /\ UNCHANGED <<muxVars, waiterVars, arg, cur, ids>>
     \/ /\ ~closed /\ dataWaiters[arg[c]] = Nil
        /\ Register(c, arg[c])

ClaimWithID(c, id) ==
  /\ pc[c] = "idle"
  /\ ~closed
  /\ dataWaiters[id] = Nil
  /\ Register(c, id)

\* The caller stops reading: a deadline, a refused or a terminal response.
GoAway(c) ==
  /\ pc[c] = "recv"
  /\ Leave(c)

\* The receive reports that the channel was closed.
RecvClosed(c) ==
  /\ pc[c] = "recv"
  /\ ch[cur[c]]
  /\ Leave(c)

-----------------------------------------------------------------------------
(* SendData, called on its own or for one id by Close (then ids[t] # {}). *)

\* The section under the mutex: look the waiter up and register the delivery.
Lookup(t, id, missing) ==
  /\ arg' = [arg EXCEPT ![t] = id]
  /\ cur' = [cur EXCEPT ![t] = dataWaiters[id]]
  /\ IF dataWaiters[id] = Nil
       THEN Goto(t, missing) /\ UNCHANGED sending
       ELSE /\ Goto(t, "select")
            /\ sending' = [sending EXCEPT ![dataWaiters[id]] = @ \cup {t}]

SendData(t, id) ==
  /\ pc[t] = "idle"
  /\ Lookup(t, id, "idle")
  /\ UNCHANGED <<muxVars, allocated, done, ch, ids>>

\* case w.ch <- data, which meets a caller's receive.
SelectSend(t, c) ==
  /\ pc[t] = "select" /\ pc[c] = "recv" /\ cur[t] = cur[c]
  /\ Goto(t, "sent")
  /\ UNCHANGED <<muxVars, waiterVars, arg, cur, ids>>

\* Defect: the select has no case for done.
SelectOnlyQuit(t) ==
  /\ pc[t] = "select"
  /\ quit
  /\ Goto(t, "sent")
  /\ UNCHANGED <<muxVars, waiterVars, arg, cur, ids>>

\* case <-w.done and case <-m.quit
SelectReleased(t) ==
  /\ pc[t] = "select"
  /\ done[cur[t]] \/ quit
  /\ Goto(t, "sent")
  /\ UNCHANGED <<muxVars, waiterVars, arg, cur, ids>>

\* The deferred sending.Done, and the return.
SendDone(t) ==
  /\ pc[t] = "sent"
  /\ sending' = [sending EXCEPT ![cur[t]] = @ \ {t}]
  /\ cur' = [cur EXCEPT ![t] = Nil]
  /\ Goto(t, IF ids[t] = {} THEN "idle" ELSE "fail")
  /\ UNCHANGED <<muxVars, allocated, done, ch, arg, ids>>

-----------------------------------------------------------------------------
(* Unclaim, called on its own or by Close *)

\* Defect: the entry is deleted before it is looked up.
RemoveFirst(t, id, rest) ==
  /\ arg' = [arg EXCEPT ![t] = id]
  /\ ids' = [ids EXCEPT ![t] = rest]
  /\ cur' = [cur EXCEPT ![t] = Nil]
  /\ dataWaiters' = [dataWaiters EXCEPT ![id] = Nil]
  /\ Goto(t, Return(rest))
  /\ UNCHANGED <<freeIDs, freeClosed, nextID, quit, closed, waiterVars>>

\* The section under the mutex: look the waiter up and delete it.
Remove(t, id, rest) ==
  /\ arg' = [arg EXCEPT ![t] = id]
  /\ ids' = [ids EXCEPT ![t] = rest]
  /\ cur' = [cur EXCEPT ![t] = dataWaiters[id]]
  /\ dataWaiters' = [dataWaiters EXCEPT ![id] = Nil]
  /\ Goto(t, IF dataWaiters[id] # Nil THEN "release" ELSE Return(rest))
  /\ UNCHANGED <<freeIDs, freeClosed, nextID, quit, closed, waiterVars>>

Unclaim(t, id) == pc[t] = "idle" /\ Remove(t, id, {})

\* close(w.done)
Release(t) ==
  /\ pc[t] = "release"
  /\ done' = [done EXCEPT ![cur[t]] = TRUE]
  /\ Goto(t, "wait")
  /\ UNCHANGED <<muxVars, allocated, ch, sending, arg, cur, ids>>

\* Defect: the deliveries in flight are not waited for.
WaitNot(t) ==
  /\ pc[t] = "wait"
  /\ Goto(t, "close")
  /\ UNCHANGED <<muxVars, waiterVars, arg, cur, ids>>

\* w.sending.Wait()
Wait(t) ==
  /\ pc[t] = "wait"
  /\ sending[cur[t]] = {}
  /\ Goto(t, "close")
  /\ UNCHANGED <<muxVars, waiterVars, arg, cur, ids>>

\* close(w.ch)
CloseCh(t) ==
  /\ pc[t] = "close"
  /\ ch' = [ch EXCEPT ![cur[t]] = TRUE]
  /\ cur' = [cur EXCEPT ![t] = Nil]
  /\ Goto(t, Return(ids[t]))
  /\ UNCHANGED <<muxVars, allocated, done, sending, arg, ids>>

-----------------------------------------------------------------------------
(* Close *)

\* Under the mutex: a second Close returns; the first one snapshots the ids.
Close(t) ==
  /\ pc[t] = "idle"
  /\ ~closed
  /\ closed' = TRUE
  /\ ids' = [ids EXCEPT ![t] = {i \in IDs : dataWaiters[i] # Nil}]
  /\ Goto(t, "quit")
  /\ UNCHANGED <<dataWaiters, freeIDs, freeClosed, nextID, quit, waiterVars, arg, cur>>

\* close(m.quit)
CloseQuit(t) ==
  /\ pc[t] = "quit"
  /\ quit' = TRUE
  /\ Goto(t, Return(ids[t]))
  /\ UNCHANGED <<dataWaiters, freeIDs, freeClosed, nextID, closed, waiterVars, arg, cur, ids>>

\* The loop over the snapshot: SendData of the error for one of its ids ...
CloseSend(t, id) ==
  /\ pc[t] = "next"
  /\ id \in ids[t]
  /\ Lookup(t, id, "fail")
  /\ UNCHANGED <<muxVars, allocated, done, ch, ids>>

\* Defect: Close sends the error but does not unclaim the stream.
CloseForgets(t) ==
  /\ pc[t] = "fail"
  /\ ids' = [ids EXCEPT ![t] = @ \ {arg[t]}]
  /\ Goto(t, Return(ids[t] \ {arg[t]}))
  /\ UNCHANGED <<muxVars, waiterVars, arg, cur>>

\* ... and then Unclaim of that id.
CloseUnclaim(t) == pc[t] = "fail" /\ Remove(t, arg[t], ids[t] \ {arg[t]})

-----------------------------------------------------------------------------
CallerStep(c) ==
  \/ ClaimBegin(c) \/ ClaimTake(c) \/ Claim(c)
  \/ \E id \in IDs : ClaimWithID(c, id)
  \/ RecvClosed(c) \/ GoAway(c)

\* The steps of a worker that has started an operation.
WorkerStep(t) ==
  \/ \E c \in Callers : SelectSend(t, c)
  \/ SelectReleased(t) \/ SendDone(t)
  \/ Release(t) \/ Wait(t) \/ CloseCh(t)
  \/ CloseQuit(t) \/ CloseUnclaim(t)
  \/ \E id \in IDs : CloseSend(t, id)

WorkerStart(t) ==
  \/ \E id \in IDs : SendData(t, id) \/ Unclaim(t, id)
  \/ Close(t)

Next ==
  \/ Feed \/ FeedQuit
  \/ \E c \in Callers : CallerStep(c)
  \/ \E t \in Workers : WorkerStep(t) \/ WorkerStart(t)

Spec == Init /\ [][Next]_vars

\* Goroutines are scheduled fairly.  Starting an operation, and giving up on a
\* response, are choices of the callers and are not required of them.
Fairness ==
  /\ WF_vars(Feed) /\ WF_vars(FeedQuit)
  /\ \A c \in Callers : WF_vars(ClaimTake(c)) /\ WF_vars(Claim(c)) /\ WF_vars(RecvClosed(c))
  /\ \A t \in Workers : WF_vars(WorkerStep(t))

FairSpec == Spec /\ Fairness

-----------------------------------------------------------------------------
Unclaiming(t, w) == pc[t] \in {"release", "wait", "close"} /\ cur[t] = w

(***************************************************************************)
(* No goroutine ever sends on a closed channel or closes a channel twice,  *)
(* whatever the interleaving of SendData, Unclaim and Close: the hazard    *)
(* the comment in Unclaim names ("closing a channel a sender still holds   *)
(* panics").                                                               *)
(***************************************************************************)
NoPanic ==
  \A t \in Workers :
    /\ pc[t] = "select" => ~ch[cur[t]]
    /\ pc[t] = "release" => ~done[cur[t]]
    /\ pc[t] = "close" => ~ch[cur[t]]
    /\ pc[t] = "quit" => ~quit

(***************************************************************************)
(* A caller that waits on its channel can always still be released: its    *)
(* waiter is the one registered under its id, or an Unclaim holds it, or   *)
(* its channel is closed.  Nothing overwrites the entry of a claimed id.   *)
(***************************************************************************)
NoLostWaiter ==
  \A c \in Callers : pc[c] = "recv" =>
    \/ dataWaiters[arg[c]] = cur[c]
    \/ \E t \in Workers : Unclaiming(t, cur[c])
    \/ ch[cur[c]]

(***************************************************************************)
(* A stream still claimed on a closed Mux is one the Close in progress has *)
(* in its snapshot: no Claim slips in between the snapshot and the end.    *)
(***************************************************************************)
ClosedIsRetired ==
  closed => \A i \in IDs : dataWaiters[i] # Nil => \E t \in Workers : i \in ids[t]

(***************************************************************************)
(* The rule of sync.WaitGroup: a delivery never calls sending.Add once the *)
(* Unclaim of its waiter may be in sending.Wait.                           *)
(***************************************************************************)
AddBeforeWait ==
  [][\A w \in Waiters : sending'[w] \subseteq sending[w] \/ ~done[w]]_vars

(***************************************************************************)
(* An Unclaim returns although the caller whose stream it retires may have *)
(* gone away and left a delivery parked on its channel.                    *)
(***************************************************************************)
UnclaimReturns ==
  \A t \in Workers, w \in Waiters : Unclaiming(t, w) ~> ~Unclaiming(t, w)

(***************************************************************************)
(* Close unblocks every caller, in a receive or inside Claim.              *)
(***************************************************************************)
CloseReleasesCallers ==
  \A c \in Callers : closed /\ pc[c] # "idle" ~> pc[c] = "idle"

-----------------------------------------------------------------------------
(* The Mux as a Streams: a stream is a waiter.                             *)

Phase ==
  [w \in Waiters |->
     IF ch[w] THEN "closed"
     ELSE IF w > allocated THEN "new"
     ELSE IF \E i \in IDs : dataWaiters[i] = w THEN "open"
     ELSE "closing"]

Abs == INSTANCE Streams
  WITH Names <- IDs, Handles <- Waiters, NoHandle <- Nil, Deliverers <- Workers,
       held <- dataWaiters, phase <- Phase, inflight <- sending, shut <- closed

(***************************************************************************)
(* The Mux keeps the contract of Streams, on which module Session builds:  *)
(* an id has one stream at a time, no delivery begins on a stream that is  *)
(* being retired, a channel is closed once and after the last delivery to  *)
(* it, and a closed Mux opens nothing.                                     *)
(***************************************************************************)
IsStreams == Abs!Spec

-----------------------------------------------------------------------------
(* The inductive invariant behind NoPanic, NoLostWaiter and ClosedIsRetired. *)

\* Waiters not created yet are untouched and nobody refers to them; a caller in
\* its receive has one.
InvFresh ==
  /\ \A c \in Callers : pc[c] = "recv" => cur[c] # Nil
  /\ \A i \in IDs : dataWaiters[i] <= allocated
  /\ \A p \in Proc : cur[p] <= allocated
  /\ \A w \in Waiters : w > allocated => ~done[w] /\ ~ch[w] /\ sending[w] = {}

\* The map is injective, and what it holds nobody has begun to retire.
InvMap ==
  \A i \in IDs : dataWaiters[i] # Nil =>
    /\ \A j \in IDs : dataWaiters[j] = dataWaiters[i] => j = i
    /\ ~done[dataWaiters[i]]
    /\ \A t \in Workers : ~Unclaiming(t, dataWaiters[i])

\* Unclaim closes done, then the channel, and one goroutine does it.
InvUnclaim ==
  /\ \A t \in Workers : pc[t] \in {"release", "wait", "close"} =>
       /\ cur[t] # Nil
       /\ ~ch[cur[t]]
       /\ done[cur[t]] <=> pc[t] # "release"
       /\ pc[t] = "close" => sending[cur[t]] = {}
       /\ \A u \in Workers : Unclaiming(u, cur[t]) => u = t
  /\ \A w \in Waiters : ch[w] => done[w] /\ sending[w] = {}

\* sending is the set of the deliveries inside the select.
InvSending ==
  /\ \A t \in Workers : pc[t] \in {"select", "sent"} => cur[t] # Nil
  /\ \A w \in Waiters, t \in Workers :
       t \in sending[w] <=> pc[t] \in {"select", "sent"} /\ cur[t] = w

\* Only the first Close goes on to close quit; ids belongs to a Close under way.
InvQuit ==
  /\ quit => closed
  /\ \A t \in Workers : pc[t] = "idle" => ids[t] = {}
  /\ \A t \in Workers : pc[t] = "quit" =>
       /\ closed /\ ~quit
       /\ \A u \in Workers : pc[u] = "quit" => u = t

IInv ==
  /\ TypeOK /\ InvFresh /\ InvMap /\ InvUnclaim /\ InvSending /\ InvQuit
  /\ NoLostWaiter /\ ClosedIsRetired

=============================================================================
