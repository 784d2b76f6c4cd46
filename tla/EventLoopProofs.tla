--------------------------- MODULE EventLoopProofs ---------------------------
(***************************************************************************)
(* What holds of the event store for any application: any components,      *)
(* ports, events, workers and output streams.                              *)
(***************************************************************************)
EXTENDS EventLoop, TLAPS

\* The application has not begun to run.
Before == state \in {"Undefined", "Configuring", "Configured", "Starting", "Started"}

\* Runner r has taken the value of port p out of the store of event e.
Holds(r, e, p) == run[r].at = "back" /\ run[r].evt = e /\ p \in run[r].hold

\* Runner r will put port p into the store of event e.
Owes(r, e, p) == run[r].at \in {"body", "back"} /\ run[r].evt = e /\ p \in run[r].puts

Working(r) == run[r].at \in {"body", "back", "send", "wait"}

Ats == {"off", "idle", "body", "back", "send", "wait", "ret", "reply", "gone"}

State == [at : Ats, evt : Nat, gets : SUBSET Ports, puts : SUBSET Ports, hold : SUBSET Ports,
          res : {"ok", "err"}]

\* The types the proof needs.
Typed ==
  /\ out \in [Comps -> PortMap] /\ edges \in PortMap
  /\ ievt \in 0 .. EvtMax
  /\ evts \in Seq(Events)
  /\ chan \in [Events -> [Ports -> 0 .. 1]]
  /\ run \in [Runners -> State]

\* addOutNode: unless Configure has failed, no port has two producers.
Producers ==
  err = "none" \/ state \notin {"Undefined", "Configuring"} =>
    /\ \A c \in Comps, p \in Ports : out[c][p] # NoType => edges[p] # NoType
    /\ \A c, d \in Comps, p \in Ports : out[c][p] # NoType /\ out[d][p] # NoType => c = d

Quiet ==
  /\ Before => prod = "off" /\ evts = <<>> /\ \A r \in Runners : run[r].at = "off"
  /\ prod # "off" => nprocs # 0
  /\ prod = "push" => ievt < EvtMax

\* The events in the queue are different, were read before the next one, and nobody
\* works on them; what nobody works on yet has only the ports of the input.
Queued(e) == \E i \in DOMAIN evts : evts[i] = e

Queue ==
  /\ \A i \in DOMAIN evts : evts[i] < ievt
  /\ \A i, j \in DOMAIN evts : evts[i] = evts[j] => i = j
  /\ \A r \in Runners : Working(r) => run[r].evt < ievt /\ ~Queued(run[r].evt)

Fresh ==
  \A e \in Events : Queued(e) \/ (prod = "push" /\ e = ievt) =>
    \A p \in Ports : chan[e][p] = 1 => out[Input][p] # NoType

\* A value is in the channel, with one reader, or still to be put, by one task.
Slot(e, p) ==
  /\ chan[e][p] = 1 => \A r \in Runners : ~Holds(r, e, p) /\ ~Owes(r, e, p)
  /\ \A r, q \in Runners : Holds(r, e, p) => ~Owes(q, e, p)
  /\ \A r, q \in Runners : Holds(r, e, p) /\ Holds(q, e, p) => q = r
  /\ \A r, q \in Runners : Owes(r, e, p) /\ Owes(q, e, p) => q = r

Slots ==
  /\ \A e \in Events, p \in Ports : Slot(e, p)
  /\ \A r \in Runners : run[r].at = "back" => \E p \in Ports : run[r].hold = {p}

Inv == Typed /\ Producers /\ Quiet /\ Queue /\ Fresh /\ Slots

-----------------------------------------------------------------------------
LEMMA PushFacts ==
  ASSUME NEW S, NEW s \in Seq(S), NEW x \in S
  PROVE  /\ DOMAIN Append(s, x) = DOMAIN s \cup {Len(s) + 1} /\ Len(s) + 1 \notin DOMAIN s
         /\ Append(s, x)[Len(s) + 1] = x
         /\ \A i \in DOMAIN s : Append(s, x)[i] = s[i] /\ s[i] \in S
<1>1. Len(s) \in Nat /\ DOMAIN s = 1 .. Len(s)
  OBVIOUS
<1>2. Append(s, x) \in Seq(S) /\ Len(Append(s, x)) = Len(s) + 1
  OBVIOUS
<1>3. DOMAIN Append(s, x) = 1 .. (Len(s) + 1)
  BY <1>2
<1>4. 1 .. (Len(s) + 1) = 1 .. Len(s) \cup {Len(s) + 1} /\ Len(s) + 1 \notin 1 .. Len(s)
  BY <1>1
<1>5. Append(s, x)[Len(s) + 1] = x
  BY <1>1
<1>6. \A i \in 1 .. Len(s) : Append(s, x)[i] = s[i] /\ s[i] \in S
  BY <1>1
<1>7. QED
  BY <1>1, <1>3, <1>4, <1>5, <1>6, Zenon

LEMMA PopFacts ==
  ASSUME NEW S, NEW s \in Seq(S), s # <<>>
  PROVE  /\ Tail(s) \in Seq(S) /\ 1 \in DOMAIN s /\ Head(s) = s[1] /\ s[1] \in S
         /\ \A i \in DOMAIN Tail(s) : i + 1 \in DOMAIN s /\ i + 1 # 1 /\ Tail(s)[i] = s[i + 1] /\ i \in Nat
<1>1. Len(s) \in Nat /\ DOMAIN s = 1 .. Len(s) /\ Len(s) >= 1
  OBVIOUS
<1>2. Tail(s) \in Seq(S) /\ DOMAIN Tail(s) = 1 .. (Len(s) - 1)
  BY <1>1
<1>3. \A i \in 1 .. (Len(s) - 1) : i + 1 \in 1 .. Len(s) /\ i + 1 # 1 /\ Tail(s)[i] = s[i + 1] /\ i \in Nat
  BY <1>1
<1>4. 1 \in 1 .. Len(s) /\ Head(s) = s[1] /\ s[1] \in S
  BY <1>1
<1>5. QED
  BY <1>1, <1>2, <1>3, <1>4, Zenon

\* The slot of port p in event e becomes v, and no other slot changes.
Store(e, p, v) == chan' = [chan EXCEPT ![e][p] = v]
OnlySlot(e, p, v) ==
  /\ chan' \in [Events -> [Ports -> 0 .. 1]] /\ chan'[e][p] = v
  /\ \A d \in Events, q \in Ports : d # e \/ q # p => chan'[d][q] = chan[d][q]

LEMMA StoreFacts ==
  ASSUME Typed, NEW e \in Events, NEW p \in Ports, NEW v \in {0, 1}, Store(e, p, v)
  PROVE  OnlySlot(e, p, v)
BY DEF Typed, Store, OnlySlot

LEMMA SlotKept ==
  ASSUME NEW e, NEW p, Slot(e, p), chan'[e][p] = 1 => chan[e][p] = 1,
         \A q \in Runners : (Holds(q, e, p)' => Holds(q, e, p)) /\ (Owes(q, e, p)' => Owes(q, e, p))
  PROVE  Slot(e, p)'
BY Zenon DEF Slot

\* A step in which no runner moves, and values at most disappear.
LEMMA CalmKeeps ==
  ASSUME Inv, UNCHANGED <<out, edges, evts, ievt, run, nprocs>>,
         chan' \in [Events -> [Ports -> 0 .. 1]],
         \A e \in Events, p \in Ports : chan'[e][p] = 1 => chan[e][p] = 1,
         err' = "none" \/ state' \notin {"Undefined", "Configuring"} =>
           err = "none" \/ state \notin {"Undefined", "Configuring"},
         Before' => Before /\ prod' = prod, prod' # "off" => prod # "off", prod' = "push" => prod = "push"
  PROVE  Inv'
<1>1. Typed'
  BY Zenon DEF Inv, Typed
<1>2. Producers'
  BY Zenon DEF Inv, Producers
<1>3. Quiet'
  BY Zenon DEF Inv, Quiet
<1>4. Queue'
  BY Zenon DEF Inv, Queue, Queued, Working
<1>5. Fresh'
  BY Zenon DEF Inv, Fresh, Queued
<1>6. ASSUME NEW e \in Events, NEW p \in Ports PROVE Slot(e, p)'
  <2>1. \A q \in Runners : (Holds(q, e, p)' => Holds(q, e, p)) /\ (Owes(q, e, p)' => Owes(q, e, p))
    BY Zenon DEF Holds, Owes
  <2>2. QED
    BY <2>1, SlotKept, Zenon DEF Inv, Slots
<1>7. Slots'
  BY <1>6, Zenon DEF Inv, Slots
<1>8. QED
  BY <1>1, <1>2, <1>3, <1>4, <1>5, <1>7, Zenon DEF Inv

LEMMA InitInv == Init => Inv
<1> SUFFICES ASSUME Init PROVE Inv
  OBVIOUS
<1>0. /\ \A r \in Runners : run[r] = Off
      /\ \A c \in Comps, p \in Ports : out[c][p] = NoType
      /\ prod = "off" /\ evts = <<>> /\ ievt = 0
  BY Zenon DEF Init, FlowInit, NoPorts
<1>1. Off \in State
  BY DEF Off, Ats, State
<1>2. Off.at = "off"
  BY DEF Off
<1>3. Typed
  <2>1. run \in [Runners -> State]
    BY <1>1, Zenon DEF Init
  <2>2. out \in [Comps -> PortMap] /\ edges \in PortMap
    BY Zenon DEF Init, FlowInit, NoPorts, PortMap
  <2>3. chan \in [Events -> [Ports -> 0 .. 1]]
    BY DEF Init
  <2>4. ievt \in 0 .. EvtMax /\ evts \in Seq(Events)
    BY EventLoopAssumption DEF Init
  <2>5. QED
    BY <2>1, <2>2, <2>3, <2>4, Zenon DEF Typed
<1>4. Producers
  BY <1>0, Zenon DEF Producers
<1>5. Quiet
  BY <1>0, <1>2, Zenon DEF Quiet
<1>6. DOMAIN evts = {}
  BY <1>0
<1>7. Queue /\ Fresh
  BY <1>0, <1>2, <1>6, Zenon DEF Queue, Fresh, Queued, Working
<1>8. Slots
  BY <1>0, <1>2, ZenonT(60) DEF Slots, Slot, Holds, Owes
<1>9. QED
  BY <1>3, <1>4, <1>5, <1>7, <1>8, Zenon DEF Inv

-----------------------------------------------------------------------------
(* Configuring. *)

\* Declaring a port.
LEMMA ConfigureKeeps ==
  ASSUME Inv, NEW c \in Comps, NEW p \in Ports, NEW t \in Types, DeclInPort(c, p, t) \/ DeclOutPort(c, p, t)
  PROVE  Inv'
<1>0. /\ Typed /\ Producers /\ Before /\ err = "none" /\ state' = "Configuring"
      /\ UNCHANGED <<ievt, evts, prod, nprocs, chan, run>>
  BY Zenon DEF Inv, DeclInPort, DeclOutPort, LifeFrame, loopVars, runVars, Before
<1>1. t # NoType
  BY DataFlowAssumption, Zenon
<1>2. /\ out' \in [Comps -> PortMap] /\ edges' \in PortMap
      /\ err' = "none" =>
           /\ \A d \in Comps, q \in Ports : out'[d][q] # NoType => edges'[q] # NoType
           /\ \A b, d \in Comps, q \in Ports : out'[b][q] # NoType /\ out'[d][q] # NoType => b = d
  <2>1. CASE DeclInPort(c, p, t)
    <3>1. out' = out
      BY <2>1, Zenon DEF DeclInPort, addInNode, flowVars
    <3>2. edges' = edges \/ edges' = [edges EXCEPT ![p] = t]
      BY <2>1, Zenon DEF DeclInPort, addInNode, flowVars
    <3>3. edges' \in PortMap /\ \A q \in Ports : edges[q] # NoType => edges'[q] # NoType
      BY <1>0, <1>1, <3>2, Zenon DEF Typed, PortMap
    <3>4. QED
      BY <1>0, <3>1, <3>3, Zenon DEF Typed, Producers
  <2>2. CASE DeclOutPort(c, p, t) /\ out[c][p] # NoType
    <3>1. UNCHANGED <<out, edges>> /\ err' = "err"
      BY <2>2, Zenon DEF DeclOutPort, addOutNode, flowVars
    <3>2. QED
      BY <1>0, <3>1, Zenon DEF Typed
  <2>3. CASE DeclOutPort(c, p, t) /\ out[c][p] = NoType
    <3>1. /\ out' = [out EXCEPT ![c][p] = t]
          /\ edges' = edges \/ edges' = [edges EXCEPT ![p] = t]
      BY <2>3, Zenon DEF DeclOutPort, addOutNode
    <3>2. err' = "none" => /\ edges' = [edges EXCEPT ![p] = t]
                           /\ edges[p] = NoType \/ \A d \in Comps \ {c} : out[d][p] = NoType
      BY <2>3, Zenon DEF DeclOutPort, addOutNode
    <3>3. /\ out' \in [Comps -> PortMap] /\ edges' \in PortMap
          /\ \A d \in Comps, q \in Ports : d # c \/ q # p => out'[d][q] = out[d][q]
      BY <1>0, <3>1 DEF Typed, PortMap
    <3>4. err' = "none" => edges'[p] = t /\ \A q \in Ports : q # p => edges'[q] = edges[q]
      BY <1>0, <3>2, Zenon DEF Typed, PortMap
    <3>5. err' = "none" => \A d \in Comps : d # c => out[d][p] = NoType
      BY <1>0, <3>2, Zenon DEF Producers
    <3>6. ASSUME err' = "none", NEW d \in Comps, NEW q \in Ports, out'[d][q] # NoType
          PROVE  edges'[q] # NoType
      <4>1. CASE q = p
        BY <1>1, <3>4, <3>6, <4>1, Zenon
      <4>2. CASE q # p
        <5>1. out[d][q] # NoType /\ edges'[q] = edges[q]
          BY <3>3, <3>4, <3>6, <4>2, Zenon
        <5>2. QED
          BY <1>0, <5>1, Zenon DEF Producers
      <4>3. QED
        BY <4>1, <4>2, Zenon
    <3>7. ASSUME err' = "none", NEW b \in Comps, NEW d \in Comps, NEW q \in Ports,
                 out'[b][q] # NoType, out'[d][q] # NoType
          PROVE  b = d
      <4>1. CASE q = p
        <5>1. \A a \in Comps : out'[a][p] # NoType => a = c
          BY <3>3, <3>5, <3>7, Zenon
        <5>2. QED
          BY <3>7, <4>1, <5>1, Zenon
      <4>2. CASE q # p
        <5>1. out[b][q] # NoType /\ out[d][q] # NoType
          BY <3>3, <3>7, <4>2, Zenon
        <5>2. QED
          BY <1>0, <5>1, Zenon DEF Producers
      <4>3. QED
        BY <4>1, <4>2, Zenon
    <3>8. QED
      BY <3>3, <3>6, <3>7, ZenonT(60)
  <2>4. QED
    BY <2>1, <2>2, <2>3, Zenon
<1>3. Typed'
  BY <1>0, <1>2, Zenon DEF Typed
<1>4. Producers'
  BY <1>0, <1>2, Zenon DEF Producers
<1>5. Quiet' /\ Queue' /\ Slots'
  BY <1>0, ZenonT(60) DEF Inv, Quiet, Before, Queue, Queued, Working, Slots, Slot, Holds, Owes
<1>6. prod = "off" /\ DOMAIN evts = {}
  BY <1>0 DEF Inv, Quiet
<1>7. Fresh'
  BY <1>0, <1>6, Zenon DEF Fresh, Queued
<1>8. QED
  BY <1>3, <1>4, <1>5, <1>7, Zenon DEF Inv

\* The steps from one state of the application to the next.
LEMMA LifeKeeps ==
  ASSUME Inv, Configured \/ (\E order : Start(order)) \/ Stop \/ Shutdown
  PROVE  Inv'
<1>1. /\ UNCHANGED <<out, edges, evts, ievt, run, nprocs, chan, prod>>
      /\ Before' => Before
      /\ err' = "none" \/ state' \notin {"Undefined", "Configuring"} =>
           err = "none" \/ state \notin {"Undefined", "Configuring"}
  BY Zenon DEF Configured, Start, Stop, Shutdown, LifeFrame, loopVars, runVars, flowVars, Before
<1>2. chan' \in [Events -> [Ports -> 0 .. 1]]
  BY <1>1, Zenon DEF Inv, Typed
<1>3. QED
  BY <1>1, <1>2, CalmKeeps, Zenon

\* Run starts the writers and the goroutines of the loop.
LEMMA RunKeeps ==
  ASSUME Inv, Run
  PROVE  Inv'
<1>0. /\ Typed /\ Before /\ state = "Started" /\ state' = "Running"
      /\ UNCHANGED <<out, edges, nprocs, ievt, evts, chan>>
      /\ prod' = prod \/ prod' = "off" \/ (nprocs # 0 /\ prod' = "read")
      /\ prod = "off" /\ evts = <<>> /\ (\A r \in Runners : run[r].at = "off")
  BY Zenon DEF Inv, Run, flowVars, Quiet, Before
<1>1. Idle \in State /\ Idle.at = "idle"
  BY DEF Idle, Off, State, Ats
<1>2. \E S : run' = [r \in Runners |-> IF r \in S THEN Idle ELSE run[r]]
  BY Zenon DEF Run, startOutputStreams
<1>3. run' \in [Runners -> State] /\ \A r \in Runners : run'[r].at \in {"off", "idle"}
  BY <1>0, <1>1, <1>2, Zenon DEF Typed
<1>4. Typed'
  BY <1>0, <1>3, Zenon DEF Typed
<1>5. Producers'
  BY <1>0, Zenon DEF Inv, Producers
<1>6. Quiet'
  BY <1>0, Zenon DEF Quiet, Before
<1>7. DOMAIN evts = {}
  BY <1>0
<1>8. Queue' /\ Fresh'
  BY <1>0, <1>3, <1>7, Zenon DEF Queue, Fresh, Queued, Working
<1>9. Slots'
  BY <1>3, ZenonT(60) DEF Slots, Slot, Holds, Owes
<1>10. QED
  BY <1>4, <1>5, <1>6, <1>8, <1>9, Zenon DEF Inv

-----------------------------------------------------------------------------
(* Producing events. *)

\* What the input puts into the store of an event.
LEMMA FillFacts ==
  ASSUME Typed, NEW e \in Events, Fill(e)
  PROVE  /\ chan' \in [Events -> [Ports -> 0 .. 1]] /\ \A d \in Events : d # e => chan'[d] = chan[d]
         /\ \A p \in Ports : chan'[e][p] = 1 => out[Input][p] # NoType
<1>1. [p \in Ports |-> IF p \in Keys(out[Input]) THEN 1 ELSE 0] \in [Ports -> 0 .. 1]
  OBVIOUS
<1>2. /\ chan' \in [Events -> [Ports -> 0 .. 1]] /\ \A d \in Events : d # e => chan'[d] = chan[d]
      /\ chan'[e] = [p \in Ports |-> IF p \in Keys(out[Input]) THEN 1 ELSE 0]
  BY <1>1, Zenon DEF Fill, Typed
<1>3. \A p \in Ports : chan'[e][p] = 1 => p \in Keys(out[Input])
  BY <1>2
<1>4. QED
  BY <1>2, <1>3, Zenon DEF Keys

LEMMA ProduceKeeps ==
  ASSUME Inv, Produce \/ Push \/ ProduceErr \/ CloseEvts
  PROVE  Inv'
<1>0. /\ Typed /\ prod # "off" /\ ~Before /\ UNCHANGED <<out, edges, run, nprocs, state, err>>
      /\ ~Before'
  BY Zenon DEF Inv, Quiet, Before, Produce, Push, ProduceErr, CloseEvts, appVars, flowVars,
     retVars, runVars
<1>1. CASE UNCHANGED <<evts, ievt, chan>> /\ prod' # "push"
  <2>1. chan' \in [Events -> [Ports -> 0 .. 1]]
    BY <1>0, <1>1, Zenon DEF Typed
  <2>2. QED
    BY <1>0, <1>1, <2>1, CalmKeeps, Zenon
<1>2. CASE Produce /\ ievt < EvtMax /\ Fill(ievt) /\ prod' = "push"
  <2>1. /\ UNCHANGED <<evts, ievt>> /\ ievt \in Events
        /\ chan' \in [Events -> [Ports -> 0 .. 1]]
        /\ \A e \in Events : e # ievt => chan'[e] = chan[e]
        /\ \A p \in Ports : chan'[ievt][p] = 1 => out[Input][p] # NoType
    <3>1. UNCHANGED <<evts, ievt>>
      BY <1>2, Zenon DEF Produce
    <3>2. ievt \in Events
      BY <1>0, <1>2, EventLoopAssumption DEF Typed, Events
    <3>3. PICK e \in Events : e = ievt
      BY <3>2, Zenon
    <3>4. /\ chan' \in [Events -> [Ports -> 0 .. 1]] /\ \A d \in Events : d # e => chan'[d] = chan[d]
          /\ \A p \in Ports : chan'[e][p] = 1 => out[Input][p] # NoType
      BY <1>0, <1>2, <3>3, FillFacts, Zenon
    <3>5. QED
      BY <3>1, <3>2, <3>3, <3>4, Zenon
  <2>2. Typed' /\ Producers'
    BY <1>0, <2>1, Zenon DEF Inv, Typed, Producers
  <2>3. Quiet'
    BY <1>0, <1>2, <2>1, Zenon DEF Inv, Quiet
  <2>4. Queue'
    BY <1>0, <2>1, Zenon DEF Inv, Queue, Queued, Working
  <2>5. Fresh'
    BY <1>0, <1>2, <2>1, Zenon DEF Inv, Fresh, Queued
  <2>6. \A r \in Runners : Working(r) => run[r].evt # ievt
    BY <1>0 DEF Inv, Queue, Typed
  <2>7. ASSUME NEW e \in Events, NEW p \in Ports PROVE Slot(e, p)'
    <3>1. CASE e # ievt
      <4>1. chan'[e][p] = chan[e][p] /\ \A q \in Runners : (Holds(q, e, p)' => Holds(q, e, p)) /\ (Owes(q, e, p)' => Owes(q, e, p))
        BY <1>0, <2>1, <3>1, Zenon DEF Holds, Owes
      <4>2. QED
        BY <4>1, SlotKept, Zenon DEF Inv, Slots
    <3>2. CASE e = ievt
      BY <1>0, <2>6, <3>2, Zenon DEF Slot, Holds, Owes, Working
    <3>3. QED
      BY <3>1, <3>2, Zenon
  <2>8. Slots'
    BY <1>0, <2>7, Zenon DEF Inv, Slots
  <2>9. QED
    BY <2>2, <2>3, <2>4, <2>5, <2>8, Zenon DEF Inv
<1>3. CASE Push
  <2>1. /\ prod = "push" /\ evts' = Append(evts, ievt) /\ ievt' = ievt + 1 /\ prod' = "read" /\ chan' = chan
    BY <1>3, Zenon DEF Push
  <2>2. /\ ievt \in Events /\ ievt' \in 0 .. EvtMax /\ evts' \in Seq(Events)
        /\ \A e \in Events : e < ievt => e < ievt' /\ e # ievt
        /\ ievt < ievt'
    BY <1>0, <2>1, EventLoopAssumption DEF Inv, Quiet, Typed, Events
  <2>3. /\ DOMAIN evts' = DOMAIN evts \cup {Len(evts) + 1} /\ Len(evts) + 1 \notin DOMAIN evts
        /\ evts'[Len(evts) + 1] = ievt /\ \A i \in DOMAIN evts : evts'[i] = evts[i] /\ evts[i] \in Events
    <3>1. PICK s \in Seq(Events), x \in Events : s = evts /\ x = ievt
      BY <1>0, <2>2, Zenon DEF Typed
    <3>2. evts' = Append(s, x)
      BY <2>1, <3>1, Zenon
    <3>3. /\ DOMAIN Append(s, x) = DOMAIN s \cup {Len(s) + 1} /\ Len(s) + 1 \notin DOMAIN s
          /\ Append(s, x)[Len(s) + 1] = x
          /\ \A i \in DOMAIN s : Append(s, x)[i] = s[i] /\ s[i] \in Events
      BY PushFacts, Zenon
    <3>4. QED
      BY <3>1, <3>2, <3>3, Zenon
  <2>4. Typed' /\ Producers' /\ Quiet'
    BY <1>0, <2>1, <2>2, Zenon DEF Inv, Typed, Producers, Quiet
  <2>5. \A i \in DOMAIN evts' : evts'[i] < ievt'
    BY <2>2, <2>3, Zenon DEF Inv, Queue
  <2>6. \A i, j \in DOMAIN evts' : evts'[i] = evts'[j] => i = j
    BY <2>2, <2>3, Zenon DEF Inv, Queue
  <2>7. ASSUME NEW r \in Runners, Working(r)' PROVE run'[r].evt < ievt' /\ ~Queued(run[r].evt)'
    <3>1. run'[r] = run[r] /\ run[r].evt < ievt /\ ~Queued(run[r].evt) /\ run[r].evt \in Nat
      BY <1>0, <2>7 DEF Inv, Queue, Working, Typed, State
    <3>2. run[r].evt # ievt /\ run[r].evt < ievt'
      BY <1>0, <2>1, <3>1 DEF Typed
    <3>3. QED
      BY <2>3, <3>1, <3>2, Zenon DEF Queued
  <2>8. Queue'
    BY <2>5, <2>6, <2>7, Zenon DEF Queue
  <2>9. Fresh'
    BY <1>0, <2>1, <2>3, ZenonT(60) DEF Inv, Fresh, Queued
  <2>10. Slots'
    <3>1. run' = run /\ chan' = chan /\ Slots
      BY <1>0, <2>1, Zenon DEF Inv
    <3>2. \A q \in Runners, e \in Events, p \in Ports : (Holds(q, e, p)' => Holds(q, e, p)) /\ (Owes(q, e, p)' => Owes(q, e, p))
      BY <3>1, Zenon DEF Holds, Owes
    <3>3. \A e \in Events, p \in Ports : Slot(e, p)'
      BY <3>1, <3>2, SlotKept, Zenon DEF Slots
    <3>4. QED
      BY <3>1, <3>3, Zenon DEF Slots
  <2>11. QED
    BY <2>4, <2>8, <2>9, <2>10, Zenon DEF Inv
<1>4. QED
  BY <1>1, <1>2, <1>3, Zenon DEF Produce, ProduceErr, CloseEvts

-----------------------------------------------------------------------------
(* Starting the tasks of an event, and collecting their results. *)

\* The tasks of an event as they are started.
Begun(e, t) == [Off EXCEPT !.at = "body", !.evt = e, !.gets = Keys(in[t]), !.puts = Keys(out[t])]
Sent(e) == [Off EXCEPT !.at = "send", !.evt = e]

LEMMA LaunchFacts ==
  ASSUME NEW e, Launch(e)
  PROVE  /\ DOMAIN run' = Runners /\ run' = [r \in Runners |-> run'[r]]
         /\ \A r \in Runners :
              /\ r \in {e} \X (Tasks \cap Procs) /\ r \notin {e} \X (Outs \cap Procs) => run'[r] = Begun(e, r[2])
              /\ r \notin {e} \X (Tasks \cap Procs) /\ r \in {e} \X (Outs \cap Procs) => run'[r] = Sent(e)
              /\ r \notin {e} \X (Tasks \cap Procs) /\ r \notin {e} \X (Outs \cap Procs) => run'[r] = run[r]
<1> DEFINE A == {e} \X (Tasks \cap Procs)
           B == {e} \X (Outs \cap Procs)
<1>1. run' = [r \in Runners |-> CASE r \in A -> Begun(e, r[2]) [] r \in B -> Sent(e) [] OTHER -> run[r]]
  BY Zenon DEF Launch, Begun, Sent
<1> HIDE DEF A, B
<1>2. DOMAIN run' = Runners /\ run' = [r \in Runners |-> run'[r]]
  <2> DEFINE z(r) == CASE r \in A -> Begun(e, r[2]) [] r \in B -> Sent(e) [] OTHER -> run[r]
  <2>1. run' = [r \in Runners |-> z(r)]
    BY <1>1, Zenon
  <2> HIDE DEF z
  <2>2. QED
    BY <2>1
<1>3. ASSUME NEW r \in Runners
      PROVE  /\ r \in A /\ r \notin B => run'[r] = Begun(e, r[2])
             /\ r \notin A /\ r \in B => run'[r] = Sent(e)
             /\ r \notin A /\ r \notin B => run'[r] = run[r]
  BY <1>1, Zenon
<1>4. QED
  BY <1>2, <1>3, Zenon DEF A, B

LEMMA LaunchKeeps ==
  ASSUME Inv, NEW e \in Events, Launch(e), UNCHANGED <<out, edges, nprocs, state, prod>>, ~Before,
         \A r \in Runners : Working(r) => run[r].evt # e,
         chan' \in [Events -> [Ports -> 0 .. 1]], \A d \in Events : d # e => chan'[d] = chan[d],
         \A p \in Ports : chan'[e][p] = 1 => out[Input][p] # NoType,
         evts' \in Seq(Events), ievt' \in 0 .. EvtMax, prod = "push" => ievt' = ievt,
         \A d \in Nat : d < ievt => d < ievt', e < ievt',
         \A i \in DOMAIN evts' : evts'[i] < ievt',
         \A i, j \in DOMAIN evts' : evts'[i] = evts'[j] => i = j,
         ~Queued(e)', \A d : Queued(d)' => Queued(d)
  PROVE  Inv'
<1>0. Typed /\ Producers
  BY Zenon DEF Inv
<1>1. ASSUME NEW r \in Runners
      PROVE  /\ run'[r] \in State
             /\ \/ run'[r] = run[r]
                \/ /\ run'[r].evt = e /\ run'[r].at = "body" /\ run'[r].hold = {}
                   /\ \E t \in Tasks : r = <<e, t>> /\ run'[r].puts = Keys(out[t])
                \/ run'[r].evt = e /\ run'[r].at = "send" /\ run'[r].hold = {} /\ run'[r].puts = {}
  <2>0. e \in Nat
    BY EventLoopAssumption DEF Events
  <2>1. CASE r \in {e} \X (Tasks \cap Procs)
    <3>1. run'[r] = Begun(e, r[2])
      <4>1. r \notin {e} \X (Outs \cap Procs)
        BY <2>1, EventLoopAssumption
      <4>2. QED
        BY <2>1, <4>1, LaunchFacts, Zenon
    <3>2. r = <<e, r[2]>> /\ r[2] \in Tasks
      BY <2>1
    <3>3. Keys(in[r[2]]) \in SUBSET Ports /\ Keys(out[r[2]]) \in SUBSET Ports
      BY Zenon DEF Keys
    <3>4. /\ run'[r] \in State /\ run'[r].evt = e /\ run'[r].at = "body" /\ run'[r].hold = {}
          /\ run'[r].puts = Keys(out[r[2]])
      BY <2>0, <3>1, <3>3, ZenonT(60) DEF Begun, Off, State, Ats
    <3>5. QED
      BY <3>2, <3>4, Zenon
  <2>2. CASE r \in {e} \X (Outs \cap Procs)
    <3>1. r \notin {e} \X (Tasks \cap Procs)
      BY <2>2, EventLoopAssumption
    <3>2. run'[r] = Sent(e)
      BY <2>2, <3>1, LaunchFacts, Zenon
    <3>3. QED
      BY <2>0, <3>2, Zenon DEF Sent, Off, State, Ats
  <2>3. CASE r \notin {e} \X (Tasks \cap Procs) /\ r \notin {e} \X (Outs \cap Procs)
    <3>1. run'[r] = run[r]
      BY <2>3, LaunchFacts, Zenon
    <3>2. QED
      BY <1>0, <3>1, Zenon DEF Typed
  <2>4. QED
    BY <2>1, <2>2, <2>3, Zenon
<1>2. run' \in [Runners -> State]
  <2>1. DOMAIN run' = Runners /\ run' = [r \in Runners |-> run'[r]]
    BY LaunchFacts, Zenon
  <2>2. QED
    BY <1>1, <2>1, Zenon
<1>3. Typed'
  BY <1>0, <1>2, Zenon DEF Typed
<1>4. Producers' /\ Quiet'
  <2>1. ~Before' /\ state \notin {"Undefined", "Configuring"}
    BY Zenon DEF Before
  <2>2. Producers'
    BY <1>0, <2>1, Zenon DEF Producers
  <2>3. Quiet'
    BY <2>1, Zenon DEF Inv, Quiet
  <2>4. QED
    BY <2>2, <2>3, Zenon
<1>5. ASSUME NEW r \in Runners, Working(r)' PROVE run'[r].evt < ievt' /\ ~Queued(run[r].evt)'
  <2>1. CASE run'[r] = run[r]
    <3>1. run[r].evt \in Nat
      BY <1>0 DEF Typed, State
    <3>2. QED
      BY <1>5, <2>1, <3>1, Zenon DEF Inv, Queue, Working
  <2>2. CASE run'[r].evt = e
    BY <2>2, Zenon
  <2>3. QED
    BY <1>1, <2>1, <2>2, Zenon
<1>6. Queue'
  BY <1>5, Zenon DEF Queue
<1>7. Fresh'
  BY ZenonT(60) DEF Inv, Fresh
<1>8. ASSUME NEW d \in Events, NEW p \in Ports PROVE Slot(d, p)'
  <2>1. CASE d # e
    <3>1. \A q \in Runners : (Holds(q, d, p)' => Holds(q, d, p)) /\ (Owes(q, d, p)' => Owes(q, d, p))
      BY <1>1, <2>1, Zenon DEF Holds, Owes
    <3>2. QED
      BY <2>1, <3>1, SlotKept, Zenon DEF Inv, Slots
  <2>2. CASE d = e
    <3>1. \A q \in Runners : ~Holds(q, e, p)'
      BY <1>1, Zenon DEF Holds, Working
    <3>2. \A q \in Runners : Owes(q, e, p)' => \E t \in Tasks : q = <<e, t>> /\ out[t][p] # NoType
      BY <1>1, ZenonT(60) DEF Owes, Working, Keys
    <3>3. \A b, c \in Comps : out[b][p] # NoType /\ out[c][p] # NoType => b = c
      BY <1>0, Zenon DEF Producers, Before
    <3>4. \A t \in Tasks : t \in Comps /\ Input \in Comps /\ t # Input
      BY EventLoopAssumption, Zenon
    <3>5. ASSUME NEW r \in Runners, NEW q \in Runners, Owes(r, e, p)', Owes(q, e, p)' PROVE q = r
      <4>1. PICK t \in Tasks : r = <<e, t>> /\ out[t][p] # NoType
        BY <3>2, <3>5, Zenon
      <4>2. PICK u \in Tasks : q = <<e, u>> /\ out[u][p] # NoType
        BY <3>2, <3>5, Zenon
      <4>3. t = u
        BY <3>3, <3>4, <4>1, <4>2, Zenon
      <4>4. QED
        BY <4>1, <4>2, <4>3, Zenon
    <3>6. ASSUME chan'[e][p] = 1, NEW r \in Runners PROVE ~Owes(r, e, p)'
      <4>1. out[Input][p] # NoType
        BY <3>6, Zenon
      <4>2. \A t \in Tasks : out[t][p] = NoType
        BY <3>3, <3>4, <4>1, Zenon
      <4>3. QED
        BY <3>2, <4>2, Zenon
    <3>7. QED
      BY <2>2, <3>1, <3>5, <3>6, Zenon DEF Slot
  <2>3. QED
    BY <2>1, <2>2, Zenon
<1>9. ASSUME NEW r \in Runners, run'[r].at = "back" PROVE \E p \in Ports : run'[r].hold = {p}
  BY <1>1, <1>9, ZenonT(60) DEF Inv, Slots
<1>10. Slots'
  BY <1>8, <1>9, Zenon DEF Slots
<1>11. QED
  BY <1>3, <1>4, <1>6, <1>7, <1>10, Zenon DEF Inv

\* runSequential begins an event, or ends.
LEMMA SeqNextKeeps ==
  ASSUME Inv, SeqNext
  PROVE  Inv'
<1>0. /\ Typed /\ ~Before /\ nprocs = 0 /\ prod = "off" /\ err = "none"
      /\ UNCHANGED <<out, edges, nprocs, state, prod, evts>>
  BY Zenon DEF Inv, SeqNext, appVars, flowVars, Before, Quiet
<1>1. CASE UNCHANGED <<ievt, chan, run>>
  <2>1. chan' \in [Events -> [Ports -> 0 .. 1]]
    BY <1>0, <1>1, Zenon DEF Typed
  <2>2. QED
    BY <1>0, <1>1, <2>1, CalmKeeps, Zenon DEF Before
<1>2. CASE ievt < EvtMax /\ ievt' = ievt + 1 /\ Fill(ievt) /\ Launch(ievt)
  <2>1. /\ ievt \in Events /\ ievt' \in 0 .. EvtMax /\ ievt < ievt'
        /\ \A d \in Nat : d < ievt => d < ievt' /\ d # ievt
    BY <1>0, <1>2, EventLoopAssumption DEF Typed, Events
  <2>2. PICK e \in Events : e = ievt
    BY <2>1, Zenon
  <2>3. Fill(e) /\ Launch(e)
    BY <1>2, <2>2, Zenon
  <2>4. /\ chan' \in [Events -> [Ports -> 0 .. 1]] /\ \A d \in Events : d # e => chan'[d] = chan[d]
        /\ \A p \in Ports : chan'[e][p] = 1 => out[Input][p] # NoType
    BY <1>0, <2>3, FillFacts, Zenon
  <2>5. \A r \in Runners : Working(r) => run[r].evt # e
    BY <1>0, <2>2 DEF Inv, Queue, Typed
  <2>6. \A i \in DOMAIN evts : evts[i] \in Nat /\ evts[i] < ievt
    <3>1. \A i \in DOMAIN evts : evts[i] \in Events
      BY <1>0 DEF Typed
    <3>2. Events \subseteq Nat
      BY EventLoopAssumption DEF Events
    <3>3. QED
      BY <3>1, <3>2, Zenon DEF Inv, Queue
  <2>7. ~Queued(e)' /\ \A d : Queued(d)' => Queued(d)
    BY <1>0, <2>1, <2>2, <2>6, Zenon DEF Queued
  <2>8. /\ evts' \in Seq(Events) /\ \A i \in DOMAIN evts' : evts'[i] < ievt'
        /\ \A i, j \in DOMAIN evts' : evts'[i] = evts'[j] => i = j
    BY <1>0, <2>1, <2>6, Zenon DEF Inv, Queue, Typed
  <2>9. QED
    BY <1>0, <2>1, <2>2, <2>3, <2>4, <2>5, <2>7, <2>8, LaunchKeeps, Zenon
<1>3. QED
  BY <1>1, <1>2, Zenon DEF SeqNext

\* A worker takes the next event of the queue.
LEMMA TakeKeeps ==
  ASSUME Inv, NEW w, Take(w)
  PROVE  Inv'
<1>0. /\ Typed /\ evts # <<>> /\ evts' = Tail(evts) /\ Launch(Head(evts)) /\ ~Before
      /\ UNCHANGED <<out, edges, nprocs, state, prod, ievt, chan>>
  BY Zenon DEF Inv, Take, WorkerFrame, appVars, flowVars, Before, Quiet
<1>1. /\ Tail(evts) \in Seq(Events) /\ 1 \in DOMAIN evts /\ Head(evts) = evts[1] /\ evts[1] \in Events
      /\ \A i \in DOMAIN Tail(evts) : /\ i + 1 \in DOMAIN evts /\ i + 1 # 1 /\ i \in Nat
                                      /\ Tail(evts)[i] = evts[i + 1]
  BY <1>0, PopFacts, Zenon DEF Typed
<1>2. PICK e \in Events : e = Head(evts) /\ e = evts[1]
  BY <1>1, Zenon
<1>3. Launch(e) /\ Queued(e) /\ e < ievt
  <2>1. Launch(e)
    BY <1>0, <1>2, Zenon
  <2>2. Queued(e)
    BY <1>1, <1>2, Zenon DEF Queued
  <2>3. \A i \in DOMAIN evts : evts[i] < ievt
    BY Zenon DEF Inv, Queue
  <2>4. QED
    BY <1>1, <1>2, <2>1, <2>2, <2>3, Zenon
<1>4. \A r \in Runners : Working(r) => run[r].evt # e
  BY <1>3, Zenon DEF Inv, Queue
<1>5. /\ chan' \in [Events -> [Ports -> 0 .. 1]] /\ \A d \in Events : d # e => chan'[d] = chan[d]
      /\ \A p \in Ports : chan'[e][p] = 1 => out[Input][p] # NoType
  BY <1>0, <1>3, Zenon DEF Typed, Inv, Fresh
<1>6. \A i \in DOMAIN evts' : evts'[i] < ievt' /\ evts'[i] # e
  BY <1>0, <1>1, <1>2, Zenon DEF Inv, Queue
<1>7. \A i, j \in DOMAIN evts' : evts'[i] = evts'[j] => i + 1 = j + 1 /\ i \in Nat /\ j \in Nat
  <2> SUFFICES ASSUME NEW i \in DOMAIN evts', NEW j \in DOMAIN evts', evts'[i] = evts'[j]
               PROVE  i + 1 = j + 1 /\ i \in Nat /\ j \in Nat
    BY Zenon
  <2>1. /\ i + 1 \in DOMAIN evts /\ i \in Nat /\ evts'[i] = evts[i + 1]
        /\ j + 1 \in DOMAIN evts /\ j \in Nat /\ evts'[j] = evts[j + 1]
    BY <1>0, <1>1, Zenon
  <2>2. QED
    BY <2>1, Zenon DEF Inv, Queue
<1>8. \A i, j \in DOMAIN evts' : evts'[i] = evts'[j] => i = j
  BY <1>7
<1>9. ~Queued(e)' /\ \A d : Queued(d)' => Queued(d)
  BY <1>0, <1>1, <1>6, Zenon DEF Queued
<1>10. evts' \in Seq(Events) /\ ievt' \in 0 .. EvtMax
  BY <1>0, <1>1, Zenon DEF Typed
<1>11. QED
  BY <1>0, <1>3, <1>4, <1>5, <1>6, <1>8, <1>9, <1>10, LaunchKeeps, Zenon

\* Collecting results: values at most disappear.
LEMMA CollectKeeps ==
  ASSUME Inv, NEW w, TakeClosed(w) \/ CollectErr(w) \/ CollectOk(w) \/ CollectLast(w) \/ SendErr(w) \/ SendDone(w)
  PROVE  Inv'
<1>0. /\ Typed /\ UNCHANGED <<out, edges, nprocs, state, prod, ievt, evts, run>>
      /\ err' = "none" => err = "none"
  BY Zenon DEF Inv, TakeClosed, CollectErr, CollectOk, CollectLast, SendErr, SendDone, Receive,
     WorkerFrame,
     appVars, flowVars, retVars, Return
<1>1. chan' = chan \/ chan' = reset(worker[w].evt)
  BY Zenon DEF TakeClosed, CollectErr, CollectOk, CollectLast, SendErr, SendDone
<1>2. /\ chan' \in [Events -> [Ports -> 0 .. 1]]
      /\ \A e \in Events, p \in Ports : chan'[e][p] = 1 => chan[e][p] = 1
  <2>1. [p \in Ports |-> 0] \in [Ports -> 0 .. 1] /\ \A p \in Ports : [q \in Ports |-> 0][p] # 1
    OBVIOUS
  <2>2. QED
    BY <1>0, <1>1, <2>1, Zenon DEF Typed, reset
<1>3. QED
  BY <1>0, <1>2, CalmKeeps, Zenon DEF Before

-----------------------------------------------------------------------------
(* The code of the tasks. *)

RunFrame == UNCHANGED <<out, edges, nprocs, state, prod, ievt, evts, err>>

LEMMA RunnersKeep ==
  ASSUME Inv, RunFrame, ~Before, Slots', run' \in [Runners -> State],
         chan' \in [Events -> [Ports -> 0 .. 1]],
         \A q \in Runners : Working(q)' => \E r \in Runners : Working(r) /\ run'[q].evt = run[r].evt,
         \A e \in Events, p \in Ports : chan'[e][p] = chan[e][p] \/ \E r \in Runners : Working(r) /\ run[r].evt = e
  PROVE  Inv'
<1>1. Typed' /\ Producers'
  BY Zenon DEF Inv, Typed, Producers, RunFrame
<1>2. Quiet'
  BY Zenon DEF Inv, Quiet, Before, RunFrame
<1>3. Queue'
  <2>1. evts' = evts /\ ievt' = ievt /\ Queue
    BY Zenon DEF RunFrame, Inv
  <2>2. ASSUME NEW q \in Runners, Working(q)' PROVE run'[q].evt < ievt /\ ~Queued(run[q].evt)'
    <3>1. PICK r \in Runners : Working(r) /\ run'[q].evt = run[r].evt
      BY <2>2, Zenon
    <3>2. QED
      BY <2>1, <3>1, ZenonT(60) DEF Queue, Queued
  <2>3. QED
    BY <2>1, <2>2, Zenon DEF Queue
<1>4. \A e \in Events : Queued(e) \/ (prod = "push" /\ e = ievt) => \A r \in Runners : Working(r) => run[r].evt # e
  <2>1. \A r \in Runners : Working(r) => run[r].evt # ievt
    BY DEF Inv, Queue, Typed, State
  <2>2. QED
    BY <2>1, Zenon DEF Inv, Queue
<1>5. Fresh'
  <2>1. evts' = evts /\ ievt' = ievt /\ prod' = prod /\ out' = out /\ Fresh
    BY Zenon DEF RunFrame, Inv
  <2>2. ASSUME NEW e \in Events, Queued(e) \/ (prod = "push" /\ e = ievt), NEW p \in Ports
        PROVE  chan'[e][p] = chan[e][p]
    BY <1>4, <2>2, ZenonT(60)
  <2>3. ASSUME NEW e \in Events, Queued(e)' \/ (prod' = "push" /\ e = ievt'), NEW p \in Ports, chan'[e][p] = 1
        PROVE  out'[Input][p] # NoType
    <3>1. Queued(e) \/ (prod = "push" /\ e = ievt)
      BY <2>1, <2>3, Zenon DEF Queued
    <3>2. QED
      <4>1. chan[e][p] = 1
        BY <2>2, <2>3, <3>1, Zenon
      <4>2. QED
        BY <2>1, <3>1, <4>1, Zenon DEF Fresh
  <2>4. QED
    BY <2>3, Zenon DEF Fresh
<1>6. QED
  BY <1>1, <1>2, <1>3, <1>5, Zenon DEF Inv

\* Runner r goes to l, owing u and holding h; the others stay.
Moves(r, l, u, h) ==
  /\ run' \in [Runners -> State] /\ \A q \in Runners : q # r => run'[q] = run[q]
  /\ run'[r].at = l /\ run'[r].evt = run[r].evt /\ run'[r].puts = u /\ run'[r].hold = h

LEMMA Effects ==
  ASSUME Typed, NEW r \in Runners
  PROVE  /\ \A p \in Ports : GetTake(r, p) => Moves(r, "back", run[r].puts, {p})
         /\ GetBack(r) => Moves(r, "body", run[r].puts, {})
         /\ \A p \in Ports : Put(r, p) => Moves(r, "body", run[r].puts \ {p}, run[r].hold)
         /\ Abort(r) \/ Finish(r) => \E l \in {"reply", "ret"} : Moves(r, l, run[r].puts, run[r].hold)
         /\ Deliver(r) \/ WriterQuit(r) => Moves(r, "gone", run[r].puts, run[r].hold)
<1>0. run \in [Runners -> State] /\ run[r] \in State
  BY Zenon DEF Typed
<1>1. ASSUME NEW x \in State, run' = [run EXCEPT ![r] = x], NEW l, NEW u, NEW h,
             x.at = l, x.evt = run[r].evt, x.puts = u, x.hold = h
      PROVE  Moves(r, l, u, h)
  BY <1>0, <1>1, Zenon DEF Moves
<1>2. ASSUME NEW p \in Ports, GetTake(r, p) PROVE Moves(r, "back", run[r].puts, {p})
  <2>1. run' = [run EXCEPT ![r] = [run[r] EXCEPT !.at = "back", !.hold = {p}]]
    BY <1>0, <1>2, Zenon DEF GetTake
  <2>2. [run[r] EXCEPT !.at = "back", !.hold = {p}] \in State
    BY <1>0, Zenon DEF State, Ats
  <2>3. QED
    BY <1>0, <1>1, <2>1, <2>2, Zenon DEF State
<1>3. ASSUME GetBack(r) PROVE Moves(r, "body", run[r].puts, {})
  <2>1. run' = [run EXCEPT ![r] = [run[r] EXCEPT !.at = "body", !.gets = @ \ run[r].hold, !.hold = {}]]
    BY <1>0, <1>3, Zenon DEF GetBack
  <2>2. [run[r] EXCEPT !.at = "body", !.gets = @ \ run[r].hold, !.hold = {}] \in State
    BY <1>0, Zenon DEF State, Ats
  <2>3. QED
    BY <1>0, <1>1, <2>1, <2>2, Zenon DEF State
<1>4. ASSUME NEW p \in Ports, Put(r, p) PROVE Moves(r, "body", run[r].puts \ {p}, run[r].hold)
  <2>1. run' = [run EXCEPT ![r] = [run[r] EXCEPT !.puts = @ \ {p}]] /\ run[r].at = "body"
    BY <1>0, <1>4 DEF Put
  <2>2. [run[r] EXCEPT !.puts = @ \ {p}] \in State
    BY <1>0 DEF State, Ats
  <2>3. QED
    BY <1>0, <1>1, <2>1, <2>2, Zenon DEF State
<1>5. ASSUME Abort(r) \/ Finish(r)
      PROVE  \E l \in {"reply", "ret"} : Moves(r, l, run[r].puts, run[r].hold)
  <2>1. PICK l \in {"reply", "ret"} : l = After(r)
    BY Zenon DEF After
  <2>2. PICK v \in {"ok", "err"} : run' = [run EXCEPT ![r] = [run[r] EXCEPT !.at = l, !.res = v]]
    <3>1. CASE Abort(r)
      BY <1>0, <2>1, <3>1, Zenon DEF Abort
    <3>2. CASE Finish(r)
      BY <1>0, <2>1, <3>2, Zenon DEF Finish, State
    <3>3. QED
      BY <1>5, <3>1, <3>2, Zenon
  <2>3. [run[r] EXCEPT !.at = l, !.res = v] \in State
    BY <1>0, Zenon DEF State, Ats
  <2>4. Moves(r, l, run[r].puts, run[r].hold)
    BY <1>0, <1>1, <2>2, <2>3, Zenon DEF State
  <2>5. QED
    BY <2>4, Zenon
<1>6. ASSUME Deliver(r) \/ WriterQuit(r) PROVE Moves(r, "gone", run[r].puts, run[r].hold)
  <2>1. run' = [run EXCEPT ![r] = [run[r] EXCEPT !.at = "gone"]]
    BY <1>0, <1>6 DEF Deliver, WriterQuit
  <2>2. [run[r] EXCEPT !.at = "gone"] \in State
    BY <1>0 DEF State, Ats
  <2>3. QED
    BY <1>0, <1>1, <2>1, <2>2, Zenon DEF State
<1>7. QED
  BY <1>2, <1>3, <1>4, <1>5, <1>6, Zenon

LEMMA RunnerKeeps ==
  ASSUME Inv, NEW r \in Runners, RunnerStep(r)
  PROVE  Inv'
<1>0. /\ Typed /\ run[r] \in State /\ RunFrame
      /\ run[r].at \in {"body", "back", "ret"} /\ ~Before
  <2>1. run[r].at \in {"body", "back", "ret"}
    BY Zenon DEF RunnerStep, GetTake, GetBack, Put, Abort, Finish, Deliver
  <2>2. RunFrame
    BY Zenon DEF RunnerStep, GetTake, GetBack, Put, Abort, Finish, Deliver, RunnerFrame, RunFrame,
       appVars, flowVars,
       retVars, loopVars
  <2>3. QED
    BY <2>1, <2>2, Zenon DEF Inv, Typed, Quiet
<1>1. PICK e \in Nat : e = run[r].evt
  BY <1>0 DEF State
<1>2. run[r].at \in {"body", "back"} => Working(r) /\ e \in Events
  BY <1>0, <1>1, EventLoopAssumption DEF Inv, Queue, Working, Typed, Events
<1>3. ASSUME NEW l, NEW u, NEW h, Moves(r, l, u, h),
             l = "back" => \E p \in Ports : h = {p}, l \in {"body", "back"} => Working(r),
             l \notin {"send", "wait"},
             chan' \in [Events -> [Ports -> 0 .. 1]],
             \A d \in Events, q \in Ports : chan'[d][q] = chan[d][q] \/ (Working(r) /\ d = e),
             \A d \in Events, q \in Ports : Slot(d, q)'
      PROVE  Inv'
  <2>1. \A x \in Runners : run'[x].at = "back" => \E p \in Ports : run'[x].hold = {p}
    BY <1>3, Zenon DEF Moves, Inv, Slots
  <2>2. Slots'
    BY <1>3, <2>1, Zenon DEF Slots
  <2>3. \A x \in Runners : Working(x)' => \E y \in Runners : Working(y) /\ run'[x].evt = run[y].evt
    BY <1>3, Zenon DEF Moves, Working
  <2>4. \A d \in Events, q \in Ports : chan'[d][q] = chan[d][q] \/ \E y \in Runners : Working(y) /\ run[y].evt = d
    BY <1>1, <1>3, Zenon
  <2>5. run' \in [Runners -> State]
    BY <1>3, Zenon DEF Moves
  <2>6. QED
    BY <1>0, <1>3, <2>2, <2>3, <2>4, <2>5, RunnersKeep, Zenon
<1>4. ASSUME NEW p \in Ports, GetTake(r, p) PROVE Inv'
  <2>1. /\ run[r].at = "body" /\ chan[e][p] = 1 /\ chan' = [chan EXCEPT ![e][p] = 0]
        /\ Moves(r, "back", run[r].puts, {p})
    BY <1>0, <1>1, <1>4, Effects, Zenon DEF GetTake
  <2>2. /\ chan' \in [Events -> [Ports -> 0 .. 1]] /\ chan'[e][p] = 0
        /\ \A d \in Events, q \in Ports : d # e \/ q # p => chan'[d][q] = chan[d][q]
    <3>1. Store(e, p, 0) /\ e \in Events /\ 0 \in {0, 1}
      BY <1>2, <2>1, Zenon DEF Store
    <3>2. OnlySlot(e, p, 0)
      BY <1>0, <3>1, StoreFacts, Zenon
    <3>3. QED
      BY <3>2, Zenon DEF OnlySlot
  <2>3. ASSUME NEW d \in Events, NEW q \in Ports PROVE Slot(d, q)'
    <3>1. Slot(d, q)
      BY Zenon DEF Inv, Slots
    <3>2. CASE d # e \/ q # p
      <4>1. \A x \in Runners : (Holds(x, d, q)' => Holds(x, d, q)) /\ (Owes(x, d, q)' => Owes(x, d, q))
        BY <1>1, <2>1, <3>2, Zenon DEF Holds, Owes, Moves
      <4>2. QED
        BY <2>2, <3>1, <3>2, <4>1, SlotKept, Zenon
    <3>3. CASE d = e /\ q = p
      <4>1. \A x \in Runners : ~Holds(x, d, q) /\ ~Owes(x, d, q)
        BY <2>1, <3>1, <3>3, Zenon DEF Slot
      <4>2. \A x \in Runners : ~Owes(x, d, q)' /\ (Holds(x, d, q)' => x = r)
        BY <1>1, <2>1, <3>3, <4>1, Zenon DEF Holds, Owes, Moves
      <4>3. chan'[d][q] # 1
        BY <2>2, <3>3
      <4>4. QED
        BY <4>2, <4>3, Zenon DEF Slot
    <3>4. QED
      BY <3>2, <3>3, Zenon
  <2>4. QED
    <3>1. \E q \in Ports : {p} = {q}
      BY Zenon
    <3>2. Working(r) /\ \A d \in Events, q \in Ports : chan'[d][q] = chan[d][q] \/ (Working(r) /\ d = e)
      BY <1>2, <2>1, <2>2, Zenon
    <3>3. QED
      <4>1. PICK u, h : u = run[r].puts /\ h = {p}
        BY Zenon
      <4>2. Moves(r, "back", u, h) /\ \E q \in Ports : h = {q}
        BY <2>1, <3>1, <4>1, Zenon
      <4>3. QED
        BY <1>3, <2>2, <2>3, <3>2, <4>2, Zenon
<1>5. ASSUME GetBack(r) PROVE Inv'
  <2>0. PICK p \in Ports : run[r].hold = {p}
    BY <1>5, Zenon DEF GetBack, Inv, Slots
  <2>1. /\ run[r].at = "back" /\ chan[e][p] = 0 /\ chan' = [chan EXCEPT ![e][p] = 1]
        /\ Moves(r, "body", run[r].puts, {})
    BY <1>0, <1>1, <1>5, <2>0, Effects, Zenon DEF GetBack
  <2>2. /\ chan' \in [Events -> [Ports -> 0 .. 1]]
        /\ \A d \in Events, q \in Ports : d # e \/ q # p => chan'[d][q] = chan[d][q]
    <3>1. Store(e, p, 1) /\ e \in Events /\ 1 \in {0, 1}
      BY <1>2, <2>1, Zenon DEF Store
    <3>2. OnlySlot(e, p, 1)
      BY <1>0, <3>1, StoreFacts, Zenon
    <3>3. QED
      BY <3>2, Zenon DEF OnlySlot
  <2>3. ASSUME NEW d \in Events, NEW q \in Ports PROVE Slot(d, q)'
    <3>1. Slot(d, q)
      BY Zenon DEF Inv, Slots
    <3>2. CASE d # e \/ q # p
      <4>1. \A x \in Runners : (Holds(x, d, q)' => Holds(x, d, q)) /\ (Owes(x, d, q)' => Owes(x, d, q))
        BY <1>1, <2>1, <3>2, Zenon DEF Holds, Owes, Moves
      <4>2. QED
        BY <2>2, <3>1, <3>2, <4>1, SlotKept, Zenon
    <3>3. CASE d = e /\ q = p
      <4>1. Holds(r, d, q)
        BY <1>1, <2>0, <2>1, <3>3, Zenon DEF Holds
      <4>2. \A x \in Runners : ~Owes(x, d, q) /\ (Holds(x, d, q) => x = r)
        BY <3>1, <4>1, Zenon DEF Slot
      <4>3. \A x \in Runners : ~Owes(x, d, q)' /\ ~Holds(x, d, q)'
        BY <1>1, <2>1, <3>3, <4>2, Zenon DEF Holds, Owes, Moves
      <4>4. QED
        BY <4>3, Zenon DEF Slot
    <3>4. QED
      BY <3>2, <3>3, Zenon
  <2>4. QED
    BY <1>0, <1>2, <1>3, <2>1, <2>2, <2>3, Zenon
<1>6. ASSUME NEW p \in Ports, Put(r, p) PROVE Inv'
  <2>1. /\ run[r].at = "body" /\ p \in run[r].puts /\ chan' = [chan EXCEPT ![e][p] = 1]
        /\ Moves(r, "body", run[r].puts \ {p}, run[r].hold)
    BY <1>0, <1>1, <1>6, Effects, Zenon DEF Put
  <2>2. /\ chan' \in [Events -> [Ports -> 0 .. 1]]
        /\ \A d \in Events, q \in Ports : d # e \/ q # p => chan'[d][q] = chan[d][q]
    <3>1. Store(e, p, 1) /\ e \in Events /\ 1 \in {0, 1}
      BY <1>2, <2>1, ZenonT(60) DEF Store
    <3>2. OnlySlot(e, p, 1)
      BY <1>0, <3>1, StoreFacts, Zenon
    <3>3. QED
      BY <3>2, Zenon DEF OnlySlot
  <2>3. ASSUME NEW d \in Events, NEW q \in Ports PROVE Slot(d, q)'
    <3>1. Slot(d, q)
      BY Zenon DEF Inv, Slots
    <3>2. CASE d # e \/ q # p
      <4>1. \A x \in Runners : (Holds(x, d, q)' => Holds(x, d, q)) /\ (Owes(x, d, q)' => Owes(x, d, q))
        BY <1>1, <2>1, <3>2, Zenon DEF Holds, Owes, Moves
      <4>2. QED
        BY <2>2, <3>1, <3>2, <4>1, SlotKept, Zenon
    <3>3. CASE d = e /\ q = p
      <4>1. Owes(r, d, q)
        BY <1>1, <2>1, <3>3, Zenon DEF Owes
      <4>2. \A x \in Runners : ~Holds(x, d, q) /\ (Owes(x, d, q) => x = r)
        BY <3>1, <4>1, Zenon DEF Slot
      <4>3. \A x \in Runners : ~Owes(x, d, q)' /\ ~Holds(x, d, q)'
        BY <1>1, <2>1, <3>3, <4>2, Zenon DEF Holds, Owes, Moves
      <4>4. QED
        BY <4>3, Zenon DEF Slot
    <3>4. QED
      BY <3>2, <3>3, Zenon
  <2>4. QED
    BY <1>0, <1>2, <1>3, <2>1, <2>2, <2>3, Zenon
<1>7. ASSUME Abort(r) \/ Finish(r) \/ Deliver(r) PROVE Inv'
  <2>1. chan' = chan
    BY <1>7, Zenon DEF Abort, Finish, Deliver
  <2>2. PICK l \in {"reply", "ret", "gone"} : Moves(r, l, run[r].puts, run[r].hold)
    BY <1>0, <1>7, Effects, Zenon
  <2>3. ASSUME NEW d \in Events, NEW q \in Ports PROVE Slot(d, q)'
    <3>1. \A x \in Runners : (Holds(x, d, q)' => Holds(x, d, q)) /\ (Owes(x, d, q)' => Owes(x, d, q))
      BY <2>2, Zenon DEF Holds, Owes, Moves
    <3>2. QED
      BY <2>1, <3>1, SlotKept, Zenon DEF Inv, Slots
  <2>4. QED
    BY <1>0, <1>3, <2>1, <2>2, <2>3, Zenon DEF Typed
<1>8. QED
  BY <1>4, <1>5, <1>6, <1>7, Zenon DEF RunnerStep

\* A task hands its event to a writer, and a writer answers or ends.
LEMMA WriterKeeps ==
  ASSUME Inv, NEW o \in Outs, WriterStep(o)
  PROVE  Inv'
<1>0. Typed /\ RunFrame /\ chan' = chan /\ o \in Runners /\ ~Before
  <2>1. RunFrame /\ chan' = chan
    BY Zenon DEF WriterStep, WriterQuit, SendCtx, Reply, RunnerFrame, RunFrame, appVars, flowVars,
       retVars, loopVars
  <2>2. run[o].at # "off" /\ o \in Runners
    BY Zenon DEF WriterStep, WriterQuit, SendCtx, Reply, Runners
  <2>3. QED
    BY <2>1, <2>2, Zenon DEF Inv, Quiet
<1>1. ASSUME run' \in [Runners -> State],
             \A x \in Runners : \/ run'[x].at \notin {"body", "back"} /\ (Working(x)' => Working(x) /\ run'[x].evt = run[x].evt)
                                \/ run'[x] = run[x]
                                \/ /\ run'[x].at = "body" /\ run'[x].puts = {} /\ run'[x].hold = {}
                                   /\ \E y \in Runners : Working(y) /\ run'[x].evt = run[y].evt
      PROVE  Inv'
  <2>1. \A x \in Runners : run'[x].at = "back" => \E p \in Ports : run'[x].hold = {p}
    BY <1>1, ZenonT(60) DEF Inv, Slots
  <2>2. ASSUME NEW d \in Events, NEW q \in Ports PROVE Slot(d, q)'
    <3>1. \A x \in Runners : (Holds(x, d, q)' => Holds(x, d, q)) /\ (Owes(x, d, q)' => Owes(x, d, q))
      BY <1>1, Zenon DEF Holds, Owes
    <3>2. QED
      BY <1>0, <3>1, SlotKept, Zenon DEF Inv, Slots
  <2>3. Slots'
    BY <2>1, <2>2, Zenon DEF Slots
  <2>4. \A x \in Runners : Working(x)' => \E y \in Runners : Working(y) /\ run'[x].evt = run[y].evt
    BY <1>1, Zenon DEF Working
  <2>5. QED
    BY <1>0, <1>1, <2>3, <2>4, RunnersKeep, Zenon DEF Typed
<1>2. CASE WriterQuit(o)
  <2>1. Moves(o, "gone", run[o].puts, run[o].hold)
    BY <1>0, <1>2, Effects, Zenon
  <2>2. QED
    BY <1>1, <2>1, Zenon DEF Moves, Working
<1>3. ASSUME NEW r \in Events \X Outs, SendCtx(r, o) \/ Reply(r, o) PROVE Inv'
  <2>0. r \in Runners /\ run[r] \in State /\ run[o] \in State
    BY <1>0 DEF Runners, AllProcs, Typed
  <2>1. CASE SendCtx(r, o)
    <3>0. run[r].at = "send" /\ r # o /\ Working(r) /\ run[r].evt \in Nat /\ Keys(in[o]) \in SUBSET Ports
      BY <2>0, <2>1 DEF SendCtx, Working, State, Keys
    <3>1. PICK x \in State, y \in State :
            /\ run' = [run EXCEPT ![r] = x, ![o] = y]
            /\ x.at = "wait" /\ x.evt = run[r].evt
            /\ y.at = "body" /\ y.evt = run[r].evt /\ y.puts = {} /\ y.hold = {}
      <4> DEFINE x == [run[r] EXCEPT !.at = "wait"]
                 y == [Idle EXCEPT !.at = "body", !.evt = run[r].evt, !.gets = Keys(in[o])]
      <4>1. x \in State /\ x.at = "wait" /\ x.evt = run[r].evt
        BY <2>0 DEF State, Ats
      <4>2. y \in State /\ y.at = "body" /\ y.evt = run[r].evt /\ y.puts = {} /\ y.hold = {}
        BY <3>0, Zenon DEF State, Ats, Idle, Off
      <4>3. run' = [run EXCEPT ![r] = x, ![o] = y]
        BY <1>0, <2>0, <2>1, <3>0 DEF SendCtx, Typed
      <4>4. QED
        BY <4>1, <4>2, <4>3, Zenon
    <3>2. /\ run' \in [Runners -> State] /\ run'[r] = x /\ run'[o] = y
          /\ \A q \in Runners : q # r /\ q # o => run'[q] = run[q]
      BY <1>0, <2>0, <3>0, <3>1, Zenon DEF Typed
    <3>3. QED
      BY <1>1, <2>0, <3>0, <3>1, <3>2, Zenon
  <2>2. CASE Reply(r, o)
    <3>0. run[r].at = "wait" /\ r # o
      BY <2>2, Zenon DEF Reply
    <3>1. PICK x \in State, y \in State : run' = [run EXCEPT ![r] = x, ![o] = y] /\ x.at = "ret" /\ y.at = "idle"
      <4> DEFINE x == [run[r] EXCEPT !.at = "ret", !.res = run[o].res]
      <4>1. x \in State /\ x.at = "ret"
        BY <2>0, Zenon DEF State, Ats
      <4>2. Idle \in State /\ Idle.at = "idle"
        BY DEF State, Ats, Idle, Off
      <4>3. run' = [run EXCEPT ![r] = x, ![o] = Idle]
        BY <1>0, <2>0, <2>2, <3>0, Zenon DEF Reply, Typed
      <4>4. QED
        BY <4>1, <4>2, <4>3, Zenon
    <3>2. /\ run' \in [Runners -> State] /\ run'[r] = x /\ run'[o] = y
          /\ \A q \in Runners : q # r /\ q # o => run'[q] = run[q]
      BY <1>0, <2>0, <3>0, <3>1, Zenon DEF Typed
    <3>3. QED
      BY <1>1, <2>0, <3>0, <3>1, <3>2, Zenon DEF Working
  <2>3. QED
    BY <1>3, <2>1, <2>2, Zenon
<1>4. QED
  BY <1>2, <1>3, Zenon DEF WriterStep

-----------------------------------------------------------------------------
LEMMA InvStep == Inv /\ [Next]_vars => Inv'
<1> SUFFICES ASSUME Inv, [Next]_vars PROVE Inv'
  OBVIOUS
<1>1. CASE UNCHANGED vars
  <2>1. UNCHANGED <<out, edges, evts, ievt, run, nprocs, chan, prod, err, state>>
    BY <1>1, Zenon DEF vars, appVars, flowVars, retVars, loopVars, runVars
  <2>2. QED
    BY <2>1, CalmKeeps, Zenon DEF Before, Inv, Typed
<1>2. CASE Configure
  BY <1>2, ConfigureKeeps, Zenon DEF Configure
<1>3. CASE LifeStep
  BY <1>3, LifeKeeps, RunKeeps, Zenon DEF LifeStep
<1>4. CASE LoopStep
  <2>1. ASSUME NEW w, WorkerStep(w) PROVE Inv'
    BY <2>1, TakeKeeps, CollectKeeps, Zenon DEF WorkerStep
  <2>2. CASE ProducerStep
    BY <2>2, ProduceKeeps, SeqNextKeeps, Zenon DEF ProducerStep
  <2>3. QED
    BY <1>4, <2>1, <2>2, RunnerKeeps, WriterKeeps, Zenon DEF LoopStep
<1>5. QED
  BY <1>1, <1>2, <1>3, <1>4, Zenon DEF Next

(***************************************************************************)
(* Get never blocks on putting a value back: no port has two producers,    *)
(* each puts it once in an event, and a value that was taken out is with   *)
(* one reader.  For any application that Configure accepted, cyclic or     *)
(* not, any number of workers, and events that were aborted.               *)
(***************************************************************************)
THEOREM PutsBack == Spec => []PutBackFree
<1>1. Inv => PutBackFree
  <2> SUFFICES ASSUME Inv, NEW r \in Runners, run[r].at = "back", NEW p \in run[r].hold
               PROVE  chan[run[r].evt][p] = 0
    BY Zenon DEF PutBackFree
  <2>1. run[r].evt \in Events /\ p \in Ports
    BY EventLoopAssumption DEF Inv, Typed, State, Queue, Working, Events
  <2>2. Slot(run[r].evt, p) /\ Holds(r, run[r].evt, p)
    BY <2>1, Zenon DEF Inv, Slots, Holds
  <2>3. chan[run[r].evt][p] # 1 /\ chan[run[r].evt][p] \in 0 .. 1
    BY <2>1, <2>2, Zenon DEF Slot, Inv, Typed
  <2>4. QED
    BY <2>3
<1>2. QED
  BY <1>1, InitInv, InvStep, PTL DEF Spec

=============================================================================
