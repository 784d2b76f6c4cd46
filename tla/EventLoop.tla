----------------------------- MODULE EventLoop -----------------------------
(***************************************************************************)
(* An application of fwk: its life cycle (fwk/app.go, fsm), the sequential *)
(* and the concurrent event loop, the workers and task runners             *)
(* (worker.go), the store of each event (store.go) and the streams         *)
(* (inputstream.go, outputstream.go), over the ports DataFlow accepted.    *)
(*                                                                         *)
(* An event is a number.  A value in the store is a token: a port's        *)
(* one-slot channel holds it or not.  The code of a task is external: it   *)
(* gets the ports it declared as input, then puts those it declared as     *)
(* output, and may fail at any point.  The goroutines that execute such    *)
(* code (a task in an event, the writer of an output stream) are runners.  *)
(***************************************************************************)
EXTENDS DataFlow

CONSTANTS
  Input,          \* the InputStream (or the event pumper that takes its place)
  Tasks,          \* tasks that are not streams
  Outs,           \* the OutputStreams
  NProcs,         \* the values of NProcs; 0 is sequential
  EvtMax,         \* app.evtmax
  MaxFails,       \* bound: failures of user code
  SelfLoops,      \* a component may read a port it writes
  Explored(_, _)  \* bound: the flows whose event loop is explored

ASSUME EventLoopAssumption ==
  /\ Comps = {Input} \cup Tasks \cup Outs
  /\ Input \notin Tasks \cup Outs /\ Tasks \cap Outs = {}
  /\ NProcs \subseteq Nat /\ EvtMax \in Nat /\ MaxFails \in Nat
  /\ SelfLoops \in BOOLEAN

VARIABLES
  state,      \* app.state
  err,        \* what Run returned, or the loop if Run goes on: "none" before
  nprocs,     \* app.nprocs
  ievt,       \* the next event of the loop
  prod,       \* the goroutine of runConcurrent that produces events
  evts,       \* ctrl.evts
  evtsClosed, \* ctrl.evts is closed
  worker,     \* the workers; worker 0 is the loop of runSequential
  ndone,      \* workers that have reported done
  first,      \* the first error the control loop has recorded
  chan,       \* the events' stores: tokens in the channel of each port
  quit,       \* the events whose store is closed
  over,       \* the events whose context is cancelled
  errc,       \* the results of the tasks of each event, in order
  run,        \* the runners
  oquit,      \* octrl.Quit is closed
  written,    \* the events each OutputStreamer has written
  fails       \* failures of user code so far

appVars == <<flowVars, state, nprocs>>
retVars == <<err, over, oquit>>
loopVars == <<ievt, prod, evts, evtsClosed, ndone, first>>
runVars == <<errc, run, written>>
vars == <<appVars, retVars, loopVars, worker, chan, quit, runVars, fails>>

Events == 0 .. EvtMax - 1
AllProcs == Tasks \cup Outs
Procs == Nodes \ {Input}                    \* app.tsks, the InputStream deleted
Runners == (Events \X AllProcs) \cup Outs   \* tasks in an event, and writers
Workers == 1 .. nprocs
MaxProcs == CHOOSE n \in NProcs : \A m \in NProcs : m <= n

Runner == [at : {"off", "idle", "body", "back", "send", "wait", "ret", "reply", "gone"},
           evt : Events, gets : SUBSET Ports, puts : SUBSET Ports,
           hold : SUBSET Ports, res : {"ok", "err"}]
Off == [at |-> "off", evt |-> 0, gets |-> {}, puts |-> {}, hold |-> {}, res |-> "ok"]
Idle == [Off EXCEPT !.at = "idle"]

\* Every channel stays within its capacity: the events, the values, the results.
TypeOK ==
  /\ FlowTypeOK
  /\ state \in {"Undefined", "Configuring", "Configured", "Starting", "Started",
                "Running", "Stopping", "Stopped", "Offline"}
  /\ err \in {"none", "nil", "err", "EOF"}
  /\ nprocs \in NProcs
  /\ ievt \in 0 .. EvtMax
  /\ prod \in {"off", "read", "push", "err", "close", "gone"}
  /\ evts \in Seq(Events) /\ Len(evts) <= 2 * nprocs
  /\ evtsClosed \in BOOLEAN
  /\ worker \in [0 .. MaxProcs -> [at : {"off", "idle", "collect", "err", "done", "gone"},
                                   evt : Events, n : 0 .. Cardinality(Comps)]]
  /\ ndone \in 0 .. MaxProcs
  /\ first \in {"nil", "err"}
  /\ chan \in [Events -> [Ports -> 0 .. 1]]
  /\ quit \subseteq Events /\ over \subseteq Events
  /\ errc \in [Events -> Seq({"ok", "err"})]
  /\ \A e \in Events : Len(errc[e]) <= Cardinality(Procs)
  /\ run \in [Runners -> Runner]
  /\ oquit \in BOOLEAN
  /\ written \in [Outs -> Seq(Events)]
  /\ fails \in 0 .. MaxFails

Init ==
  /\ FlowInit
  /\ state = "Undefined" /\ err = "none"
  /\ nprocs \in NProcs
  /\ ievt = 0 /\ prod = "off" /\ evts = <<>> /\ evtsClosed = FALSE
  /\ worker = [w \in 0 .. MaxProcs |-> [at |-> "off", evt |-> 0, n |-> 0]]
  /\ ndone = 0 /\ first = "nil"
  /\ chan = [e \in Events |-> [p \in Ports |-> 0]]
  /\ quit = {} /\ over = {}
  /\ errc = [e \in Events |-> <<>>]
  /\ run = [r \in Runners |-> Off]
  /\ oquit = FALSE
  /\ written = [o \in Outs |-> <<>>]
  /\ fails = 0

MayFail == fails < MaxFails /\ fails' = fails + 1

-----------------------------------------------------------------------------
(* The life cycle: configure, start, run, stop, shutdown. *)

LifeFrame == UNCHANGED <<nprocs, over, oquit, loopVars, chan, quit, runVars>>

\* configure: the Configure methods declare their ports.  An InputStream only
\* has out-ports, an OutputStream only in-ports.
DeclInPort(c, p, t) ==
  /\ state \in {"Undefined", "Configuring"} /\ err = "none"
  /\ c # Input
  /\ out[c][p] # NoType => SelfLoops
  /\ state' = "Configuring"
  /\ \/ addInNode(c, p, t, TRUE) /\ UNCHANGED err
     \/ addInNode(c, p, t, FALSE) /\ err' = "err"
  /\ LifeFrame /\ UNCHANGED <<worker, fails>>

DeclOutPort(c, p, t) ==
  /\ state \in {"Undefined", "Configuring"} /\ err = "none"
  /\ c \notin Outs
  /\ in[c][p] # NoType => SelfLoops
  /\ state' = "Configuring"
  /\ \/ addOutNode(c, p, t, TRUE) /\ UNCHANGED err
     \/ addOutNode(c, p, t, FALSE) /\ err' = "err"
  /\ LifeFrame /\ UNCHANGED <<worker, fails>>

\* The last Configure method has returned, or one has failed.
Configured ==
  /\ state \in {"Undefined", "Configuring"} /\ err = "none"
  /\ \/ state' = "Configured" /\ UNCHANGED <<err, fails>>
     \/ state' = "Configuring" /\ err' = "err" /\ MayFail
  /\ LifeFrame /\ UNCHANGED <<flowVars, worker>>

\* start: the services, of which only the data flow can refuse, then the tasks.
Start(order) ==
  /\ state = "Configured"
  /\ \/ StartSvc(order) /\ state' = "Started" /\ UNCHANGED <<err, fails>>
     \/ StartSvc(order) /\ state' = "Starting" /\ err' = "err" /\ MayFail
     \/ ~StartSvc(order) /\ state' = "Starting" /\ err' = "err" /\ UNCHANGED fails
  /\ LifeFrame /\ UNCHANGED <<flowVars, worker>>

\* startOutputStreams: the writers of the streams in S are started.
startOutputStreams(S) == run' = [r \in Runners |-> IF r \in S THEN Idle ELSE run[r]]

\* run, up to the loop: the streams are connected and the goroutines started.  When
\* a streamer does not connect, the writers started before it are left waiting.
Run ==
  /\ state = "Started" /\ Explored(in, out)
  /\ state' = "Running"
  /\ \/ /\ startOutputStreams(Outs \cap Procs)
        /\ prod' = IF nprocs = 0 THEN "off" ELSE "read"
        /\ worker' = [w \in DOMAIN worker |->
                        IF w \in (IF nprocs = 0 THEN {0} ELSE Workers)
                          THEN [worker[w] EXCEPT !.at = "idle"] ELSE worker[w]]
        /\ UNCHANGED <<err, over, fails>>
     \/ /\ \E S \in (SUBSET (Outs \cap Procs) \ {Outs \cap Procs}) \cup {{}} :
             startOutputStreams(S)
        /\ err' = "err" /\ over' = Events /\ MayFail
        /\ UNCHANGED <<prod, worker>>
  /\ UNCHANGED <<flowVars, nprocs, oquit, ievt, evts, evtsClosed, ndone, first, chan, quit,
                 errc, written>>

\* The loop returns: the deferred calls cancel and close everything.
Return(e) == err' = e /\ oquit' = TRUE /\ over' = Events

\* Run stops the application, unless the loop ended with an error other than EOF.
Stop ==
  /\ state = "Running" /\ err \in {"nil", "EOF"}
  /\ \/ state' = "Stopped" /\ err' = "nil" /\ UNCHANGED fails
     \/ state' = "Stopping" /\ err' = "err" /\ MayFail
  /\ LifeFrame /\ UNCHANGED <<flowVars, worker>>

Shutdown ==
  /\ state = "Stopped"
  /\ state' = "Offline"
  /\ LifeFrame /\ UNCHANGED <<flowVars, err, worker, fails>>

-----------------------------------------------------------------------------
(* Producing events. *)

\* datastore.reset empties the channels of an event, datastore.close aborts it.
reset(e) == [chan EXCEPT ![e] = [p \in Ports |-> 0]]
close(e) == quit' = quit \cup {e}

\* The store of an event once istream.Process has put the ports of the stream.
Fill(e) ==
  chan' = [chan EXCEPT ![e] = [p \in Ports |-> IF p \in Keys(out[Input]) THEN 1 ELSE 0]]

\* Start the tasks of event e.
Launch(e) ==
  run' = [r \in Runners |->
    CASE r \in {e} \X (Tasks \cap Procs) ->
           [Off EXCEPT !.at = "body", !.evt = e,
                       !.gets = Keys(in[r[2]]), !.puts = Keys(out[r[2]])]
      [] r \in {e} \X (Outs \cap Procs) -> [Off EXCEPT !.at = "send", !.evt = e]
      [] OTHER -> run[r]]

\* The goroutine of runConcurrent: an event, an error of the stream, or the end,
\* of the input or of the count.
Produce ==
  /\ prod = "read"
  /\ \/ ievt < EvtMax /\ Fill(ievt) /\ prod' = "push" /\ UNCHANGED fails
     \/ ievt < EvtMax /\ MayFail /\ prod' = "err" /\ UNCHANGED chan
     \/ prod' = "close" /\ UNCHANGED <<chan, fails>>
  /\ UNCHANGED <<appVars, retVars, ievt, evts, evtsClosed, ndone, first, worker, quit,
                 runVars>>

Push ==
  /\ prod = "push" /\ Len(evts) < 2 * nprocs
  /\ evts' = Append(evts, ievt)
  /\ ievt' = ievt + 1
  /\ prod' = "read"
  /\ UNCHANGED <<appVars, retVars, evtsClosed, ndone, first, worker, chan, quit, runVars,
                 fails>>

\* ctrl.errc <- err meets the control loop.
ProduceErr ==
  /\ prod = "err" /\ err = "none"
  /\ first' = "err"
  /\ prod' = "close"
  /\ UNCHANGED <<appVars, retVars, ievt, evts, evtsClosed, ndone, worker, chan, quit,
                 runVars, fails>>

CloseEvts ==
  /\ prod = "close"
  /\ evtsClosed' = TRUE
  /\ prod' = "gone"
  /\ UNCHANGED <<appVars, retVars, ievt, evts, ndone, first, worker, chan, quit, runVars,
                 fails>>

\* runSequential reads the next event itself and starts its tasks.  An error of the
\* stream, its end, and an error of resetting the store all end the loop.
SeqNext ==
  /\ nprocs = 0 /\ state = "Running" /\ err = "none" /\ worker[0].at = "idle"
  /\ \/ /\ ievt < EvtMax
        /\ ievt' = ievt + 1
        /\ Fill(ievt) /\ Launch(ievt)
        /\ worker' = [worker EXCEPT ![0] = [at |-> "collect", evt |-> ievt, n |-> 0]]
        /\ UNCHANGED <<retVars, fails>>
     \/ /\ ievt = EvtMax
        /\ Return("nil")
        /\ UNCHANGED <<ievt, chan, run, worker, fails>>
     \/ /\ ievt < EvtMax
        /\ \/ Return("EOF") /\ UNCHANGED fails
           \/ Return("err") /\ MayFail
        /\ UNCHANGED <<ievt, chan, run, worker>>
  /\ UNCHANGED <<appVars, prod, evts, evtsClosed, ndone, first, quit, errc, written>>

-----------------------------------------------------------------------------
(* worker.run and runTask; runSequential collects results as runTask does. *)

WorkerFrame == UNCHANGED <<appVars, ievt, prod, evtsClosed, written>>

\* The next event, for which runTask starts its tasks ...
Take(w) ==
  /\ w \in Workers /\ worker[w].at = "idle" /\ evts # <<>>
  /\ evts' = Tail(evts)
  /\ Launch(Head(evts))
  /\ worker' = [worker EXCEPT ![w] = [at |-> "collect", evt |-> Head(evts), n |-> 0]]
  /\ WorkerFrame /\ UNCHANGED <<retVars, ndone, first, chan, quit, errc, fails>>

\* ... or the end of the channel.
TakeClosed(w) ==
  /\ w \in Workers /\ worker[w].at = "idle" /\ evts = <<>> /\ evtsClosed
  /\ worker' = [worker EXCEPT ![w].at = "done"]
  /\ WorkerFrame
  /\ UNCHANGED <<retVars, evts, ndone, first, chan, quit, errc, run, fails>>

\* Receive the next result of the event's tasks.
Receive(w, res) ==
  LET e == worker[w].evt IN
  /\ worker[w].at = "collect" /\ errc[e] # <<>> /\ Head(errc[e]) = res
  /\ errc' = [errc EXCEPT ![e] = Tail(@)]
  /\ WorkerFrame /\ UNCHANGED <<evts, ndone, first, run>>

\* Defect: the store of the event is not closed.
CollectErrOpen(w) ==
  /\ Receive(w, "err")
  /\ worker' = [worker EXCEPT ![w].at = IF w = 0 THEN "gone" ELSE "err"]
  /\ IF w = 0 THEN Return("err") ELSE UNCHANGED retVars
  /\ UNCHANGED <<chan, quit, fails>>

\* The first error closes the store of the event; its other tasks are left alone.
CollectErr(w) ==
  /\ Receive(w, "err")
  /\ close(worker[w].evt)
  /\ worker' = [worker EXCEPT ![w].at = IF w = 0 THEN "gone" ELSE "err"]
  /\ IF w = 0 THEN Return("err") ELSE UNCHANGED retVars
  /\ UNCHANGED <<chan, fails>>

CollectOk(w) ==
  /\ worker[w].at = "collect" /\ worker[w].n + 1 < Cardinality(Procs)
  /\ Receive(w, "ok")
  /\ worker' = [worker EXCEPT ![w].n = @ + 1]
  /\ UNCHANGED <<retVars, chan, quit, fails>>

\* Defect: the last result is not waited for.
CollectLastEarly(w) ==
  /\ worker[w].n + 2 = Cardinality(Procs)
  /\ Receive(w, "ok")
  /\ close(worker[w].evt)
  /\ over' = over \cup {worker[w].evt}
  /\ worker' = [worker EXCEPT ![w].at = "idle"]
  /\ UNCHANGED <<err, oquit, chan, fails>>

\* All tasks are done.  A worker resets the store, which deletes the values and may
\* fail; runSequential leaves that to the next event.  The store is closed.
CollectLast(w) ==
  LET e == worker[w].evt IN
  /\ worker[w].at = "collect" /\ worker[w].n + 1 = Cardinality(Procs)
  /\ Receive(w, "ok")
  /\ close(e)
  /\ chan' = IF w = 0 THEN chan ELSE reset(e)
  /\ \/ /\ worker' = [worker EXCEPT ![w].at = "idle"]
        /\ over' = over \cup {e}
        /\ UNCHANGED fails
     \/ /\ w # 0 /\ MayFail
        /\ worker' = [worker EXCEPT ![w].at = "err"]
        /\ UNCHANGED over
  /\ UNCHANGED <<err, oquit>>

\* Defect: the control loop drops the error.
SendErrDropped(w) ==
  /\ worker[w].at = "err" /\ err = "none"
  /\ over' = over \cup {worker[w].evt}
  /\ worker' = [worker EXCEPT ![w].at = "idle"]
  /\ WorkerFrame /\ UNCHANGED <<err, oquit, evts, ndone, first, chan, quit, errc, run, fails>>

\* wrk.errc <- err meets the control loop, which keeps the first; runTask returns.
SendErr(w) ==
  /\ worker[w].at = "err" /\ err = "none"
  /\ first' = "err"
  /\ over' = over \cup {worker[w].evt}
  /\ worker' = [worker EXCEPT ![w].at = "idle"]
  /\ WorkerFrame /\ UNCHANGED <<err, oquit, evts, ndone, chan, quit, errc, run, fails>>

\* wrk.done meets the control loop, which returns with the last of them.
SendDone(w) ==
  /\ worker[w].at = "done" /\ err = "none"
  /\ worker' = [worker EXCEPT ![w].at = "gone"]
  /\ ndone' = ndone + 1
  /\ IF ndone' = nprocs THEN Return(first) ELSE UNCHANGED retVars
  /\ WorkerFrame /\ UNCHANGED <<evts, first, chan, quit, errc, run, fails>>

-----------------------------------------------------------------------------
(* Runners: the code of a task or of an OutputStreamer, over datastore. *)

RunnerFrame == UNCHANGED <<appVars, retVars, loopVars, worker, quit>>

\* Defect: the value stays in the channel while it is read.
GetTakeCopy(r, p) ==
  /\ run[r].at = "body" /\ p \in run[r].gets
  /\ chan[run[r].evt][p] = 1
  /\ run' = [run EXCEPT ![r].at = "back", ![r].hold = {p}]
  /\ RunnerFrame /\ UNCHANGED <<chan, errc, written, fails>>

\* Get: take the value out of the channel ...
GetTake(r, p) ==
  /\ run[r].at = "body" /\ p \in run[r].gets
  /\ chan[run[r].evt][p] = 1
  /\ chan' = [chan EXCEPT ![run[r].evt][p] = 0]
  /\ run' = [run EXCEPT ![r].at = "back", ![r].hold = {p}]
  /\ RunnerFrame /\ UNCHANGED <<errc, written, fails>>

\* ... and put it back for the next reader.
GetBack(r) ==
  /\ run[r].at = "back"
  /\ \A p \in run[r].hold :
       /\ chan[run[r].evt][p] = 0
       /\ chan' = [chan EXCEPT ![run[r].evt][p] = 1]
  /\ run' = [run EXCEPT ![r].at = "body", ![r].gets = @ \ run[r].hold, ![r].hold = {}]
  /\ RunnerFrame /\ UNCHANGED <<errc, written, fails>>

Put(r, p) ==
  /\ run[r].at = "body" /\ run[r].gets = {} /\ p \in run[r].puts
  /\ chan[run[r].evt][p] = 0
  /\ chan' = [chan EXCEPT ![run[r].evt][p] = 1]
  /\ run' = [run EXCEPT ![r].puts = @ \ {p}]
  /\ RunnerFrame /\ UNCHANGED <<errc, written, fails>>

\* What comes after the code of a runner.
After(r) == IF r \in Outs THEN "reply" ELSE "ret"

\* The quit case of Get and of Put, and any failure of the code itself.
Abort(r) ==
  /\ run[r].at = "body"
  /\ \/ run[r].gets \cup run[r].puts # {} /\ run[r].evt \in quit /\ UNCHANGED fails
     \/ MayFail
  /\ run' = [run EXCEPT ![r].at = After(r), ![r].res = "err"]
  /\ RunnerFrame /\ UNCHANGED <<chan, errc, written>>

\* The code is done; an OutputStreamer has written the event.
Finish(r) ==
  /\ run[r].at = "body" /\ run[r].gets \cup run[r].puts = {}
  /\ run' = [run EXCEPT ![r].at = After(r)]
  /\ written' = IF r \in Outs THEN [written EXCEPT ![r] = Append(@, run[r].evt)] ELSE written
  /\ RunnerFrame /\ UNCHANGED <<chan, errc, fails>>

\* taskrunner.run: the result is delivered, or dropped if the context has ended.
Deliver(r) ==
  /\ run[r].at = "ret"
  /\ run' = [run EXCEPT ![r].at = "gone"]
  /\ \/ errc' = [errc EXCEPT ![run[r].evt] = Append(@, run[r].res)]
     \/ run[r].evt \in over /\ UNCHANGED errc
  /\ RunnerFrame /\ UNCHANGED <<chan, written, fails>>

\* OutputStream.Process: the context goes to a writer.  All output streams are
\* connected to one StreamControl, so the writer may be another stream's.
SendCtx(r, o) ==
  /\ run[r].at = "send" /\ run[o].at = "idle"
  /\ run' = [run EXCEPT ![r].at = "wait",
                        ![o] = [Idle EXCEPT !.at = "body", !.evt = run[r].evt,
                                            !.gets = Keys(in[o])]]
  /\ RunnerFrame /\ UNCHANGED <<chan, errc, written, fails>>

\* tsk.ctrl.Err <- err meets a Process waiting for it.
Reply(r, o) ==
  /\ run[o].at = "reply" /\ run[r].at = "wait"
  /\ run' = [run EXCEPT ![o] = Idle, ![r].at = "ret", ![r].res = run[o].res]
  /\ RunnerFrame /\ UNCHANGED <<chan, errc, written, fails>>

WriterQuit(o) ==
  /\ run[o].at = "idle" /\ oquit
  /\ run' = [run EXCEPT ![o].at = "gone"]
  /\ RunnerFrame /\ UNCHANGED <<chan, errc, written, fails>>

-----------------------------------------------------------------------------
Configure ==
  \E c \in Comps, p \in Ports, t \in Types : DeclInPort(c, p, t) \/ DeclOutPort(c, p, t)

LifeStep ==
  \/ Configured
  \/ \E order \in Orders(Nodes) : Start(order)
  \/ Run \/ Stop \/ Shutdown

ProducerStep == Produce \/ Push \/ ProduceErr \/ CloseEvts \/ SeqNext

WorkerStep(w) ==
  \/ Take(w) \/ TakeClosed(w)
  \/ CollectErr(w) \/ CollectOk(w) \/ CollectLast(w)
  \/ SendErr(w) \/ SendDone(w)

RunnerStep(r) ==
  \/ \E p \in Ports : GetTake(r, p) \/ Put(r, p)
  \/ GetBack(r) \/ Abort(r) \/ Finish(r) \/ Deliver(r)

WriterStep(o) ==
  \/ WriterQuit(o)
  \/ \E r \in Events \X Outs : SendCtx(r, o) \/ Reply(r, o)

LoopStep ==
  \/ \E r \in Runners : RunnerStep(r)
  \/ \E w \in 0 .. MaxProcs : WorkerStep(w)
  \/ \E o \in Outs : WriterStep(o)
  \/ ProducerStep

Next == Configure \/ LifeStep \/ LoopStep

Spec == Init /\ [][Next]_vars

\* While a goroutine of the loop can take a step, one of them does, and the code of
\* the tasks ends.  No fairness between goroutines is needed.
FairSpec == Spec /\ WF_vars(LoopStep)

-----------------------------------------------------------------------------
(* What StartSvc is to establish, stated without its graph and its stack. *)

Feeds == {cd \in Comps \X Comps : Keys(out[cd[1]]) \cap Keys(in[cd[2]]) # {}}

\* c needs, through some chain of ports, what it produces: every set of components
\* that contains those fed by c and is closed under Feeds contains c.
OnCycle(c) ==
  \A S \in SUBSET Comps :
    (\A cd \in Feeds : cd[1] \in S \cup {c} => cd[2] \in S) => c \in S

FlowRight ==
  /\ \A c, d \in Comps : c # d => Keys(out[c]) \cap Keys(out[d]) = {}
  /\ \A c \in Comps : \A p \in Keys(in[c]) : \E d \in Comps : out[d][p] = in[c][p]
  /\ \A c \in Comps : ~OnCycle(c)

(***************************************************************************)
(* StartSvc accepts exactly the applications in which every port has one   *)
(* producer, every port that is read has a producer of the same type, and  *)
(* no component waits, through any chain of ports, for itself; in whatever *)
(* order the map of nodes is walked.  (A StartTask that fails is apart.)   *)
(***************************************************************************)
StartedIsRight ==
  /\ state = "Started" => FlowRight
  /\ state = "Starting" /\ fails = 0 => ~FlowRight

(***************************************************************************)
(* When the loop ends without an error, every event that was read has been *)
(* processed to its end by every task, and written once by every output    *)
(* stream: "Process gets data from the store and writes it out via the     *)
(* underlying OutputStreamer".                                             *)
(***************************************************************************)
EachOnce ==
  err \in {"nil", "EOF"} => \A e \in 0 .. ievt - 1 :
    /\ \A t \in Procs : run[<<e, t>>].at = "gone" /\ run[<<e, t>>].res = "ok"
    /\ \A o \in Outs \cap Procs : Cardinality({i \in DOMAIN written[o] : written[o][i] = e}) = 1

(***************************************************************************)
(* No failure is lost: whichever task of whichever event failed, in        *)
(* whatever order the workers, the producer and the control loop got to    *)
(* know, Run does not return as if nothing had happened.                   *)
(***************************************************************************)
NoErrorLost == err \in {"nil", "EOF"} => fails = 0

(***************************************************************************)
(* Get takes a value out of a one-slot channel and puts it back with a     *)
(* plain send that no quit guards: the slot is always free for it.         *)
(***************************************************************************)
PutBackFree ==
  \A r \in Runners : run[r].at = "back" => \A p \in run[r].hold : chan[run[r].evt][p] = 0

(***************************************************************************)
(* The event loop of an application that StartSvc accepted ends, whatever  *)
(* fails, and so does every task it started, although runTask does not     *)
(* wait for the tasks of an event that failed: datastore.close "notifies   *)
(* components hanging on store.Get or .Put that event has been aborted".   *)
(***************************************************************************)
LoopEnds ==
  state = "Running" ~>
    err # "none" /\ \A r \in Events \X Tasks : run[r].at \in {"off", "gone"}

=============================================================================
