------------------------------ MODULE Streams ------------------------------
(***************************************************************************)
(* What a stream multiplexer promises to a session, without its goroutines,*)
(* its mutex and its pool of ids: a stream is opened under an id nobody    *)
(* has, takes deliveries while it is open, is retired once, and ends, once *)
(* and for good, when the last delivery to it has left.                    *)
(***************************************************************************)
EXTENDS Integers

CONSTANTS Names,       \* the ids under which a stream can be open
          Handles,     \* the streams
          NoHandle,
          Deliverers   \* the goroutines that deliver

VARIABLES held,        \* the stream open under each id, or NoHandle
          phase,       \* where each stream is in its life
          inflight,    \* the deliveries in progress to each stream
          shut         \* no stream can be opened any more

streamVars == <<held, phase, inflight, shut>>

Init ==
  /\ held = [i \in Names |-> NoHandle]
  /\ phase = [h \in Handles |-> "new"]
  /\ inflight = [h \in Handles |-> {}]
  /\ shut = FALSE

Open(i, h) ==
  /\ ~shut /\ held[i] = NoHandle /\ phase[h] = "new"
  /\ held' = [held EXCEPT ![i] = h]
  /\ phase' = [phase EXCEPT ![h] = "open"]
  /\ UNCHANGED <<inflight, shut>>

BeginDelivery(h, t) ==
  /\ phase[h] = "open"
  /\ inflight' = [inflight EXCEPT ![h] = @ \cup {t}]
  /\ UNCHANGED <<held, phase, shut>>

EndDelivery(h, t) ==
  /\ t \in inflight[h]
  /\ inflight' = [inflight EXCEPT ![h] = @ \ {t}]
  /\ UNCHANGED <<held, phase, shut>>

Retire(i) ==
  /\ held[i] # NoHandle
  /\ held' = [held EXCEPT ![i] = NoHandle]
  /\ phase' = [phase EXCEPT ![held[i]] = "closing"]
  /\ UNCHANGED <<inflight, shut>>

Finish(h) ==
  /\ phase[h] = "closing" /\ inflight[h] = {}
  /\ phase' = [phase EXCEPT ![h] = "closed"]
  /\ UNCHANGED <<held, inflight, shut>>

Shut ==
  /\ ~shut /\ shut' = TRUE
  /\ UNCHANGED <<held, phase, inflight>>

Next ==
  \/ \E i \in Names, h \in Handles : Open(i, h)
  \/ \E h \in Handles, t \in Deliverers : BeginDelivery(h, t) \/ EndDelivery(h, t)
  \/ \E i \in Names : Retire(i)
  \/ \E h \in Handles : Finish(h)
  \/ Shut

Spec == Init /\ [][Next]_streamVars

=============================================================================
