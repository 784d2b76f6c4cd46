---------------------------- MODULE MCEventLoop ----------------------------
(* Instances of EventLoop: the applications whose event loop is explored.  *)
EXTENDS EventLoop

CONSTANTS t1, t2, o1, o2, p1, p2

Flow(i, o, c, ins, outs) == Keys(i[c]) = ins /\ Keys(o[c]) = outs

\* The input feeds t1, which feeds t2 or an output stream; or both t1 and t2.
Apps(i, o) ==
  /\ Flow(i, o, Input, {}, {p1})
  /\ \/ /\ Flow(i, o, t1, {p1}, {p2})
        /\ \/ Flow(i, o, t2, {p2}, {}) /\ Flow(i, o, o1, {}, {})
           \/ Flow(i, o, t2, {}, {}) /\ Flow(i, o, o1, {p2}, {})
     \/ Flow(i, o, t1, {p1}, {}) /\ Flow(i, o, t2, {p1}, {}) /\ Flow(i, o, o1, {}, {})

\* Two output streams, each with a port of its own.
TwoOutputs(i, o) ==
  /\ Flow(i, o, Input, {}, {p1, p2})
  /\ Flow(i, o, o1, {p1}, {}) /\ Flow(i, o, o2, {p2}, {})

=============================================================================
