----------------------------- MODULE MCTraceQueue -----------------------------
(* Instances of TraceQueue for TLC: server-proto with a signal at any time,  *)
(* valtio with one that comes while main waits, and valtio at its worst,     *)
(* which the counterexamples take.                                           *)
EXTENDS TraceQueue

ServerProto == [tears_down |-> FALSE, may_close |-> FALSE, anywhere |-> TRUE]
Valtio      == [tears_down |-> TRUE, may_close |-> TRUE, anywhere |-> FALSE]

MCUses    == {ServerProto, Valtio}
AnySignal == {[Valtio EXCEPT !.anywhere = TRUE]}
=============================================================================
