------------------------------ MODULE MCTracers ------------------------------
(* Instances of Tracers for TLC: server-proto writing files and valtio, both *)
(* stopped by the alarm, valtio with failures and signals at any time, and  *)
(* the use that the counterexamples take.                                   *)
EXTENDS Tracers

File    == [piped |-> FALSE, tears_down |-> FALSE, early |-> FALSE, fails |-> FALSE]
Valtio  == [piped |-> TRUE, tears_down |-> TRUE, early |-> FALSE, fails |-> FALSE]
Failing == [Valtio EXCEPT !.early = TRUE, !.fails = TRUE]

MCUses      == {File, Valtio, Failing}
FailingUses == {[File EXCEPT !.early = TRUE, !.fails = TRUE]}
=============================================================================
