---------------------------- MODULE MCDiagnostics ----------------------------
(* A small instance of Diagnostics for TLC. *)
EXTENDS Diagnostics

OneRun == {"run"}
SecondTask == {2}
\* A failed call, a write by others, or a restart.
Disturbances == {[fault |-> 1, edit |-> 0, restart |-> 0],
                 [fault |-> 0, edit |-> 1, restart |-> 0],
                 [fault |-> 0, edit |-> 0, restart |-> 1]}
=============================================================================
