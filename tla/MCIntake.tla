------------------------------ MODULE MCIntake ------------------------------
(* Small instances of Intake for TLC.                                      *)
EXTENDS Intake, TLC

\* Threads and printers are never told apart: nothing orders or names them.
Interchangeable == Permutations(Handlers) \cup Permutations(Printers)

=============================================================================
