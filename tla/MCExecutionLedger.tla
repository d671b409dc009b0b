--------------------------- MODULE MCExecutionLedger ---------------------------
(* Instances of ExecutionLedger for TLC. *)
EXTENDS ExecutionLedger, TLC

Symmetry == Permutations(Rows) \cup Permutations(Requests \ MockProcesses)
                \cup Permutations(Keepers \ MockProcesses)
================================================================================
