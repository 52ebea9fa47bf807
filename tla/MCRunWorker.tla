----------------------------- MODULE MCRunWorker -----------------------------
(* Instances of RunWorker for TLC. *)
EXTENDS RunWorker, TLC

WorkerSymmetry == Permutations(Worker) \cup Permutations(Call)

=============================================================================
