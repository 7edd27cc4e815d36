-------------------------- MODULE MCRunnerDispatch --------------------------
(* RunnerDispatch on small sets: attempts are interchangeable, heads too.  *)
EXTENDS RunnerDispatch, TLC

DispatchSymmetry == Permutations(Attempts) \cup Permutations(Heads)

=============================================================================
