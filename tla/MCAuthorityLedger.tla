------------------------- MODULE MCAuthorityLedger -------------------------
(***************************************************************************)
(* Instances of AuthorityLedger for TLC.                                   *)
(***************************************************************************)
EXTENDS AuthorityLedger, TLC

(* Attempts are interchangeable, and so are heads: the module names none.  *)
AttemptSymmetry == Permutations(Attempts) \cup Permutations(Heads)

(* The disturbances that are followed together: attempts that run,         *)
(* generations, clock, lost writes and changes of the pull request.        *)
Within(attempts, generations, clock, losses, changes) ==
    /\ Cardinality({a \in Attempts : run[a] # "new"}) <= attempts
    /\ fresh <= generations + 1
    /\ now <= clock /\ lost <= losses /\ moves <= changes

FollowedTogether ==
    \/ Within(2, 3, 0, 1, 0)   \* attempts race, an answer is lost
    \/ Within(2, 3, 1, 0, 0)   \* windows end under two attempts
    \/ Within(1, 4, 2, 0, 0)   \* one refund is refreshed past its lineage
    \/ Within(1, 3, 1, 1, 0)   \* an old preparation is reaped, an answer is lost
    \/ Within(1, 3, 0, 0, 2)   \* the head and the labels change
=============================================================================
