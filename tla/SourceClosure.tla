--------------------------- MODULE SourceClosure ---------------------------
(* From a merged pull request to its issue.  The verifier reads the issue    *)
(* and the CI (agents_verifier_context.js, verifier_ci_query.js), providers  *)
(* give a verdict, commands stand in for one when the input did not suffice, *)
(* and a job of its own, which may be tried again days later, closes the     *)
(* issue that was judged (verifier_closure.js).                              *)
EXTENDS Naturals, Sequences

CONSTANTS
    MaxRuns,    \* runs of the verifier, a bound
    MaxEvents,  \* tries of the closing job, edits and runs of the CI, a bound
    MaxFaults   \* failed and lost requests, a bound

VARIABLES
    issue,  \* its text, whether it is open, how it is linked, and the receipts on it
    ci,     \* the newest run of the CI on the merge and on the head it merged
    runs,   \* the verifier's runs
    past    \* how much of the bounds is used, and what was closed

vars == <<issue, ci, runs, past>>

Shas == {"merge", "head"}
Unread == 2
Idle == [phase |-> "start", text |-> Unread, failed |-> FALSE, verdict |-> "none", plan |-> Unread,
         gate |-> FALSE, green |-> FALSE, read |-> Unread, edited |-> FALSE, rerun |-> FALSE]
More == past.events < MaxEvents /\ past' = [past EXCEPT !.events = @ + 1]
Fault == past.faults < MaxFaults /\ past' = [past EXCEPT !.faults = @ + 1]

Init ==
    /\ issue \in [text : {0}, open : {TRUE}, link : {"closing", "source"}, receipts : {{}}]
    /\ ci \in [merge : {"none", "running"}, head : {"success", "failure"}]
    /\ runs = <<>> /\ past = [events |-> 0, faults |-> 0, closed |-> {}]

Put(r, new) == runs' = [runs EXCEPT ![r] = new]
Now(r, phase) == [runs[r] EXCEPT !.phase = phase]
End(r) == Put(r, [Idle EXCEPT !.phase = "over"])

----------------------------------------------------------------------------
(* The CI on a commit.  Transient errors are tried again, and an error that  *)
(* remains is a result.                                                      *)

Conclusion(s) == ci[s]
\* The first of the commits that has a run.
FetchWorkflowRun(shas) ==
    LET ran == {k \in DOMAIN shas : ci[shas[k]] # "none"}
    IN  IF ran = {} THEN "none" ELSE Conclusion(shas[CHOOSE k \in ran : \A j \in ran : k <= j])
QueryCi(shas, answer) ==
    \/ answer = FetchWorkflowRun(shas) /\ UNCHANGED past
    \/ answer = "error" /\ Fault

----------------------------------------------------------------------------
(* The run that judges.                                                      *)

\* A label or a person starts it.
Start == Len(runs) < MaxRuns /\ runs' = Append(runs, Idle) /\ UNCHANGED <<issue, ci, past>>

\* A pull request that cannot be resolved ends the run.
MissPullRequest(r) ==
    /\ runs[r].phase = "start" /\ Fault /\ End(r)
    /\ UNCHANGED <<issue, ci>>
\* The issues that the merge closes are found by one query, and one that is
\* only named as the source by another; a failure leaves it out.
FetchClosingIssues(r) ==
    /\ runs[r].phase = "start"
    /\ \/ UNCHANGED past /\ Put(r, [Now(r, "linked") EXCEPT !.text = IF issue.link = "closing" THEN issue.text ELSE Unread])
       \/ Fault /\ Put(r, Now(r, "linked"))
    /\ UNCHANGED <<issue, ci>>
FetchAcceptanceIssues(r) ==
    /\ runs[r].phase = "linked"
    /\ \/ UNCHANGED past /\ Put(r, [Now(r, "read") EXCEPT !.text = IF issue.link = "source" THEN issue.text ELSE @])
       \/ issue.link = "source" /\ Fault /\ Put(r, Now(r, "read"))
    /\ UNCHANGED <<issue, ci>>
\* A CI that failed rules out a pass.
ReadCi(r) ==
    /\ runs[r].phase = "read"
    /\ \E answer \in {"none", "running", "success", "failure", "error"} :
        /\ QueryCi(<<"merge", "head">>, answer)
        /\ Put(r, [Now(r, "judging") EXCEPT !.failed = answer = "failure"])
    /\ UNCHANGED <<issue, ci>>

\* The hashes of the texts that were read are what the plans are made from.
SourceHashes(r) == runs[r].text
\* Providers answer, and plans are made, for an issue that was read, or cannot be.
Judge(r) ==
    /\ runs[r].phase = "judging"
    /\ \E verdict \in {"PASS", "CONCERNS", "UNVERIFIABLE_INPUT"}, plan \in {SourceHashes(r), Unread} :
        /\ runs[r].failed \/ runs[r].text = Unread => verdict # "PASS"
        /\ Put(r, [Now(r, IF verdict = "UNVERIFIABLE_INPUT" THEN "gate" ELSE "queued")
                   EXCEPT !.verdict = verdict, !.plan = plan])
    /\ UNCHANGED <<issue, ci, past>>
\* The commands of the plan pass on the merge, or there are none and the CI is
\* what counts; or some failed, or the job did.
AcceptanceGates(r) ==
    /\ runs[r].phase = "gate"
    /\ \E passed \in BOOLEAN : Put(r, [Now(r, "queued") EXCEPT !.gate = passed /\ runs[r].plan # Unread])
    /\ UNCHANGED <<issue, ci, past>>

----------------------------------------------------------------------------
(* The job that closes.                                                      *)

\* Mutant of ClosureDecision: the text the plan is about is not compared.
ClosureDecisionAnyText(r) ==
    /\ runs[r].green
    /\ runs[r].verdict = "PASS" \/ (runs[r].verdict = "UNVERIFIABLE_INPUT" /\ runs[r].gate)
\* A pass, or commands in its stead, of this text and with every CI green.
ClosureDecision(r) ==
    /\ runs[r].plan # Unread /\ runs[r].plan = runs[r].read
    /\ runs[r].green
    /\ runs[r].verdict = "PASS" \/ (runs[r].verdict = "UNVERIFIABLE_INPUT" /\ runs[r].gate)

Fail(r) == Fault /\ Put(r, Now(r, "failed"))
\* First the CI on the merge, and on nothing else, is asked for.
QueryMerge(r) ==
    /\ runs[r].phase = "queued"
    /\ \E answer \in {"none", "running", "success", "failure", "error"} :
        /\ QueryCi(<<"merge">>, answer)
        /\ Put(r, [Now(r, "queried") EXCEPT !.green = answer = "success"])
    /\ UNCHANGED <<issue, ci>>
\* Then the pull request and the issue, which may be out of reach, or closed.
ReadIssue(r) ==
    /\ runs[r].phase = "queried"
    /\ \/ /\ issue.open /\ runs[r].plan # Unread
          /\ Put(r, [Now(r, "decided") EXCEPT !.read = issue.text, !.edited = FALSE]) /\ UNCHANGED past
       \/ (~issue.open \/ runs[r].plan = Unread) /\ End(r) /\ UNCHANGED past
       \/ Fail(r)
       \/ Fault /\ End(r)
    /\ UNCHANGED <<issue, ci>>
Keep(r) ==
    /\ runs[r].phase = "decided" /\ ~ClosureDecision(r)
    /\ End(r)
    /\ UNCHANGED <<issue, ci, past>>
\* The receipt is a comment, and the issue is closed after it.
Receipt(r) ==
    /\ runs[r].phase = "decided" /\ ClosureDecision(r)
    /\ \/ Put(r, Now(r, "receipted")) /\ issue' = [issue EXCEPT !.receipts = @ \cup {r}] /\ UNCHANGED past
       \/ Fail(r) /\ (UNCHANGED issue \/ issue' = [issue EXCEPT !.receipts = @ \cup {r}])
    /\ UNCHANGED ci
Closed(r) == [run |-> r, judged |-> runs[r].text, text |-> issue.text, ci |-> ci["merge"], edited |-> runs[r].edited, rerun |-> runs[r].rerun]
CloseVerifiedSources(r) ==
    /\ runs[r].phase = "receipted"
    /\ \/ /\ past' = [past EXCEPT !.closed = @ \cup {Closed(r)}]
          /\ End(r) /\ issue' = [issue EXCEPT !.open = FALSE]
       \/ Fail(r) /\ UNCHANGED issue
       \/ /\ past.faults < MaxFaults
          /\ past' = [past EXCEPT !.faults = @ + 1, !.closed = @ \cup {Closed(r)}]
          /\ Put(r, Now(r, "failed")) /\ issue' = [issue EXCEPT !.open = FALSE]
    /\ UNCHANGED ci
\* A job that failed is tried again, with the verdict, the plan and the results
\* that its run has kept.
TryAgain(r) ==
    /\ runs[r].phase = "failed" /\ More
    /\ Put(r, [Now(r, "queued") EXCEPT !.green = FALSE, !.read = Unread, !.edited = FALSE, !.rerun = FALSE])
    /\ UNCHANGED <<issue, ci>>

----------------------------------------------------------------------------
\* Meanwhile the issue is edited, closed or opened again, and the CI runs.
Mark(field) == runs' = [r \in DOMAIN runs |->
    IF runs[r].phase \in {"queried", "decided", "receipted"} THEN [runs[r] EXCEPT ![field] = TRUE] ELSE runs[r]]
Edit ==
    /\ More /\ UNCHANGED ci
    /\ \/ issue' = [issue EXCEPT !.text = 1 - @] /\ Mark("edited")
       \/ issue' = [issue EXCEPT !.open = ~@] /\ UNCHANGED runs
RunCi ==
    /\ \E s \in Shas :
        \/ ci[s] # "running" /\ More /\ ci' = [ci EXCEPT ![s] = "running"]
        \/ ci[s] = "running" /\ UNCHANGED past /\ \E c \in {"success", "failure"} : ci' = [ci EXCEPT ![s] = c]
    /\ Mark("rerun") /\ UNCHANGED issue

Next ==
    \/ Start \/ Edit \/ RunCi
    \/ \E r \in DOMAIN runs :
        \/ MissPullRequest(r) \/ FetchClosingIssues(r) \/ FetchAcceptanceIssues(r) \/ ReadCi(r) \/ Judge(r)
        \/ AcceptanceGates(r) \/ QueryMerge(r) \/ ReadIssue(r) \/ Keep(r) \/ Receipt(r)
        \/ CloseVerifiedSources(r) \/ TryAgain(r)
Spec == Init /\ [][Next]_vars

----------------------------------------------------------------------------
\* An issue is closed for a verdict on the text it has, while the CI on the merge
\* is green, whenever the closing job runs: only an edit, or a run of the CI,
\* between its reading and its closing is overlooked.  What is closed has a receipt.
ClosedAsJudged ==
    \A c \in past.closed :
        /\ c.run \in issue.receipts
        /\ c.edited \/ c.text = c.judged
        /\ c.rerun \/ c.ci = "success"
=============================================================================
