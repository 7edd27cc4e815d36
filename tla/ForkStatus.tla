----------------------------- MODULE ForkStatus -----------------------------
(***************************************************************************)
(* The required status of a pull request from a fork.  The workflow that   *)
(* tests a fork may not write statuses: a trusted publisher reads what the *)
(* run did and posts the verdict at the head.  Of the agents guard's       *)
(* context a second writer exists, the guard run that a label event starts *)
(* in the trusted repository.  Jobs about one head take turns, and at most *)
(* one waits: a newer one takes its place.                                 *)
(***************************************************************************)
EXTENDS Naturals, Sequences, FiniteSets

CONSTANTS
    MaxTests,    \* bound on runs and further attempts
    MaxEdits,    \* bound on edits of labels and reviews
    MaxFaults    \* bound on failed reads and deaths of jobs

VARIABLES
    fork,        \* the pull request, and the context that is followed
    checks,      \* the runs of the tested workflow at the head
    status,      \* the latest status of the context at the head
    queue,       \* the job at work, the one that waits, and ended runs not yet noticed
    spent        \* tests, edits and faults

forkVars == <<fork, checks, status, queue, spent>>

Routes == {"agent"}                 \* the labels that route work to agents
Labels == Routes \cup {"allow"}     \* and agents:allow-change
NoStatus == [state |-> "none", receipt |-> {}, run |-> 0, attempt |-> 0]
Idle == [kind |-> "none"]
Blank == [job |-> Idle, waiting |-> Idle, ended |-> {}]

Init ==
    /\ fork \in [kind : {"gate", "guard"}, moved : {FALSE}, labels : SUBSET Labels, review : {"none"},
                 blessed : {FALSE}, file : {"none", "refs", "logic", "removed"}, author : {"owner", "trusted", "other"}]
    /\ "allow" \notin fork.labels /\ (fork.author # "trusted" => fork.labels = {})
    /\ fork.author = "owner" => fork.file = "logic"
    /\ fork.kind = "gate" => fork.author = "other" /\ fork.file \in {"none", "logic"}
    /\ checks = <<>>
    /\ status = NoStatus
    /\ queue = Blank
    /\ spent = [tests |-> 0, edits |-> 0, faults |-> 0]

Guard == fork.kind = "guard"
Fault == spent.faults < MaxFaults /\ spent' = [spent EXCEPT !.faults = @ + 1]
Edit == spent.edits < MaxEdits /\ spent' = [spent EXCEPT !.edits = @ + 1]
Test == spent.tests < MaxTests /\ spent' = [spent EXCEPT !.tests = @ + 1]
Routed(labels) == labels \cap Routes # {}

----------------------------------------------------------------------------
\* evaluateGuard.  The patch changes nothing but versions of actions.
ActionRefsOnly == fork.file = "refs"
\* findCodeowners: the author owns what changed.
Owned == fork.author = "owner"
\* Deleting or moving a protected workflow is never allowed.
Fatal == fork.file = "removed"
\* collectLatestApprovals: only the latest review of a code owner counts.
Approved == fork.review = "approved"
\* The label replaces the approval for versions of actions only, and only for
\* authors who are trusted with it.
Bypass(labels) == "allow" \in labels /\ fork.author = "trusted" /\ ActionRefsOnly
Blocked(labels) == Fatal \/ (fork.file \in {"refs", "logic"} /\ ~Approved /\ ~Owned /\ ~Bypass(labels))

----------------------------------------------------------------------------
\* Whoever waits gives way; a run that waited is cancelled, and has ended.
Enqueued(q, work) ==
    [q EXCEPT !.waiting = work,
              !.ended = IF q.waiting.kind = "producer" THEN @ \cup {q.waiting.run} ELSE @]
Cancelled(c) == IF queue.waiting.kind = "producer"
                   THEN [c EXCEPT ![queue.waiting.run].state = "failure"] ELSE c
\* A run of the tested workflow, and each attempt to run it again.
Tested(i, run) ==
    LET runs == IF i > Len(checks) THEN Append(checks, run)
                ELSE [checks EXCEPT ![i] = run]
    IN IF Guard
       THEN /\ checks' = Cancelled(runs)
            /\ queue' = Enqueued(queue, [kind |-> "producer", run |-> i])
       ELSE checks' = runs /\ queue' = [queue EXCEPT !.ended = @ \cup {i}]
Open ==
    /\ ~fork.moved /\ Test
    /\ Tested(Len(checks) + 1, [attempt |-> 1, state |-> "running", eligible |-> Routed(fork.labels), policy |-> {}])
    /\ UNCHANGED <<fork, status>>
Rerun(i) ==
    /\ checks[i].state # "running" /\ Test
    /\ Tested(i, [checks[i] EXCEPT !.attempt = @ + 1, !.state = "running"])
    /\ UNCHANGED <<fork, status>>
Push ==
    /\ ~fork.moved /\ fork' = [fork EXCEPT !.moved = TRUE]
    /\ UNCHANGED <<checks, status, queue, spent>>
\* A gate run ends; the guard's ends with its job below.
FinishGate(i, state) ==
    /\ ~Guard /\ checks[i].state = "running"
    /\ checks' = [checks EXCEPT ![i].state = state] /\ queue' = [queue EXCEPT !.ended = @ \cup {i}]
    /\ UNCHANGED <<fork, status, spent>>
\* A label event starts the guard in the trusted repository; the label that
\* was taken off still counts for its eligibility.
EditLabel(l) ==
    /\ Guard /\ ~fork.moved /\ Edit
    /\ LET labels == IF l \in fork.labels THEN fork.labels \ {l} ELSE fork.labels \cup {l} IN
       /\ fork' = [fork EXCEPT !.labels = labels]
       /\ queue' = Enqueued(queue, [kind |-> "direct", payload |-> labels, eligible |-> Routed(labels \cup {l})])
    /\ checks' = Cancelled(checks) /\ UNCHANGED status
\* Nothing is evaluated again when a review changes.
Review(r) ==
    /\ Guard /\ fork.review # r /\ Edit
    /\ fork' = [fork EXCEPT !.review = r, !.blessed = @ \/ r = "approved"] /\ UNCHANGED <<checks, status, queue>>
\* workflow_run: the publisher of a run that ended, in any order.
Notice(i) ==
    /\ i \in queue.ended
    /\ queue' = Enqueued([queue EXCEPT !.ended = @ \ {i}], [kind |-> "publisher", run |-> i])
    /\ checks' = Cancelled(checks) /\ UNCHANGED <<fork, status, spent>>

----------------------------------------------------------------------------
\* The jobs about one head, one at a time.
Work == queue.job
Does(job) == queue' = [queue EXCEPT !.job = job]
Ends == Does(Idle)
Begin ==
    /\ Work = Idle /\ queue.waiting # Idle
    /\ LET w == queue.waiting IN
       queue' = [queue EXCEPT !.waiting = Idle,
                              !.job = IF w.kind = "direct" THEN [w EXCEPT !.kind = "evaluate"]
                                         ELSE IF w.kind = "publisher" THEN [w EXCEPT !.kind = "fetch"] ELSE w]
    /\ UNCHANGED <<fork, checks, status, spent>>
\* The guard on a pull request from a fork: it evaluates and may not write.
Produce ==
    /\ Work.kind = "producer"
    /\ LET i == Work.run  eligible == checks[i].eligible IN
       /\ checks' = [checks EXCEPT ![i].state = IF eligible /\ Blocked(fork.labels) THEN "failure" ELSE "success",
                                   ![i].policy = fork.labels]
       /\ queue' = [queue EXCEPT !.job = Idle, !.ended = @ \cup {i}]
    /\ UNCHANGED <<fork, status, spent>>

\* The guard on a label event reads the labels to evaluate them, reads them
\* again to publish, and writes.
DirectEvaluate ==
    /\ Work.kind = "evaluate"
    /\ LET job == Work IN
       \E passed \in BOOLEAN :
          /\ Does([kind |-> "decide", payload |-> job.payload, eligible |-> job.eligible, labels |-> fork.labels,
                   passed |-> passed])
          /\ IF job.eligible /\ ~passed /\ ~Blocked(fork.labels) THEN Fault
             ELSE passed = (job.eligible => ~Blocked(fork.labels)) /\ UNCHANGED spent
    /\ UNCHANGED <<fork, checks, status>>
DirectDecide ==
    /\ Work.kind = "decide"
    /\ LET job == Work
           changed == fork.labels # job.payload \/ (job.eligible /\ job.labels # fork.labels)
           kept == status.state # "success" \/ status.receipt = fork.labels
           post(state) == Does([kind |-> "post", state |-> state, receipt |-> fork.labels])
       IN IF changed \/ ~job.passed THEN post("failure")
          ELSE IF job.eligible THEN post("success")
          ELSE IF kept THEN Ends ELSE post("failure")
    /\ UNCHANGED <<fork, checks, status, spent>>
DirectPost ==
    /\ Work.kind = "post" /\ Ends
    /\ status' = [state |-> Work.state, run |-> 0, attempt |-> 0,
                   receipt |-> IF Work.state = "success" THEN Work.receipt ELSE {}]
    /\ UNCHANGED <<fork, checks, spent>>

----------------------------------------------------------------------------
\* The publishers.  validateBinding: the run's head is still the head.
Bound == ~fork.moved
\* Mutant of Superseded: newer runs do not count.
SupersededAttempt(i, run) == Guard /\ checks[i].attempt > run.attempt
\* assertLatestAttempt; the gate's does not look at its own run.
Superseded(i, run) == i < Len(checks) \/ (Guard /\ checks[i].attempt > run.attempt)
\* Looked at once more, the run, its head and the newest attempt are the same.
Unchanged(job) == Bound /\ checks[job.run] = job.snap /\ ~Superseded(job.run, checks[job.run])
\* canonicalDirectGuardStatus: the trusted guard wrote it.
Direct(s) == s.run = 0 /\ s.state \in {"success", "failure"}
\* publicationState, its errors taken as failures: what the attempt's jobs show.  Changes to the controls
\* need a trusted review whatever the run says.
PublicationState(run) ==
    IF fork.file # "none" THEN "failure" ELSE IF run.state = "running" THEN "pending" ELSE run.state
\* hasCurrentReceipt: the success was given for these labels.
CurrentReceipt(s) == s.receipt = fork.labels

Fetch ==
    /\ Work.kind = "fetch"
    /\ LET i == Work.run  run == checks[i] IN
       IF ~Bound \/ (~Guard /\ Superseded(i, run)) THEN Ends
       ELSE Does([kind |-> IF Guard THEN "reconcile" ELSE "inspect", run |-> i, snap |-> run, seen |-> status])
    /\ UNCHANGED <<fork, checks, status, spent>>
Writes(job, result) ==
    Does([kind |-> "write", run |-> job.run, attempt |-> checks[job.run].attempt, seen |-> job.seen,
             state |-> result, receipt |-> IF result = "success" /\ Guard THEN fork.labels ELSE {}])
\* The guard's publisher first withdraws a success given for other labels: the
\* one thing it may do when it is stale.  A verdict of the trusted guard that
\* is current stays.
Reconcile ==
    /\ Work.kind = "reconcile"
    /\ LET job == Work  run == checks[job.run]  seen == job.seen
       IN \/ /\ UNCHANGED spent
             /\ IF ~Bound THEN Ends
                ELSE IF seen.state = "success" /\ ~CurrentReceipt(seen) THEN Writes(job, "failure")
                ELSE IF run.state = "running" \/ Direct(seen) THEN Ends
                ELSE Does([job EXCEPT !.kind = "inspect"])
          \/ \* The registry cannot be read.
             /\ Fault
             /\ IF ~Unchanged(job) THEN Ends
                ELSE Writes(job, "failure")
          \/ \* The writer of a current success cannot be told.
             /\ Fault /\ Bound /\ run.state # "running"
             /\ Direct(seen) /\ seen.state = "success" /\ CurrentReceipt(seen) /\ Does([job EXCEPT !.kind = "inspect"])
    /\ UNCHANGED <<fork, checks, status>>
Inspect ==
    /\ Work.kind = "inspect"
    /\ LET job == Work  run == IF Guard THEN checks[job.run] ELSE job.snap IN
       Does([kind |-> "recheck", run |-> job.run, snap |-> job.snap, seen |-> job.seen,
             state |-> PublicationState(run), jobs |-> run, latest |-> status])
    /\ UNCHANGED <<fork, checks, status, spent>>
\* Mutant of EvaluatedFor: labels that changed since do not matter.
EvaluatedForAny(run) == TRUE
\* evaluatedPolicyFingerprint: the attempt evaluated the labels that now hold.
EvaluatedFor(run) == run.policy = fork.labels
Recheck ==
    /\ Work.kind = "recheck"
    /\ LET job == [Work EXCEPT !.seen = IF Guard THEN @ ELSE Work.latest]
           run == checks[job.run]
           noop == Guard /\ job.state = "success" /\ ~run.eligible
       IN IF ~Unchanged(job) THEN Ends
          ELSE IF Guard /\ job.state = "success" /\ ~noop /\ ~EvaluatedFor(job.jobs) THEN Writes(job, "failure")
          ELSE IF noop /\ job.seen.state # "none" THEN Ends
          ELSE IF noop /\ Routed(fork.labels) THEN Writes(job, "failure")
          ELSE Writes(job, job.state)
    /\ UNCHANGED <<fork, checks, status, spent>>
\* One request, never repeated; the same verdict of the run is not written again.
Write ==
    /\ Work.kind = "write" /\ Ends
    /\ LET job == Work IN
       status' = IF /\ job.seen.state = job.state /\ job.seen.run = job.run
                    /\ Guard => job.seen.receipt = job.receipt
                 THEN status
                 ELSE [state |-> job.state, receipt |-> job.receipt, run |-> job.run, attempt |-> job.attempt]
    /\ UNCHANGED <<fork, checks, spent>>
\* A read fails, or the job is cancelled.
Die ==
    /\ Work # Idle /\ Fault
    /\ IF Work.kind = "producer"
       THEN /\ checks' = [checks EXCEPT ![Work.run].state = "failure"]
            /\ queue' = [queue EXCEPT !.job = Idle, !.ended = @ \cup {Work.run}]
       ELSE Ends /\ UNCHANGED checks
    /\ UNCHANGED <<fork, status>>

Next ==
    \/ Push
    \/ \E l \in Labels : EditLabel(l)
    \/ \E r \in {"approved", "commented"} : Review(r)
    \/ Open \/ Begin \/ Produce \/ Die
    \/ DirectEvaluate \/ DirectDecide \/ DirectPost
    \/ Fetch \/ Reconcile \/ Inspect \/ Recheck \/ Write
    \/ \E i \in DOMAIN checks : Rerun(i) \/ Notice(i) \/ FinishGate(i, "success") \/ FinishGate(i, "failure")

----------------------------------------------------------------------------
\* A success at the head is true.  It was earned there: unless its run was
\* tried again, the attempt ended well, and evaluated the labels of the receipt
\* or found nothing to evaluate while no label routed the work to an agent.
\* When nothing is under way and nothing failed it is for the labels that the
\* pull request has, whichever waiting jobs were replaced.  And a protected
\* workflow has an approval, its owner, or only versions of actions and the label.
GreenTrue == LET s == status IN s.state = "success" =>
    /\ s.run # 0 =>
         LET run == checks[s.run] IN
         run.attempt = s.attempt => /\ run.state = "success"
                                    /\ Guard => IF run.eligible THEN run.policy = s.receipt ELSE ~Routed(s.receipt)
    /\ spent.faults = 0 /\ queue = Blank /\ Guard /\ ~fork.moved => s.receipt = fork.labels
    /\ fork.file # "none" => fork.blessed \/ Owned \/ (fork.file = "refs" /\ "allow" \in s.receipt)

\* The verdict of an attempt never takes the place of a newer one's, but to
\* withdraw a success.
Newer(s, t) == s.run > t.run \/ (s.run = t.run /\ s.attempt > t.attempt)
InOrder == status'.run # 0 /\ Newer(status, status') =>
               status.state = "success" /\ status'.state = "failure"
VerdictsInOrder == [][InOrder]_status
=============================================================================
