----------------------------- MODULE BeltClaims -----------------------------
(* The belt: an issue is claimed with a label, a worker opens a pull request *)
(* for it, two jobs may merge that and give the claim back, and a periodic   *)
(* sweep takes back the claims that came to nothing (belt_claim_reclaim.js,  *)
(* agents_belt_scan.js, runtime_ac_merge_guard.js and their workflows).      *)
EXTENDS Integers

CONSTANTS
    Window,     \* the age past which a claim is stale
    MaxTime,    \* bound: the clock
    MaxEvents,  \* bound: pushes, runs of the checks, and what people do
    MaxFaults   \* bound: failed and lost requests

VARIABLES
    issue,  \* open, the label of the claim, when it was last set, the claims announced
    pr,     \* of the issue: its state, how it refers to the issue, head and labels
    worker, \* the run that opens the pull request
    sweep,  \* the run that takes claims back
    jobs,   \* the runs that merge
    past    \* the clock, how much of the bounds is used, what was taken and merged

vars == <<issue, pr, worker, sweep, jobs, past>>

Routes == {"conveyor", "gate"}
Never == -1
\* The label stands for those of runtime acceptance and of a delivery that is
\* not sealed, which block the same merges.
Held == "held"
NoSweep == [phase |-> "idle", round |-> 0, now |-> 0, claim |-> Never, seen |-> Never, linked |-> FALSE, changed |-> FALSE]
NoJob == [phase |-> "idle", head |-> 0, held |-> FALSE, rerun |-> FALSE]
More == past.events < MaxEvents /\ past' = [past EXCEPT !.events = @ + 1]
Fault == past.faults < MaxFaults /\ past' = [past EXCEPT !.faults = @ + 1]

Init ==
    /\ \/ /\ issue = [open |-> TRUE, label |-> FALSE, claim |-> Never, notes |-> {}]
          /\ pr \in [state : {"none"}, link : {"mention", "linked"}, head : {0}, green : {{}}, labels : {{}}]
       \/ /\ issue = [open |-> TRUE, label |-> TRUE, claim |-> 0, notes |-> {}]
          /\ pr \in [state : {"open"}, link : {"mention"}, head : {0}, green : {{0}}, labels : {{"automerge"}}]
    /\ worker = [phase |-> "idle", claimed |-> FALSE] /\ sweep = NoSweep /\ jobs = [r \in Routes |-> NoJob]
    /\ past = [now |-> 0, events |-> 0, faults |-> 0, reclaimed |-> {}, merged |-> {}]

----------------------------------------------------------------------------
(* The sweep.                                                                *)

\* A change that the final check of the sweep came too early for.
Overlook(what) ==
    sweep' = IF sweep.round = 3 /\ (sweep.phase = "remove" \/ (sweep.phase = "links" /\ what # "linked"))
             THEN [sweep EXCEPT !.changed = TRUE] ELSE sweep
Step(phase) == sweep' = [sweep EXCEPT !.phase = phase]

\* What the timeline and the closing references tell of a pull request: one that
\* was closed and not merged does not count.
LatestClaimTimestamp == issue.claim
Blocking(link) == pr.link = link /\ pr.state \in {"open", "merged"}
\* A claim is taken back when it is stale and no pull request is linked.
EvaluateClaim(s) == s.seen # Never /\ ~s.linked /\ s.now - s.seen > Window
\* Mutant of Confirmed: the same claim is taken for the same decision.
ConfirmedByClaim(s) == s.seen = s.claim
Confirmed(s) == EvaluateClaim(s) /\ s.seen = s.claim

\* The sweep lists the open issues with the label, at a time it keeps.
SweepClaims ==
    /\ sweep.phase = "idle" /\ issue.open /\ issue.label
    /\ sweep' = [NoSweep EXCEPT !.phase = "timeline", !.round = 1, !.now = past.now]
    /\ UNCHANGED <<issue, pr, worker, jobs, past>>
ReadTimeline ==
    /\ sweep.phase = "timeline"
    /\ sweep' = [sweep EXCEPT !.phase = "links", !.seen = LatestClaimTimestamp, !.linked = Blocking("mention")]
    /\ UNCHANGED <<issue, pr, worker, jobs, past>>
\* The claim is judged, judged again when the issue still has the label, and
\* once more when the comment is there.
ReadLinkedPullRequests ==
    /\ sweep.phase = "links"
    /\ LET read == [sweep EXCEPT !.linked = @ \/ Blocking("linked"), !.claim = IF sweep.round = 1 THEN sweep.seen ELSE @]
       IN  sweep' = CASE read.round = 1 /\ EvaluateClaim(read) -> [read EXCEPT !.phase = "current"]
                      [] read.round = 2 /\ Confirmed(read)     -> [read EXCEPT !.phase = "comments"]
                      [] read.round = 3 /\ Confirmed(read)     -> [read EXCEPT !.phase = "remove"]
                      [] OTHER -> NoSweep
    /\ UNCHANGED <<issue, pr, worker, jobs, past>>
ReadCurrentIssue ==
    /\ sweep.phase = "current"
    /\ sweep' = IF issue.label THEN [sweep EXCEPT !.phase = "timeline", !.round = 2] ELSE NoSweep
    /\ UNCHANGED <<issue, pr, worker, jobs, past>>
\* One comment announces a claim's end, which is looked for before it is posted.
Announce ==
    /\ sweep.phase = "comments"
    /\ issue' = [issue EXCEPT !.notes = @ \cup {sweep.claim}]
    /\ \/ sweep' = [sweep EXCEPT !.phase = "timeline", !.round = 3] /\ UNCHANGED past
       \/ Fault /\ sweep' = NoSweep
    /\ UNCHANGED <<pr, worker, jobs>>
\* A request that fails ends the sweep of this issue.
FailSweep ==
    /\ sweep.phase # "idle" /\ Fault /\ sweep' = NoSweep
    /\ UNCHANGED <<issue, pr, worker, jobs>>
Reclaimed == [claim |-> issue.claim, judged |-> sweep.claim, now |-> sweep.now, changed |-> sweep.changed,
              linked |-> pr.state \in {"open", "merged"}]
RemoveLabel ==
    /\ sweep.phase = "remove" /\ sweep' = NoSweep
    /\ \/ issue.label /\ issue' = [issue EXCEPT !.label = FALSE] /\ past' = [past EXCEPT !.reclaimed = @ \cup {Reclaimed}]
       \/ ~issue.label /\ UNCHANGED <<issue, past>>
    /\ UNCHANGED <<pr, worker, jobs>>

----------------------------------------------------------------------------
(* The dispatcher and the worker.                                            *)

\* Only a label that was not there leaves an event.
Claim ==
    /\ issue' = [issue EXCEPT !.label = TRUE, !.claim = IF issue.label THEN @ ELSE past.now]
    /\ IF issue.label THEN UNCHANGED sweep ELSE Overlook("claim")
\* An issue that is ready, or forced, is claimed; if that fails the worker may do it.
Dispatch ==
    /\ worker.phase = "idle" /\ issue.open /\ worker' = [worker EXCEPT !.phase = "queued"]
    /\ \/ More /\ Claim
       \/ Fault /\ UNCHANGED <<issue, sweep>>
    /\ UNCHANGED <<pr, jobs>>
Verify ==
    /\ worker.phase = "queued" /\ worker' = [phase |-> "verified", claimed |-> issue.label]
    /\ UNCHANGED <<issue, pr, sweep, jobs, past>>
EnsureLabel ==
    /\ worker.phase = "verified" /\ worker' = [worker EXCEPT !.phase = "labelled"]
    /\ \/ worker.claimed /\ UNCHANGED <<issue, sweep, past>>
       \/ ~worker.claimed /\ Claim /\ UNCHANGED past
       \/ ~worker.claimed /\ Fault /\ UNCHANGED <<issue, sweep>>
    /\ UNCHANGED <<pr, jobs>>
\* An open pull request is used again.
OpenPullRequest ==
    /\ worker.phase = "labelled" /\ worker' = [phase |-> "idle", claimed |-> FALSE]
    /\ \/ pr.state = "open" /\ UNCHANGED <<pr, sweep, past>>
       \/ pr.state \in {"none", "closed"} /\ pr' = [pr EXCEPT !.state = "open", !.labels = {}] /\ Overlook(pr.link) /\ UNCHANGED past
       \/ pr.state # "open" /\ Fault /\ UNCHANGED <<pr, sweep>>
    /\ UNCHANGED <<issue, jobs>>

----------------------------------------------------------------------------
(* The runs that merge.  The conveyor takes what a scan found; the gate's    *)
(* job binds the merge to the head it checked.                               *)

Put(r, new) == jobs' = [jobs EXCEPT ![r] = new]
Go(r, phase) == Put(r, [jobs[r] EXCEPT !.phase = phase])
Quit(r) == Put(r, NoJob)
If(r, condition, phase) == IF condition THEN Go(r, phase) ELSE Quit(r)
Green(r) == jobs[r].head \in pr.green

\* Open pull requests with the label, on a branch of the belt, and then the
\* status of the head that was listed.
IdentifyReady(r) ==
    /\ jobs[r].phase = "idle" /\ pr.state = "open" /\ "automerge" \in pr.labels
    /\ Put(r, [NoJob EXCEPT !.phase = "listed", !.head = pr.head])
    /\ UNCHANGED <<issue, pr, worker, sweep, past>>
CheckState(r) ==
    /\ jobs[r].phase = "listed"
    /\ If(r, Green(r), IF r = "conveyor" THEN "scanned" ELSE "checked")
    /\ UNCHANGED <<issue, pr, worker, sweep, past>>
LoadPullRequest ==
    /\ jobs["conveyor"].phase = "scanned"
    /\ If("conveyor", pr.state = "open", "loaded")
    /\ UNCHANGED <<issue, pr, worker, sweep, past>>
EnsureGate ==
    /\ jobs["conveyor"].phase = "loaded"
    /\ If("conveyor", Green("conveyor"), "checked")
    /\ UNCHANGED <<issue, pr, worker, sweep, past>>
\* A pull request that only has its placeholder, or open tasks, is left.
Leave(r) ==
    /\ jobs[r].phase = "checked" /\ Quit(r)
    /\ UNCHANGED <<issue, pr, worker, sweep, past>>
RuntimeAcRequirement(labels) == Held \in labels
\* Labels that cannot be read block the merge.
AssertRuntimeAcMergeAllowed(r) ==
    /\ jobs[r].phase = "checked"
    /\ \/ If(r, ~RuntimeAcRequirement(pr.labels), "guarded") /\ UNCHANGED past
       \/ Fault /\ Quit(r)
    /\ UNCHANGED <<issue, pr, worker, sweep>>
\* Mutant of AtBoundary: only what the merge request cannot bind is read again.
AtBoundaryHead == pr.head = jobs["gate"].head /\ Green("gate")
AtBoundary ==
    /\ pr.head = jobs["gate"].head /\ Green("gate")
    /\ "automerge" \in pr.labels /\ ~RuntimeAcRequirement(pr.labels)
FinalMergeGuard ==
    /\ jobs["gate"].phase = "guarded"
    /\ jobs' = [jobs EXCEPT !["gate"] = IF AtBoundary THEN [@ EXCEPT !.phase = "bound", !.held = FALSE, !.rerun = FALSE] ELSE NoJob]
    /\ UNCHANGED <<issue, pr, worker, sweep, past>>
Merged(r) == [by |-> r, checked |-> jobs[r].head, head |-> pr.head, green |-> pr.head \in pr.green, rerun |-> jobs[r].rerun,
              holds |-> RuntimeAcRequirement(pr.labels), held |-> jobs[r].held]
\* The issue is closed with the merge.
Merge(r) ==
    /\ jobs[r].phase = (IF r = "gate" THEN "bound" ELSE "guarded")
    /\ LET may == pr.state = "open" /\ (r = "gate" => pr.head = jobs[r].head)
       IN  \/ ~may /\ Quit(r) /\ UNCHANGED <<issue, pr, sweep, past>>
           \/ /\ may /\ pr' = [pr EXCEPT !.state = "merged"] /\ issue' = [issue EXCEPT !.open = FALSE]
              /\ UNCHANGED sweep
              /\ \/ Go(r, "merged") /\ past' = [past EXCEPT !.merged = @ \cup {Merged(r)}]
                 \/ /\ past.faults < MaxFaults /\ Quit(r)
                    /\ past' = [past EXCEPT !.faults = @ + 1, !.merged = @ \cup {Merged(r)}]
    /\ UNCHANGED worker
\* The claim is given back as far as that succeeds.
Clean(r) ==
    /\ jobs[r].phase = "merged" /\ Quit(r)
    /\ \/ issue' = [issue EXCEPT !.label = FALSE, !.open = IF r = "conveyor" THEN FALSE ELSE @] /\ UNCHANGED past
       \/ Fault /\ UNCHANGED issue
    /\ UNCHANGED <<pr, worker, sweep>>

----------------------------------------------------------------------------
(* People, agents and checks.                                                *)

Tick ==
    /\ past.now < MaxTime /\ past' = [past EXCEPT !.now = @ + 1]
    /\ UNCHANGED <<issue, pr, worker, sweep, jobs>>
\* A run remembers what changed after its last look.
Unseen(field) == jobs' = [r \in Routes |-> IF jobs[r].phase \in {"guarded", "bound"} THEN [jobs[r] EXCEPT ![field] = TRUE] ELSE jobs[r]]
Push ==
    /\ pr.state = "open" /\ pr.head = 0 /\ More /\ pr' = [pr EXCEPT !.head = 1]
    /\ UNCHANGED <<issue, worker, sweep, jobs>>
RunChecks ==
    /\ pr.state = "open" /\ More
    /\ \/ pr.head \notin pr.green /\ pr' = [pr EXCEPT !.green = @ \cup {pr.head}] /\ UNCHANGED jobs
       \/ pr.head \in pr.green /\ pr' = [pr EXCEPT !.green = @ \ {pr.head}] /\ Unseen("rerun")
    /\ UNCHANGED <<issue, worker, sweep>>
Relabel ==
    /\ pr.state = "open" /\ More
    /\ \/ "automerge" \notin pr.labels /\ pr' = [pr EXCEPT !.labels = @ \cup {"automerge"}] /\ UNCHANGED jobs
       \/ Held \notin pr.labels /\ pr' = [pr EXCEPT !.labels = @ \cup {Held}] /\ Unseen("held")
    /\ UNCHANGED <<issue, worker, sweep>>
Close ==
    /\ pr.state = "open" /\ More /\ pr' = [pr EXCEPT !.state = "closed"] /\ Overlook(pr.link)
    /\ UNCHANGED <<issue, worker, jobs>>
Reopen ==
    /\ ~issue.open /\ More /\ issue' = [issue EXCEPT !.open = TRUE]
    /\ UNCHANGED <<pr, worker, sweep, jobs>>

Next ==
    \/ SweepClaims \/ ReadTimeline \/ ReadLinkedPullRequests \/ ReadCurrentIssue \/ Announce \/ FailSweep \/ RemoveLabel
    \/ Dispatch \/ Verify \/ EnsureLabel \/ OpenPullRequest
    \/ LoadPullRequest \/ EnsureGate \/ FinalMergeGuard
    \/ \E r \in Routes : IdentifyReady(r) \/ CheckState(r) \/ Leave(r) \/ AssertRuntimeAcMergeAllowed(r) \/ Merge(r) \/ Clean(r)
    \/ Tick \/ Push \/ RunChecks \/ Relabel \/ Close \/ Reopen
Spec == Init /\ [][Next]_vars

----------------------------------------------------------------------------
\* What the belt takes back and merges rests on what it last saw.  A claim that
\* is taken back was announced and was stale when the sweep began, and no pull
\* request stands for it, unless a claim or a pull request came after the sweep's
\* final check (sweepClaims).  Nothing is merged that carries a hold, unless that
\* came after the last look at the labels, and the gate's job merges the head it
\* checked, and green (assertRuntimeAcMergeAllowed, finalMergeGuardFailure).
ActsAsLastSeen ==
    /\ \A c \in past.reclaimed :
          /\ c.judged \in issue.notes
          /\ c.changed \/ (c.claim = c.judged /\ c.now - c.claim > Window /\ ~c.linked)
    /\ \A m \in past.merged :
          /\ m.holds => m.held
          /\ m.by = "gate" => m.head = m.checked /\ (m.green \/ m.rerun)
=============================================================================
