-------------------------- MODULE BeltClaimsProofs --------------------------
(* Whatever the bounds: what the belt takes back and merges rests on what it *)
(* last saw.  The invariant says what a run may still rely on between its    *)
(* last reading and its last request, unless it was marked as overtaken.     *)
EXTENDS BeltClaims, TLAPS

Heads == {0, 1}
Phases == {"idle", "listed", "scanned", "loaded", "checked", "guarded", "bound", "merged"}
Job == [phase : Phases, head : Heads, held : BOOLEAN, rerun : BOOLEAN]
Steps == {"idle", "timeline", "links", "current", "comments", "remove"}
Sweeps == [phase : Steps, round : {0, 1, 2, 3}, now : Int, claim : Int, seen : Int, linked : BOOLEAN, changed : BOOLEAN]
Taken == [claim : Int, judged : Int, now : Int, changed : BOOLEAN, linked : BOOLEAN]
Merger ==
    [by : Routes, checked : Heads, head : Heads, green : BOOLEAN, rerun : BOOLEAN, holds : BOOLEAN, held : BOOLEAN]

IssueOK == issue \in [open : BOOLEAN, label : BOOLEAN, claim : Int, notes : SUBSET Int]
PrOK ==
    pr \in [state : {"none", "open", "closed", "merged"}, link : {"mention", "linked"}, head : Heads,
            green : SUBSET Heads, labels : SUBSET {"automerge", Held}]
WorkerOK == worker \in [phase : {"idle", "queued", "verified", "labelled"}, claimed : BOOLEAN]
SweepOK == sweep \in Sweeps
JobsOK == jobs \in [Routes -> Job]
PastOK == past \in [now : Int, events : Int, faults : Int, reclaimed : SUBSET Taken, merged : SUBSET Merger]
Records == IssueOK /\ PrOK /\ WorkerOK /\ SweepOK /\ JobsOK /\ PastOK

\* A claim whose end was announced is judged a third time.  The third reading
\* stands until the sweep is marked.
Stands == pr.state \in {"open", "merged"}
Announced == sweep.round = 3 => sweep.claim \in issue.notes
HalfRead ==
    sweep.phase = "links" /\ sweep.round = 3 /\ ~sweep.changed =>
        sweep.seen = issue.claim /\ (Stands /\ pr.link = "mention" => sweep.linked)
Judged ==
    sweep.phase = "remove" =>
        /\ sweep.round = 3
        /\ \/ sweep.changed
           \/ sweep.claim = issue.claim /\ sweep.now - sweep.claim > Window /\ ~Stands
\* The last look of a merging job stands until the job is marked.
Unheld == \A r \in Routes : jobs[r].phase \in {"guarded", "bound"} /\ Held \in pr.labels => jobs[r].held
Bound == jobs["gate"].phase = "bound" => Green("gate") \/ jobs["gate"].rerun
Inv == Records /\ Announced /\ HalfRead /\ Judged /\ Unheld /\ Bound /\ ActsAsLastSeen

(* The idle sweep is a sweep.                                              *)
LEMMA NoSweepTyped == NoSweep \in Sweeps
BY DEF NoSweep, Sweeps, Steps, Never

(* The idle job is a job.                                                  *)
LEMMA NoJobTyped == NoJob \in Job
BY DEF NoJob, Job, Phases, Heads

(* Jobs stay jobs when one is replaced by a job.                           *)
LEMMA PutTyped == ASSUME JobsOK, NEW r \in Routes, NEW new \in Job, Put(r, new) PROVE JobsOK'
BY DEF JobsOK, Put

(* Jobs stay jobs when one goes on.                                        *)
LEMMA GoTyped == ASSUME JobsOK, NEW r \in Routes, NEW phase \in Phases, Go(r, phase) PROVE JobsOK'
<1>1. [jobs[r] EXCEPT !.phase = phase] \in Job
    BY DEF JobsOK, Job
<1>. QED  BY <1>1, PutTyped DEF Go

(* Jobs stay jobs when one ends.                                           *)
LEMMA QuitTyped == ASSUME JobsOK, NEW r \in Routes, Quit(r) PROVE JobsOK'
BY NoJobTyped, PutTyped DEF Quit

(* Jobs stay jobs when one goes on or ends.                                *)
LEMMA IfTyped ==
    ASSUME JobsOK, NEW r \in Routes, NEW phase \in Phases, NEW condition, If(r, condition, phase)
    PROVE  JobsOK'
BY GoTyped, QuitTyped DEF If

(* Jobs stay jobs when they are marked.                                    *)
LEMMA UnseenTyped ==
    ASSUME JobsOK, NEW field \in {"held", "rerun"}, Unseen(field)
    PROVE  JobsOK'
<1>1. ASSUME NEW r \in Routes
      PROVE  [jobs[r] EXCEPT ![field] = TRUE] \in Job
    <2>1. CASE field = "held"
        BY <2>1 DEF JobsOK, Job
    <2>2. CASE field = "rerun"
        BY <2>2 DEF JobsOK, Job
    <2>. QED  BY <2>1, <2>2
<1>. QED  BY <1>1 DEF JobsOK, Unseen

(* A sweep begins with nothing read.                                       *)
LEMMA SweepClaimsKeeps == ASSUME Inv, SweepClaims PROVE Inv'
<1>1. IssueOK' /\ PrOK' /\ WorkerOK' /\ JobsOK' /\ PastOK' /\ Unheld' /\ Bound' /\ ActsAsLastSeen'
    BY DEF Inv, Records, IssueOK, PrOK, WorkerOK, JobsOK, PastOK, Unheld, Bound, ActsAsLastSeen, Green, SweepClaims
<1>2. SweepOK'
    <2>1. [NoSweep EXCEPT !.phase = "timeline", !.round = 1, !.now = past.now] \in Sweeps
        BY NoSweepTyped DEF Sweeps, Steps, Inv, Records, PastOK
    <2>. QED  BY <2>1 DEF SweepOK, SweepClaims
<1>3. Announced'
    BY DEF Inv, Records, Announced, IssueOK, SweepOK, Sweeps, SweepClaims, NoSweep, Never, PastOK
<1>4. HalfRead'
    BY DEF Inv, Records, HalfRead, Stands, IssueOK, SweepOK, Sweeps, PrOK, SweepClaims, NoSweep, Never, PastOK, Held
<1>5. Judged'
    BY DEF Inv, Records, Judged, Stands, IssueOK, SweepOK, Sweeps, PrOK, SweepClaims, NoSweep, Never, PastOK, Held
<1>. QED  BY <1>1, <1>2, <1>3, <1>4, <1>5 DEF Inv, Records

(* The third reading begins: what it has seen so far is what the issue says.*)
LEMMA ReadTimelineKeeps == ASSUME Inv, ReadTimeline PROVE Inv'
<1>1. IssueOK' /\ PrOK' /\ WorkerOK' /\ JobsOK' /\ PastOK' /\ Unheld' /\ Bound' /\ ActsAsLastSeen'
    BY DEF Inv, Records, IssueOK, PrOK, WorkerOK, JobsOK, PastOK, Unheld, Bound, ActsAsLastSeen, Green, ReadTimeline
<1>2. SweepOK'
    BY DEF Inv, Records, SweepOK, Sweeps, Steps, ReadTimeline, LatestClaimTimestamp, Blocking, IssueOK
<1>3. Announced'
    BY DEF Inv, Records, Announced, IssueOK, SweepOK, Sweeps, ReadTimeline, LatestClaimTimestamp, Blocking
<1>4. HalfRead'
BY DEF Inv, Records, HalfRead, Stands, IssueOK, SweepOK, Sweeps, PrOK, ReadTimeline, LatestClaimTimestamp, Blocking,
           Held
<1>5. Judged'
BY DEF Inv, Records, Judged, Stands, IssueOK, SweepOK, Sweeps, PrOK, ReadTimeline, LatestClaimTimestamp, Blocking,
           Held
<1>. QED  BY <1>1, <1>2, <1>3, <1>4, <1>5 DEF Inv, Records

(* A label is only taken off after a third reading that found no pull request.*)
LEMMA ReadLinkedPullRequestsKeeps == ASSUME Inv, ReadLinkedPullRequests PROVE Inv'
<1>1. IssueOK' /\ PrOK' /\ WorkerOK' /\ JobsOK' /\ PastOK' /\ Unheld' /\ Bound' /\ ActsAsLastSeen'
BY DEF Inv, Records, IssueOK, PrOK, WorkerOK, JobsOK, PastOK, Unheld, Bound, ActsAsLastSeen, Green,
           ReadLinkedPullRequests
<1>2. SweepOK'
    <2>. DEFINE read == [sweep EXCEPT !.linked = @ \/ Blocking("linked"),
                                   !.claim = IF sweep.round = 1 THEN sweep.seen ELSE @]
    <2>1. read \in Sweeps
        BY DEF Inv, Records, SweepOK, Sweeps, Blocking
    <2>2. ASSUME NEW phase \in Steps
          PROVE  [read EXCEPT !.phase = phase] \in Sweeps
        BY <2>1 DEF Sweeps
    <2>3. sweep' \in {[read EXCEPT !.phase = phase] : phase \in Steps} \cup {NoSweep}
        BY DEF ReadLinkedPullRequests, Steps
    <2>. QED  BY <2>2, <2>3, NoSweepTyped DEF SweepOK
<1>3. Announced'
BY DEF Inv, Records, Announced, IssueOK, SweepOK, Sweeps, ReadLinkedPullRequests, NoSweep, Never, Blocking,
           EvaluateClaim, Confirmed
<1>4. HalfRead'
BY DEF Inv, Records, HalfRead, Stands, IssueOK, SweepOK, Sweeps, PrOK, ReadLinkedPullRequests, NoSweep, Never,
           Blocking, EvaluateClaim, Confirmed, Held
<1>5. Judged'
    <2>. SUFFICES ASSUME sweep'.phase = "remove" PROVE Judged'
        BY DEF Judged
    <2>1. sweep.phase = "links" /\ sweep.round = 3 /\ UNCHANGED <<issue, pr>>
        BY DEF ReadLinkedPullRequests, NoSweep, Inv, Records, SweepOK, Sweeps
    <2>2. /\ sweep' = [sweep EXCEPT !.linked = @ \/ Blocking("linked"), !.claim = sweep.claim, !.phase = "remove"]
          /\ Confirmed([sweep EXCEPT !.linked = @ \/ Blocking("linked"), !.claim = sweep.claim])
        BY <2>1 DEF ReadLinkedPullRequests, NoSweep, Inv, Records, SweepOK, Sweeps
    <2>3. /\ sweep'.round = 3 /\ sweep'.changed = sweep.changed /\ sweep'.claim = sweep.claim /\ sweep'.now = sweep.now
          /\ ~sweep.linked /\ ~Blocking("linked") /\ sweep.now - sweep.seen > Window /\ sweep.seen = sweep.claim
        BY <2>1, <2>2 DEF Confirmed, EvaluateClaim, Inv, Records, SweepOK, Sweeps
    <2>. QED  BY <2>1, <2>3 DEF Judged, Inv, Records, HalfRead, Stands, Blocking, PrOK
<1>. QED  BY <1>1, <1>2, <1>3, <1>4, <1>5 DEF Inv, Records

(* The label is looked for between the first and the second reading.       *)
LEMMA ReadCurrentIssueKeeps == ASSUME Inv, ReadCurrentIssue PROVE Inv'
<1>1. IssueOK' /\ PrOK' /\ WorkerOK' /\ JobsOK' /\ PastOK' /\ Unheld' /\ Bound' /\ ActsAsLastSeen'
BY DEF Inv, Records, IssueOK, PrOK, WorkerOK, JobsOK, PastOK, Unheld, Bound, ActsAsLastSeen, Green, ReadCurrentIssue
<1>2. SweepOK'
    <2>1. [sweep EXCEPT !.phase = "timeline", !.round = 2] \in Sweeps
        BY DEF Inv, Records, SweepOK, Sweeps, Steps
    <2>. QED  BY <2>1, NoSweepTyped DEF SweepOK, ReadCurrentIssue
<1>3. Announced'
    BY DEF Inv, Records, Announced, IssueOK, SweepOK, Sweeps, ReadCurrentIssue, NoSweep, Never
<1>4. HalfRead'
    BY DEF Inv, Records, HalfRead, Stands, IssueOK, SweepOK, Sweeps, PrOK, ReadCurrentIssue, NoSweep, Never, Held
<1>5. Judged'
    BY DEF Inv, Records, Judged, Stands, IssueOK, SweepOK, Sweeps, PrOK, ReadCurrentIssue, NoSweep, Never, Held
<1>. QED  BY <1>1, <1>2, <1>3, <1>4, <1>5 DEF Inv, Records

(* The third reading begins with the announcement of the claim.            *)
LEMMA AnnounceKeeps == ASSUME Inv, Announce PROVE Inv'
<1>1. PrOK' /\ WorkerOK' /\ JobsOK' /\ Unheld' /\ Bound'
    BY DEF Inv, Records, PrOK, WorkerOK, JobsOK, Unheld, Bound, Green, Announce
<1>2. IssueOK'
    BY DEF Inv, Records, IssueOK, Announce, NoSweep, Never, Fault, SweepOK, Sweeps
<1>3. SweepOK'
    <2>1. [sweep EXCEPT !.phase = "timeline", !.round = 3] \in Sweeps
        BY DEF Inv, Records, SweepOK, Sweeps, Steps
    <2>. QED  BY <2>1, NoSweepTyped DEF SweepOK, Announce
<1>4. PastOK'
    BY DEF Inv, Records, PastOK, Taken, Merger, Heads, Routes, Announce, NoSweep, Never, Fault, SweepOK, Sweeps
<1>5. Announced'
    <2>1. CASE sweep' = [sweep EXCEPT !.phase = "timeline", !.round = 3]
        BY <2>1 DEF Announced, Inv, Records, SweepOK, Sweeps, IssueOK, Announce
    <2>2. CASE sweep' = NoSweep
        BY <2>2 DEF Announced, NoSweep
    <2>. QED  BY <2>1, <2>2 DEF Announce
<1>6. HalfRead'
    <2>1. CASE sweep' = [sweep EXCEPT !.phase = "timeline", !.round = 3]
        BY <2>1 DEF HalfRead, Inv, Records, SweepOK, Sweeps
    <2>2. CASE sweep' = NoSweep
        BY <2>2 DEF HalfRead, NoSweep
    <2>. QED  BY <2>1, <2>2 DEF Announce
<1>7. Judged'
    <2>1. CASE sweep' = [sweep EXCEPT !.phase = "timeline", !.round = 3]
        BY <2>1 DEF Judged, Inv, Records, SweepOK, Sweeps
    <2>2. CASE sweep' = NoSweep
        BY <2>2 DEF Judged, NoSweep
    <2>. QED  BY <2>1, <2>2 DEF Announce
<1>8. ActsAsLastSeen'
    BY DEF Inv, Records, ActsAsLastSeen, PastOK, IssueOK, Announce, NoSweep, Never, Fault, SweepOK, Sweeps
<1>. QED  BY <1>1, <1>2, <1>3, <1>4, <1>5, <1>6, <1>7, <1>8 DEF Inv, Records

(* A sweep that fails relies on nothing.                                   *)
LEMMA FailSweepKeeps == ASSUME Inv, FailSweep PROVE Inv'
<1>1. IssueOK' /\ PrOK' /\ WorkerOK' /\ JobsOK' /\ Unheld' /\ Bound'
    BY DEF Inv, Records, IssueOK, PrOK, WorkerOK, JobsOK, Unheld, Bound, Green, FailSweep
<1>2. SweepOK'
    BY DEF Inv, Records, SweepOK, Sweeps, Steps, FailSweep, NoSweep, Never, Fault
<1>3. PastOK'
    BY DEF Inv, Records, PastOK, Taken, Merger, Heads, Routes, FailSweep, NoSweep, Never, Fault
<1>4. Announced'
    BY DEF Inv, Records, Announced, IssueOK, SweepOK, Sweeps, FailSweep, NoSweep, Never, Fault
<1>5. HalfRead'
    BY DEF Inv, Records, HalfRead, Stands, IssueOK, SweepOK, Sweeps, PrOK, FailSweep, NoSweep, Never, Fault, Held
<1>6. Judged'
    BY DEF Inv, Records, Judged, Stands, IssueOK, SweepOK, Sweeps, PrOK, FailSweep, NoSweep, Never, Fault, Held
<1>7. ActsAsLastSeen'
    BY DEF Inv, Records, ActsAsLastSeen, PastOK, IssueOK, FailSweep, NoSweep, Never, Fault
<1>. QED  BY <1>1, <1>2, <1>3, <1>4, <1>5, <1>6, <1>7 DEF Inv, Records

(* The claim that is taken back is the one that was judged.                *)
LEMMA RemoveLabelKeeps == ASSUME Inv, RemoveLabel PROVE Inv'
<1>1. PrOK' /\ WorkerOK' /\ JobsOK' /\ Unheld' /\ Bound'
    BY DEF Inv, Records, PrOK, WorkerOK, JobsOK, Unheld, Bound, Green, RemoveLabel
<1>2. IssueOK'
    BY DEF Inv, Records, IssueOK, RemoveLabel, NoSweep, Never, Reclaimed, SweepOK
<1>3. SweepOK'
    BY DEF Inv, Records, SweepOK, Sweeps, Steps, RemoveLabel, NoSweep, Never, Reclaimed
<1>4. PastOK'
    <2>1. Reclaimed \in Taken
        BY DEF Reclaimed, Taken, Inv, Records, IssueOK, SweepOK, Sweeps, PrOK
    <2>. QED  BY <2>1 DEF Inv, Records, PastOK, RemoveLabel
<1>5. Announced'
    BY DEF Inv, Records, Announced, IssueOK, SweepOK, Sweeps, RemoveLabel, NoSweep, Never, Reclaimed
<1>6. HalfRead'
BY DEF Inv, Records, HalfRead, Stands, IssueOK, SweepOK, Sweeps, PrOK, RemoveLabel, NoSweep, Never, Reclaimed, Held
<1>7. Judged'
    BY DEF Inv, Records, Judged, Stands, IssueOK, SweepOK, Sweeps, PrOK, RemoveLabel, NoSweep, Never, Reclaimed, Held
<1>8. ActsAsLastSeen'
    <2>1. issue'.notes = issue.notes /\ past'.merged = past.merged
        BY DEF Inv, Records, IssueOK, PastOK, RemoveLabel
    <2>2. past'.reclaimed \subseteq past.reclaimed \cup {Reclaimed}
        BY DEF Inv, Records, PastOK, RemoveLabel
    <2>3. /\ Reclaimed.judged \in issue.notes
          /\ Reclaimed.changed \/ (/\ Reclaimed.claim = Reclaimed.judged /\ Reclaimed.now - Reclaimed.claim > Window
                                   /\ ~Reclaimed.linked)
        BY DEF Inv, Judged, Announced, Stands, Reclaimed, RemoveLabel
    <2>. QED  BY <2>1, <2>2, <2>3 DEF Inv, ActsAsLastSeen
<1>. QED  BY <1>1, <1>2, <1>3, <1>4, <1>5, <1>6, <1>7, <1>8 DEF Inv, Records

(* A new claim is announced nowhere, and marks a sweep that is past its check.*)
LEMMA DispatchKeeps == ASSUME Inv, Dispatch PROVE Inv'
<1>1. PrOK' /\ JobsOK' /\ Unheld' /\ Bound'
    BY DEF Inv, Records, PrOK, JobsOK, Unheld, Bound, Green, Dispatch
<1>2. IssueOK'
    BY DEF Inv, Records, IssueOK, Dispatch, Claim, Overlook, More, Fault, PastOK
<1>3. WorkerOK'
    BY DEF Inv, Records, WorkerOK, Dispatch, Claim, Overlook, More, Fault, PastOK
<1>4. SweepOK'
    BY DEF Inv, Records, SweepOK, Sweeps, Steps, Dispatch, Claim, Overlook, More, Fault, PastOK
<1>5. PastOK'
    BY DEF Inv, Records, PastOK, Taken, Merger, Heads, Routes, Dispatch, Claim, Overlook, More, Fault
<1>6. Announced'
    BY DEF Inv, Records, Announced, IssueOK, SweepOK, Sweeps, Dispatch, Claim, Overlook, More, Fault, PastOK
<1>7. HalfRead'
BY DEF Inv, Records, HalfRead, Stands, IssueOK, SweepOK, Sweeps, PrOK, Dispatch, Claim, Overlook, More, Fault,
           PastOK, Held
<1>8. Judged'
BY DEF Inv, Records, Judged, Stands, IssueOK, SweepOK, Sweeps, PrOK, Dispatch, Claim, Overlook, More, Fault, PastOK,
           Held
<1>9. ActsAsLastSeen'
    BY DEF Inv, Records, ActsAsLastSeen, PastOK, IssueOK, Dispatch, Claim, Overlook, More, Fault
<1>. QED  BY <1>1, <1>2, <1>3, <1>4, <1>5, <1>6, <1>7, <1>8, <1>9 DEF Inv, Records

(* The worker only looks.                                                  *)
LEMMA VerifyKeeps == ASSUME Inv, Verify PROVE Inv'
<1>1. IssueOK' /\ PrOK' /\ SweepOK' /\ JobsOK' /\ PastOK' /\ Announced' /\ HalfRead' /\ Judged' /\ Unheld' /\ Bound'
       /\ ActsAsLastSeen'
BY DEF Inv, Records, IssueOK, PrOK, SweepOK, JobsOK, PastOK, Announced, HalfRead, Judged, Unheld, Bound,
           ActsAsLastSeen, Stands, Green, Verify
<1>2. WorkerOK'
    BY DEF Inv, Records, WorkerOK, Verify, IssueOK
<1>. QED  BY <1>1, <1>2 DEF Inv, Records

(* A new claim marks a sweep that is past its check.                       *)
LEMMA EnsureLabelKeeps == ASSUME Inv, EnsureLabel PROVE Inv'
<1>1. PrOK' /\ JobsOK' /\ Unheld' /\ Bound'
    BY DEF Inv, Records, PrOK, JobsOK, Unheld, Bound, Green, EnsureLabel
<1>2. IssueOK'
    BY DEF Inv, Records, IssueOK, EnsureLabel, Claim, Overlook, Fault, PastOK
<1>3. WorkerOK'
    BY DEF Inv, Records, WorkerOK, EnsureLabel, Claim, Overlook, Fault, PastOK
<1>4. SweepOK'
    BY DEF Inv, Records, SweepOK, Sweeps, Steps, EnsureLabel, Claim, Overlook, Fault, PastOK
<1>5. PastOK'
    BY DEF Inv, Records, PastOK, Taken, Merger, Heads, Routes, EnsureLabel, Claim, Overlook, Fault
<1>6. Announced'
    <2>1. issue'.notes = issue.notes
        BY DEF Inv, Records, IssueOK, EnsureLabel, Claim
    <2>2. sweep'.round = sweep.round /\ sweep'.claim = sweep.claim
        BY DEF Inv, Records, SweepOK, Sweeps, EnsureLabel, Claim, Overlook
    <2>. QED  BY <2>1, <2>2 DEF Inv, Announced
<1>7. HalfRead'
BY DEF Inv, Records, HalfRead, Stands, IssueOK, SweepOK, Sweeps, PrOK, EnsureLabel, Claim, Overlook, Fault, PastOK,
           Held
<1>8. Judged'
BY DEF Inv, Records, Judged, Stands, IssueOK, SweepOK, Sweeps, PrOK, EnsureLabel, Claim, Overlook, Fault, PastOK,
           Held
<1>9. ActsAsLastSeen'
    BY DEF Inv, Records, ActsAsLastSeen, PastOK, IssueOK, EnsureLabel, Claim, Overlook, Fault
<1>. QED  BY <1>1, <1>2, <1>3, <1>4, <1>5, <1>6, <1>7, <1>8, <1>9 DEF Inv, Records

(* A new pull request marks a sweep that is past its check, and has no hold.*)
LEMMA OpenPullRequestKeeps == ASSUME Inv, OpenPullRequest PROVE Inv'
<1>1. IssueOK' /\ JobsOK'
    BY DEF Inv, Records, IssueOK, JobsOK, OpenPullRequest
<1>2. PrOK'
    BY DEF Inv, Records, PrOK, Heads, Held, OpenPullRequest, Overlook, Fault
<1>3. WorkerOK'
    BY DEF Inv, Records, WorkerOK, OpenPullRequest, Overlook, Fault
<1>4. SweepOK'
    BY DEF Inv, Records, SweepOK, Sweeps, Steps, OpenPullRequest, Overlook, Fault
<1>5. PastOK'
    BY DEF Inv, Records, PastOK, Taken, Merger, Heads, Routes, OpenPullRequest, Overlook, Fault
<1>6. Announced'
    BY DEF Inv, Records, Announced, IssueOK, SweepOK, Sweeps, OpenPullRequest, Overlook, Fault
<1>7. HalfRead'
    BY DEF Inv, Records, HalfRead, Stands, IssueOK, SweepOK, Sweeps, PrOK, OpenPullRequest, Overlook, Fault, Held
<1>8. Judged'
    BY DEF Inv, Records, Judged, Stands, IssueOK, SweepOK, Sweeps, PrOK, OpenPullRequest, Overlook, Fault, Held
<1>9. Unheld'
    BY DEF Inv, Records, Unheld, Routes, JobsOK, Job, PrOK, OpenPullRequest, Overlook, Fault, Held
<1>10. Bound'
    BY DEF Inv, Records, Bound, Green, Routes, JobsOK, Job, Heads, PrOK, OpenPullRequest, Overlook, Fault, Held
<1>11. ActsAsLastSeen'
    BY DEF Inv, Records, ActsAsLastSeen, PastOK, IssueOK, OpenPullRequest, Overlook, Fault
<1>. QED  BY <1>1, <1>2, <1>3, <1>4, <1>5, <1>6, <1>7, <1>8, <1>9, <1>10, <1>11 DEF Inv, Records

(* The conveyor only looks.                                                *)
LEMMA LoadPullRequestKeeps == ASSUME Inv, LoadPullRequest PROVE Inv'
<1>1. IssueOK' /\ PrOK' /\ WorkerOK' /\ SweepOK' /\ PastOK' /\ Announced' /\ HalfRead' /\ Judged' /\ ActsAsLastSeen'
BY DEF Inv, Records, IssueOK, PrOK, WorkerOK, SweepOK, PastOK, Announced, HalfRead, Judged, ActsAsLastSeen, Stands,
           LoadPullRequest
<1>2. JobsOK'
    BY IfTyped DEF Inv, Records, LoadPullRequest, Routes, Phases
<1>3. Unheld'
    BY DEF Inv, Records, Unheld, Routes, JobsOK, Job, PrOK, LoadPullRequest, If, Go, Quit, Put, NoJob, Held
<1>4. Bound'
BY DEF Inv, Records, Bound, Green, Routes, JobsOK, Job, Heads, PrOK, LoadPullRequest, If, Go, Quit, Put, NoJob, Held
<1>. QED  BY <1>1, <1>2, <1>3, <1>4 DEF Inv, Records

(* The conveyor only looks.                                                *)
LEMMA EnsureGateKeeps == ASSUME Inv, EnsureGate PROVE Inv'
<1>1. IssueOK' /\ PrOK' /\ WorkerOK' /\ SweepOK' /\ PastOK' /\ Announced' /\ HalfRead' /\ Judged' /\ ActsAsLastSeen'
BY DEF Inv, Records, IssueOK, PrOK, WorkerOK, SweepOK, PastOK, Announced, HalfRead, Judged, ActsAsLastSeen, Stands,
           EnsureGate
<1>2. JobsOK'
    BY IfTyped DEF Inv, Records, EnsureGate, Routes, Phases
<1>3. Unheld'
    BY DEF Inv, Records, Unheld, Routes, JobsOK, Job, PrOK, EnsureGate, If, Go, Quit, Put, NoJob, Green, Held
<1>4. Bound'
    BY DEF Inv, Records, Bound, Green, Routes, JobsOK, Job, Heads, PrOK, EnsureGate, If, Go, Quit, Put, NoJob, Held
<1>. QED  BY <1>1, <1>2, <1>3, <1>4 DEF Inv, Records

(* The gate's job begins to rely on the head, its checks and the labels.   *)
LEMMA FinalMergeGuardKeeps == ASSUME Inv, FinalMergeGuard PROVE Inv'
<1>1. IssueOK' /\ PrOK' /\ WorkerOK' /\ SweepOK' /\ PastOK' /\ Announced' /\ HalfRead' /\ Judged' /\ ActsAsLastSeen'
BY DEF Inv, Records, IssueOK, PrOK, WorkerOK, SweepOK, PastOK, Announced, HalfRead, Judged, ActsAsLastSeen, Stands,
           FinalMergeGuard
<1>2. JobsOK'
BY DEF Inv, Records, JobsOK, Job, Phases, Heads, Routes, FinalMergeGuard, AtBoundary, NoJob, Green,
           RuntimeAcRequirement, Held
<1>3. Unheld'
BY DEF Inv, Records, Unheld, Routes, JobsOK, Job, PrOK, FinalMergeGuard, AtBoundary, NoJob, Green,
           RuntimeAcRequirement, Held
<1>4. Bound'
BY DEF Inv, Records, Bound, Green, Routes, JobsOK, Job, Heads, PrOK, FinalMergeGuard, AtBoundary, NoJob,
           RuntimeAcRequirement, Held
<1>. QED  BY <1>1, <1>2, <1>3, <1>4 DEF Inv, Records

(* A listed pull request is not relied on yet.                             *)
LEMMA IdentifyReadyKeeps == ASSUME Inv, NEW r \in Routes, IdentifyReady(r) PROVE Inv'
<1>1. IssueOK' /\ PrOK' /\ WorkerOK' /\ SweepOK' /\ PastOK' /\ Announced' /\ HalfRead' /\ Judged' /\ ActsAsLastSeen'
BY DEF Inv, Records, IssueOK, PrOK, WorkerOK, SweepOK, PastOK, Announced, HalfRead, Judged, ActsAsLastSeen, Stands,
           IdentifyReady
<1>2. JobsOK'
    BY DEF Inv, Records, JobsOK, Job, Phases, Heads, Routes, IdentifyReady, Put, NoJob, PrOK
<1>3. Unheld'
    BY DEF Inv, Records, Unheld, Routes, JobsOK, Job, PrOK, IdentifyReady, Put, NoJob, Held
<1>4. Bound'
    BY DEF Inv, Records, Bound, Green, Routes, JobsOK, Job, Heads, PrOK, IdentifyReady, Put, NoJob, Held
<1>. QED  BY <1>1, <1>2, <1>3, <1>4 DEF Inv, Records

(* A checked one is not relied on yet.                                     *)
LEMMA CheckStateKeeps == ASSUME Inv, NEW r \in Routes, CheckState(r) PROVE Inv'
<1>1. IssueOK' /\ PrOK' /\ WorkerOK' /\ SweepOK' /\ PastOK' /\ Announced' /\ HalfRead' /\ Judged' /\ ActsAsLastSeen'
BY DEF Inv, Records, IssueOK, PrOK, WorkerOK, SweepOK, PastOK, Announced, HalfRead, Judged, ActsAsLastSeen, Stands,
           CheckState
<1>2. JobsOK'
    <2>1. CASE r = "conveyor"
        BY <2>1, IfTyped DEF Inv, Records, CheckState, Phases
    <2>2. CASE r # "conveyor"
        BY <2>2, IfTyped DEF Inv, Records, CheckState, Phases
    <2>. QED  BY <2>1, <2>2
<1>3. Unheld'
    BY DEF Inv, Records, Unheld, Routes, JobsOK, Job, PrOK, CheckState, If, Go, Quit, Put, NoJob, Green, Held
<1>4. Bound'
    BY DEF Inv, Records, Bound, Green, Routes, JobsOK, Job, Heads, PrOK, CheckState, If, Go, Quit, Put, NoJob, Held
<1>. QED  BY <1>1, <1>2, <1>3, <1>4 DEF Inv, Records

(* A job that ends relies on nothing.                                      *)
LEMMA LeaveKeeps == ASSUME Inv, NEW r \in Routes, Leave(r) PROVE Inv'
<1>1. IssueOK' /\ PrOK' /\ WorkerOK' /\ SweepOK' /\ PastOK' /\ Announced' /\ HalfRead' /\ Judged' /\ ActsAsLastSeen'
BY DEF Inv, Records, IssueOK, PrOK, WorkerOK, SweepOK, PastOK, Announced, HalfRead, Judged, ActsAsLastSeen, Stands,
           Leave
<1>2. JobsOK'
    BY DEF Inv, Records, JobsOK, Job, Phases, Heads, Routes, Leave, Quit, Put, NoJob
<1>3. Unheld'
    BY DEF Inv, Records, Unheld, Routes, JobsOK, Job, PrOK, Leave, Quit, Put, NoJob, Held
<1>4. Bound'
    BY DEF Inv, Records, Bound, Green, Routes, JobsOK, Job, Heads, PrOK, Leave, Quit, Put, NoJob, Held
<1>. QED  BY <1>1, <1>2, <1>3, <1>4 DEF Inv, Records

(* A job begins to rely on the labels.                                     *)
LEMMA AssertRuntimeAcMergeAllowedKeeps == ASSUME Inv, NEW r \in Routes, AssertRuntimeAcMergeAllowed(r) PROVE Inv'
<1>1. IssueOK' /\ PrOK' /\ WorkerOK' /\ SweepOK' /\ Announced' /\ HalfRead' /\ Judged'
BY DEF Inv, Records, IssueOK, PrOK, WorkerOK, SweepOK, Announced, HalfRead, Judged, Stands,
           AssertRuntimeAcMergeAllowed
<1>2. JobsOK'
    BY IfTyped, QuitTyped DEF Inv, Records, AssertRuntimeAcMergeAllowed, Phases
<1>3. PastOK'
BY DEF Inv, Records, PastOK, Taken, Merger, Heads, Routes, AssertRuntimeAcMergeAllowed, If, Go, Quit, Put, NoJob,
           Fault, RuntimeAcRequirement, Held
<1>4. Unheld'
BY DEF Inv, Records, Unheld, Routes, JobsOK, Job, PrOK, AssertRuntimeAcMergeAllowed, If, Go, Quit, Put, NoJob,
           Fault, RuntimeAcRequirement, Held
<1>5. Bound'
BY DEF Inv, Records, Bound, Green, Routes, JobsOK, Job, Heads, PrOK, AssertRuntimeAcMergeAllowed, If, Go, Quit, Put,
           NoJob, Fault, RuntimeAcRequirement, Held
<1>6. ActsAsLastSeen'
BY DEF Inv, Records, ActsAsLastSeen, PastOK, IssueOK, AssertRuntimeAcMergeAllowed, If, Go, Quit, Put, NoJob, Fault,
           RuntimeAcRequirement, Held
<1>. QED  BY <1>1, <1>2, <1>3, <1>4, <1>5, <1>6 DEF Inv, Records

(* What is merged is what the job may rely on.                             *)
LEMMA MergeKeeps == ASSUME Inv, NEW r \in Routes, Merge(r) PROVE Inv'
<1>1. WorkerOK' /\ SweepOK'
    BY DEF Inv, Records, WorkerOK, SweepOK, Merge
<1>2. IssueOK'
    BY DEF Inv, Records, IssueOK, Merge, Go, Quit, Put, NoJob, Merged, RuntimeAcRequirement, JobsOK, Held
<1>3. PrOK'
    BY DEF Inv, Records, PrOK, Heads, Held, Merge, Go, Quit, Put, NoJob, Merged, RuntimeAcRequirement, JobsOK
<1>4. JobsOK'
    BY GoTyped, QuitTyped DEF Inv, Records, Merge, Phases
<1>5. PastOK'
    <2>1. jobs[r] \in Job /\ pr.head \in Heads
        BY DEF Inv, Records, JobsOK, PrOK
    <2>2. Merged(r) \in Merger
        <3>1. jobs[r].head \in Heads /\ jobs[r].rerun \in BOOLEAN /\ jobs[r].held \in BOOLEAN
            BY <2>1 DEF Job
        <3>2. (pr.head \in pr.green) \in BOOLEAN /\ RuntimeAcRequirement(pr.labels) \in BOOLEAN
            BY DEF RuntimeAcRequirement
        <3>. QED  BY <2>1, <3>1, <3>2 DEF Merged, Merger
    <2>3. past.merged \cup {Merged(r)} \subseteq Merger
        BY <2>2 DEF Inv, Records, PastOK
    <2>4. \/ past' = past
          \/ past' = [past EXCEPT !.merged = @ \cup {Merged(r)}]
          \/ past' = [past EXCEPT !.faults = @ + 1, !.merged = @ \cup {Merged(r)}]
        BY DEF Merge
    <2>5. PastOK
        BY DEF Inv, Records
    <2>6. CASE past' = past
        BY <2>5, <2>6 DEF PastOK
    <2>7. CASE past' = [past EXCEPT !.merged = @ \cup {Merged(r)}]
        BY <2>3, <2>5, <2>7 DEF PastOK
    <2>8. CASE past' = [past EXCEPT !.faults = @ + 1, !.merged = @ \cup {Merged(r)}]
        <3>1. past.now \in Int /\ past.events \in Int /\ past.faults + 1 \in Int /\ past.reclaimed \in SUBSET Taken
            BY <2>5 DEF PastOK
        <3>2. past' = [now |-> past.now, events |-> past.events, faults |-> past.faults + 1,
                       reclaimed |-> past.reclaimed, merged |-> past.merged \cup {Merged(r)}]
            BY <2>5, <2>8 DEF PastOK
        <3>. QED  BY <2>3, <3>1, <3>2 DEF PastOK
    <2>. QED  BY <2>4, <2>6, <2>7, <2>8
<1>6. Announced'
BY DEF Inv, Records, Announced, IssueOK, SweepOK, Sweeps, Merge, Go, Quit, Put, NoJob, Merged, RuntimeAcRequirement,
           JobsOK, Held
<1>7. HalfRead'
BY DEF Inv, Records, HalfRead, Stands, IssueOK, SweepOK, Sweeps, PrOK, Merge, Go, Quit, Put, NoJob, Merged,
           RuntimeAcRequirement, JobsOK, Held
<1>8. Judged'
BY DEF Inv, Records, Judged, Stands, IssueOK, SweepOK, Sweeps, PrOK, Merge, Go, Quit, Put, NoJob, Merged,
           RuntimeAcRequirement, JobsOK, Held
<1>9. Unheld'
BY DEF Inv, Records, Unheld, Routes, JobsOK, Job, PrOK, Merge, Go, Quit, Put, NoJob, Merged, RuntimeAcRequirement,
           Held
<1>10. Bound'
BY DEF Inv, Records, Bound, Green, Routes, JobsOK, Job, Heads, PrOK, Merge, Go, Quit, Put, NoJob, Merged,
           RuntimeAcRequirement, Held
<1>11. ActsAsLastSeen'
    <2>1. issue'.notes = issue.notes /\ past'.reclaimed = past.reclaimed
        BY DEF Inv, Records, IssueOK, PastOK, Merge
    <2>2. CASE past'.merged = past.merged
        BY <2>1, <2>2 DEF Inv, ActsAsLastSeen
    <2>3. CASE past'.merged # past.merged
        <3>1. past'.merged = past.merged \cup {Merged(r)} /\ (r = "gate" => pr.head = jobs[r].head)
            BY <2>3 DEF Inv, Records, PastOK, Merge
        <3>2. Merged(r).holds => Merged(r).held
            BY DEF Inv, Unheld, Merged, RuntimeAcRequirement, Merge
        <3>3. Merged(r).by = "gate" => Merged(r).head = Merged(r).checked /\ (Merged(r).green \/ Merged(r).rerun)
            BY <3>1 DEF Inv, Bound, Green, Merged, Merge
        <3>. QED  BY <2>1, <3>1, <3>2, <3>3 DEF Inv, ActsAsLastSeen
    <2>. QED  BY <2>2, <2>3
<1>. QED  BY <1>1, <1>2, <1>3, <1>4, <1>5, <1>6, <1>7, <1>8, <1>9, <1>10, <1>11 DEF Inv, Records

(* The claim is given back by the job that merged.                         *)
LEMMA CleanKeeps == ASSUME Inv, NEW r \in Routes, Clean(r) PROVE Inv'
<1>1. PrOK' /\ WorkerOK' /\ SweepOK'
    BY DEF Inv, Records, PrOK, WorkerOK, SweepOK, Clean
<1>2. IssueOK'
    BY DEF Inv, Records, IssueOK, Clean, Quit, Put, NoJob, Fault
<1>3. JobsOK'
    BY DEF Inv, Records, JobsOK, Job, Phases, Heads, Routes, Clean, Quit, Put, NoJob, Fault
<1>4. PastOK'
    BY DEF Inv, Records, PastOK, Taken, Merger, Heads, Routes, Clean, Quit, Put, NoJob, Fault
<1>5. Announced'
    BY DEF Inv, Records, Announced, IssueOK, SweepOK, Sweeps, Clean, Quit, Put, NoJob, Fault
<1>6. HalfRead'
    BY DEF Inv, Records, HalfRead, Stands, IssueOK, SweepOK, Sweeps, PrOK, Clean, Quit, Put, NoJob, Fault, Held
<1>7. Judged'
    BY DEF Inv, Records, Judged, Stands, IssueOK, SweepOK, Sweeps, PrOK, Clean, Quit, Put, NoJob, Fault, Held
<1>8. Unheld'
    BY DEF Inv, Records, Unheld, Routes, JobsOK, Job, PrOK, Clean, Quit, Put, NoJob, Fault, Held
<1>9. Bound'
    BY DEF Inv, Records, Bound, Green, Routes, JobsOK, Job, Heads, PrOK, Clean, Quit, Put, NoJob, Fault, Held
<1>10. ActsAsLastSeen'
    BY DEF Inv, Records, ActsAsLastSeen, PastOK, IssueOK, Clean, Quit, Put, NoJob, Fault
<1>. QED  BY <1>1, <1>2, <1>3, <1>4, <1>5, <1>6, <1>7, <1>8, <1>9, <1>10 DEF Inv, Records

(* The clock is read only when a sweep begins.                             *)
LEMMA TickKeeps == ASSUME Inv, Tick PROVE Inv'
<1>1. IssueOK' /\ PrOK' /\ WorkerOK' /\ SweepOK' /\ JobsOK' /\ Announced' /\ HalfRead' /\ Judged' /\ Unheld' /\ Bound'
BY DEF Inv, Records, IssueOK, PrOK, WorkerOK, SweepOK, JobsOK, Announced, HalfRead, Judged, Unheld, Bound, Stands,
           Green, Tick
<1>2. PastOK'
    BY DEF Inv, Records, PastOK, Taken, Merger, Heads, Routes, Tick
<1>3. ActsAsLastSeen'
    BY DEF Inv, Records, ActsAsLastSeen, PastOK, IssueOK, Tick
<1>. QED  BY <1>1, <1>2, <1>3 DEF Inv, Records

(* A new head is not what the gate's job would merge.                      *)
LEMMA PushKeeps == ASSUME Inv, Push PROVE Inv'
<1>1. IssueOK' /\ WorkerOK' /\ SweepOK' /\ JobsOK' /\ Announced'
    BY DEF Inv, Records, IssueOK, WorkerOK, SweepOK, JobsOK, Announced, Push
<1>2. PrOK'
    BY DEF Inv, Records, PrOK, Heads, Held, Push, More
<1>3. PastOK'
    BY DEF Inv, Records, PastOK, Taken, Merger, Heads, Routes, Push, More
<1>4. HalfRead'
    BY DEF Inv, Records, HalfRead, Stands, IssueOK, SweepOK, Sweeps, PrOK, Push, More, Held
<1>5. Judged'
    BY DEF Inv, Records, Judged, Stands, IssueOK, SweepOK, Sweeps, PrOK, Push, More, Held
<1>6. Unheld'
    BY DEF Inv, Records, Unheld, Routes, JobsOK, Job, PrOK, Push, More, Held
<1>7. Bound'
    BY DEF Inv, Records, Bound, Green, Routes, JobsOK, Job, Heads, PrOK, Push, More, Held
<1>8. ActsAsLastSeen'
    BY DEF Inv, Records, ActsAsLastSeen, PastOK, IssueOK, Push, More
<1>. QED  BY <1>1, <1>2, <1>3, <1>4, <1>5, <1>6, <1>7, <1>8 DEF Inv, Records

(* A run that takes the green away marks the jobs that rely on it.         *)
LEMMA RunChecksKeeps == ASSUME Inv, RunChecks PROVE Inv'
<1>1. IssueOK' /\ WorkerOK' /\ SweepOK' /\ Announced'
    BY DEF Inv, Records, IssueOK, WorkerOK, SweepOK, Announced, RunChecks
<1>2. PrOK'
    BY DEF Inv, Records, PrOK, Heads, Held, RunChecks, More, Unseen
<1>3. JobsOK'
    BY UnseenTyped DEF Inv, Records, RunChecks, JobsOK
<1>4. PastOK'
    BY DEF Inv, Records, PastOK, Taken, Merger, Heads, Routes, RunChecks, More, Unseen
<1>5. HalfRead'
    BY DEF Inv, Records, HalfRead, Stands, IssueOK, SweepOK, Sweeps, PrOK, RunChecks, More, Unseen, Held
<1>6. Judged'
    BY DEF Inv, Records, Judged, Stands, IssueOK, SweepOK, Sweeps, PrOK, RunChecks, More, Unseen, Held
<1>7. Unheld'
    BY DEF Inv, Records, Unheld, Routes, JobsOK, Job, PrOK, RunChecks, More, Unseen, Held
<1>8. Bound'
    BY DEF Inv, Records, Bound, Green, Routes, JobsOK, Job, Heads, PrOK, RunChecks, More, Unseen, Held
<1>9. ActsAsLastSeen'
    BY DEF Inv, Records, ActsAsLastSeen, PastOK, IssueOK, RunChecks, More, Unseen
<1>. QED  BY <1>1, <1>2, <1>3, <1>4, <1>5, <1>6, <1>7, <1>8, <1>9 DEF Inv, Records

(* A hold marks the jobs that rely on its absence.                         *)
LEMMA RelabelKeeps == ASSUME Inv, Relabel PROVE Inv'
<1>1. IssueOK' /\ WorkerOK' /\ SweepOK' /\ Announced'
    BY DEF Inv, Records, IssueOK, WorkerOK, SweepOK, Announced, Relabel
<1>2. PrOK'
    BY DEF Inv, Records, PrOK, Heads, Held, Relabel, More, Unseen
<1>3. JobsOK'
    BY UnseenTyped DEF Inv, Records, Relabel, JobsOK
<1>4. PastOK'
    BY DEF Inv, Records, PastOK, Taken, Merger, Heads, Routes, Relabel, More, Unseen
<1>5. HalfRead'
    BY DEF Inv, Records, HalfRead, Stands, IssueOK, SweepOK, Sweeps, PrOK, Relabel, More, Unseen, Held
<1>6. Judged'
    BY DEF Inv, Records, Judged, Stands, IssueOK, SweepOK, Sweeps, PrOK, Relabel, More, Unseen, Held
<1>7. Unheld'
    BY DEF Inv, Records, Unheld, Routes, JobsOK, Job, PrOK, Relabel, More, Unseen, Held
<1>8. Bound'
    BY DEF Inv, Records, Bound, Green, Routes, JobsOK, Job, Heads, PrOK, Relabel, More, Unseen, Held
<1>9. ActsAsLastSeen'
    BY DEF Inv, Records, ActsAsLastSeen, PastOK, IssueOK, Relabel, More, Unseen
<1>. QED  BY <1>1, <1>2, <1>3, <1>4, <1>5, <1>6, <1>7, <1>8, <1>9 DEF Inv, Records

(* A closed pull request stands for no claim; one that a job relied on is not merged.*)
LEMMA CloseKeeps == ASSUME Inv, Close PROVE Inv'
<1>1. IssueOK' /\ WorkerOK' /\ JobsOK'
    BY DEF Inv, Records, IssueOK, WorkerOK, JobsOK, Close
<1>2. PrOK'
    BY DEF Inv, Records, PrOK, Heads, Held, Close, More, Overlook
<1>3. SweepOK'
    BY DEF Inv, Records, SweepOK, Sweeps, Steps, Close, More, Overlook
<1>4. PastOK'
    BY DEF Inv, Records, PastOK, Taken, Merger, Heads, Routes, Close, More, Overlook
<1>5. Announced'
    BY DEF Inv, Records, Announced, IssueOK, SweepOK, Sweeps, Close, More, Overlook
<1>6. HalfRead'
    BY DEF Inv, Records, HalfRead, Stands, IssueOK, SweepOK, Sweeps, PrOK, Close, More, Overlook, Held
<1>7. Judged'
    BY DEF Inv, Records, Judged, Stands, IssueOK, SweepOK, Sweeps, PrOK, Close, More, Overlook, Held
<1>8. Unheld'
    BY DEF Inv, Records, Unheld, Routes, JobsOK, Job, PrOK, Close, More, Overlook, Held
<1>9. Bound'
    BY DEF Inv, Records, Bound, Green, Routes, JobsOK, Job, Heads, PrOK, Close, More, Overlook, Held
<1>10. ActsAsLastSeen'
    BY DEF Inv, Records, ActsAsLastSeen, PastOK, IssueOK, Close, More, Overlook
<1>. QED  BY <1>1, <1>2, <1>3, <1>4, <1>5, <1>6, <1>7, <1>8, <1>9, <1>10 DEF Inv, Records

(* An issue may be opened again.                                           *)
LEMMA ReopenKeeps == ASSUME Inv, Reopen PROVE Inv'
<1>1. PrOK' /\ WorkerOK' /\ SweepOK' /\ JobsOK' /\ Unheld' /\ Bound'
    BY DEF Inv, Records, PrOK, WorkerOK, SweepOK, JobsOK, Unheld, Bound, Green, Reopen
<1>2. IssueOK'
    BY DEF Inv, Records, IssueOK, Reopen, More
<1>3. PastOK'
    BY DEF Inv, Records, PastOK, Taken, Merger, Heads, Routes, Reopen, More
<1>4. Announced'
    BY DEF Inv, Records, Announced, IssueOK, SweepOK, Sweeps, Reopen, More
<1>5. HalfRead'
    BY DEF Inv, Records, HalfRead, Stands, IssueOK, SweepOK, Sweeps, PrOK, Reopen, More, Held
<1>6. Judged'
    BY DEF Inv, Records, Judged, Stands, IssueOK, SweepOK, Sweeps, PrOK, Reopen, More, Held
<1>7. ActsAsLastSeen'
    BY DEF Inv, Records, ActsAsLastSeen, PastOK, IssueOK, Reopen, More
<1>. QED  BY <1>1, <1>2, <1>3, <1>4, <1>5, <1>6, <1>7 DEF Inv, Records

(* The invariant holds at first.                                           *)
LEMMA Initial == Init => Inv
<1>. SUFFICES ASSUME Init PROVE Inv
    OBVIOUS
<1>1. IssueOK
    <2>1. PICK label \in BOOLEAN, claim \in {Never, 0} :
              issue = [open |-> TRUE, label |-> label, claim |-> claim, notes |-> {}]
        BY Zenon DEF Init
    <2>. QED  BY <2>1 DEF IssueOK, Never
<1>2. PrOK
    <2>1. pr.labels \in {{}, {"automerge"}} /\ pr.green \in {{}, {0}} /\ pr.head = 0
        BY DEF Init
    <2>2. pr.state \in {"none", "open"} /\ pr.link \in {"mention", "linked"}
        BY DEF Init
    <2>3. pr = [state |-> pr.state, link |-> pr.link, head |-> pr.head, green |-> pr.green, labels |-> pr.labels]
        BY DEF Init
    <2>. QED  BY <2>1, <2>2, <2>3 DEF PrOK, Heads
<1>3. WorkerOK
    BY DEF Init, WorkerOK
<1>4. SweepOK
    BY NoSweepTyped DEF Init, SweepOK
<1>5. JobsOK
    BY NoJobTyped DEF Init, JobsOK
<1>6. PastOK
    BY DEF Init, PastOK
<1>7. Announced /\ HalfRead /\ Judged
    BY DEF Init, NoSweep, Announced, HalfRead, Judged
<1>8. Unheld /\ Bound
    BY DEF Init, NoJob, Unheld, Bound, Routes
<1>9. ActsAsLastSeen
    BY DEF Init, ActsAsLastSeen
<1>. QED  BY <1>1, <1>2, <1>3, <1>4, <1>5, <1>6, <1>7, <1>8, <1>9 DEF Inv, Records

(* Every step keeps the invariant.                                         *)
LEMMA StepKeeps == Inv /\ [Next]_vars => Inv'
<1>. SUFFICES ASSUME Inv, [Next]_vars PROVE Inv'
    OBVIOUS
<1>1. CASE Next
    <2>1. CASE \/ SweepClaims \/ ReadTimeline \/ ReadLinkedPullRequests \/ ReadCurrentIssue
               \/ Announce \/ FailSweep \/ RemoveLabel
        BY <2>1, SweepClaimsKeeps, ReadTimelineKeeps, ReadLinkedPullRequestsKeeps, ReadCurrentIssueKeeps,
           AnnounceKeeps, FailSweepKeeps, RemoveLabelKeeps
    <2>2. CASE Dispatch \/ Verify \/ EnsureLabel \/ OpenPullRequest
        BY <2>2, DispatchKeeps, VerifyKeeps, EnsureLabelKeeps, OpenPullRequestKeeps
    <2>3. CASE LoadPullRequest \/ EnsureGate \/ FinalMergeGuard
        BY <2>3, LoadPullRequestKeeps, EnsureGateKeeps, FinalMergeGuardKeeps
    <2>4. ASSUME NEW r \in Routes,
                 \/ IdentifyReady(r) \/ CheckState(r) \/ Leave(r)
                 \/ AssertRuntimeAcMergeAllowed(r) \/ Merge(r) \/ Clean(r)
          PROVE  Inv'
        BY <2>4, IdentifyReadyKeeps, CheckStateKeeps, LeaveKeeps, AssertRuntimeAcMergeAllowedKeeps,
           MergeKeeps, CleanKeeps
    <2>5. CASE Tick \/ Push \/ RunChecks \/ Relabel \/ Close \/ Reopen
        BY <2>5, TickKeeps, PushKeeps, RunChecksKeeps, RelabelKeeps, CloseKeeps, ReopenKeeps
    <2>. QED  BY <1>1, <2>1, <2>2, <2>3, <2>4, <2>5 DEF Next
<1>2. CASE UNCHANGED vars
    BY <1>2 DEF vars, Inv, Records, IssueOK, PrOK, WorkerOK, SweepOK, JobsOK, PastOK, Announced, HalfRead, Judged,
                Stands, Unheld, Bound, Green, ActsAsLastSeen
<1>. QED  BY <1>1, <1>2

\* For every window and whatever the bounds: what the belt takes back was
\* announced, stale and unlinked at the sweep's final check, and what it merges
\* carried no hold at the last look and is, in the gate's job, the head it
\* checked, unless what changed came after (sweepClaims, finalMergeGuardFailure).
THEOREM ActsAsLastSeenAlways == Spec => []ActsAsLastSeen
<1>1. Inv => ActsAsLastSeen
    BY DEF Inv
<1>. QED  BY <1>1, Initial, StepKeeps, PTL DEF Spec
=============================================================================
