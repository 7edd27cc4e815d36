----------------------------- MODULE BranchSync -----------------------------
(***************************************************************************)
(* What follows an agent's round: the post-work run waits for the branch   *)
(* to move, asks GitHub to update it, sends commands, falls back to a      *)
(* helper workflow, and escalates when nothing moved the head.  Each       *)
(* effect is recorded in the state comment of the trace, which the run     *)
(* read when it began and writes back whole.  One run at a time works on a *)
(* pull request; it can be cancelled between any two calls, and people,    *)
(* merges and helper runs push meanwhile.                                  *)
(***************************************************************************)
EXTENDS Naturals

CONSTANTS
    MaxHead,    \* bound on the commits pushed to the branch
    MaxRuns,    \* bound on the post-work runs followed
    MaxFaults,  \* bound on calls that fail and runs that are cancelled
    MaxWrites   \* bound on other writers' updates of the state comment

VARIABLES
    branch,     \* the pull request: its head (a counter), the sync label, a merge GitHub was asked for
    note,       \* the state comment of the trace
    job,        \* the post-work run in progress
    runs,       \* runs begun so far
    seen        \* what happened outside the comment, for the properties

syncVars == <<branch, note, job, runs, seen>>

Rounds == 1..2      \* the rounds of the trace; with the trace they key what a run may do once
Phases == {"idle", "fetch", "advanced", "skip", "wait", "check", "merge", "merging",
           "update", "create", "fallback", "dispatched", "again", "helper",
           "helping", "helped", "synced", "unlabel", "timeout", "label",
           "escalate", "posted"}
\* head, merged: 0 is "not recorded"; escalated: the round of the last escalation.
EmptyNote == [head |-> 0, merged |-> 0, round |-> 0, result |-> "none", fallback |-> FALSE,
              escalated |-> 0, others |-> 0]
IdleJob == [phase |-> "idle", round |-> 0, given |-> 0, baseline |-> 0, labelled |-> FALSE,
            known |-> EmptyNote]

Init ==
    /\ branch = [head |-> 1, label |-> FALSE, merge |-> FALSE]
    /\ note = EmptyNote
    /\ job = IdleJob
    /\ runs = 0
    /\ seen = [faults |-> 0, posted |-> [r \in Rounds |-> 0], dispatches |-> 0,
               forgotten |-> 0, writes |-> 0, overlapped |-> FALSE]

----------------------------------------------------------------------------
\* save: the state the run knows, with its updates, replaces the comment.
Saved(s) == note' = s
Step(phase) == job' = [job EXCEPT !.phase = phase]
\* Mutant of SaveStep: the updates replace the comment instead of being merged.
SaveStepAlone(s, phase) ==
    /\ Saved([s EXCEPT !.others = 0])
    /\ job' = IF phase = "idle" THEN IdleJob ELSE [job EXCEPT !.phase = phase, !.known = s]
SaveStep(s, phase) ==
    /\ Saved(s)
    /\ job' = IF phase = "idle" THEN IdleJob ELSE [job EXCEPT !.phase = phase, !.known = s]
Fault == seen.faults < MaxFaults
Faulty == [seen EXCEPT !.faults = @ + 1]

\* The manager reads the comment, then the labels; a label listing that
\* fails reads as a pull request without labels.
Begin ==
    /\ job.phase = "idle" /\ runs < MaxRuns
    /\ runs' = runs + 1
    /\ \E r \in {x \in Rounds : x \in {note.round, note.round + 1}},
          given \in 0..branch.head, listed \in BOOLEAN, done \in BOOLEAN :
          LET s == [note EXCEPT !.round = r, !.head = IF @ = 0 THEN given ELSE @]
          IN /\ listed \/ (branch.label /\ Fault)
             /\ Saved(s)
             /\ seen' = IF listed THEN seen ELSE Faulty
             /\ job' = IF done
                       THEN [IdleJob EXCEPT !.phase = "fetch", !.round = r, !.given = given,
                                            !.labelled = listed /\ branch.label, !.known = s]
                       ELSE IdleJob
    /\ UNCHANGED branch

\* The first read of the head, and the baseline every later read is compared
\* with: the one given, else the one recorded, else the head itself.
FirstBaseline == IF job.given # 0 THEN job.given
                 ELSE IF job.known.head # 0 THEN job.known.head ELSE branch.head
Fetch ==
    /\ job.phase = "fetch"
    /\ LET s == [job.known EXCEPT !.head = IF @ = 0 THEN FirstBaseline ELSE @]
       IN /\ Saved(s)
          /\ job' = [job EXCEPT !.phase = IF FirstBaseline # branch.head THEN "advanced" ELSE "wait",
                                !.baseline = FirstBaseline, !.known = s]
    /\ UNCHANGED <<branch, runs, seen>>

\* The head had advanced before the run: nothing is synchronised.  The
\* recorded head stays what it was.
RemoveLabel(phase, next) ==
    /\ job.phase = phase
    /\ \/ branch' = [branch EXCEPT !.label = @ /\ ~job.labelled] /\ UNCHANGED seen
       \/ job.labelled /\ Fault /\ seen' = Faulty /\ UNCHANGED branch
    /\ job' = IF next = "idle" THEN IdleJob ELSE [job EXCEPT !.phase = next]
    /\ UNCHANGED <<note, runs>>
Advanced == RemoveLabel("advanced", "skip")
Skip ==
    /\ job.phase = "skip"
    /\ SaveStep([job.known EXCEPT !.result = "success", !.merged = branch.head], "idle")
    /\ UNCHANGED <<branch, runs, seen>>

\* pollForHeadChange and the check before commands: the first head that is
\* not the baseline ends the wait; reads that fail look like no change.
Moved == branch.head # job.baseline
Poll(phase, onMoved, onStill) ==
    /\ job.phase = phase
    /\ \/ Moved /\ job' = [job EXCEPT !.phase = onMoved, !.baseline = branch.head] /\ UNCHANGED seen
       \/ ~Moved /\ Step(onStill) /\ UNCHANGED seen
       \/ Moved /\ Fault /\ seen' = Faulty /\ Step(onStill)
    /\ UNCHANGED <<branch, note, runs>>
WaitForHead == Poll("wait", "synced", "check")
CheckBeforeCommands == Poll("check", "synced", "merge")

\* updateBranch names the head it expects: another head, or a failure, blocks it.
AskMerge ==
    /\ job.phase = "merge"
    /\ \/ ~Moved /\ branch' = [branch EXCEPT !.merge = TRUE] /\ Step("merging") /\ UNCHANGED seen
       \/ Moved /\ Step("update") /\ UNCHANGED <<branch, seen>>
       \/ Fault /\ seen' = Faulty /\ Step("update") /\ UNCHANGED branch
    /\ UNCHANGED <<note, runs>>
WaitForMerge == Poll("merging", "synced", "update")

\* A command is dispatched, else posted as a comment, else recorded as
\* failed; whichever it was, its entry is saved and the run goes on.
Command(phase, next) ==
    /\ job.phase = phase
    /\ SaveStep(job.known, next)
    /\ UNCHANGED <<branch, runs, seen>>
Update == Command("update", "create")
CreatePr == Command("create", "fallback")
UpdateAgain == Command("again", "helper")

\* The helper workflow is dispatched once for the trace: a recorded dispatch
\* is reused.  One that cannot be dispatched ends the wait for the helper.
DispatchHelper(phase, onSent, onMissing) ==
    /\ job.phase = phase
    /\ \/ job.known.fallback /\ Step(onSent) /\ UNCHANGED seen
       \/ /\ ~job.known.fallback
          /\ \/ /\ seen' = [seen EXCEPT !.dispatches = @ + 1]
                /\ Step(IF phase = "fallback" THEN "dispatched" ELSE "helping")
             \/ Fault /\ seen' = Faulty /\ Step(onMissing)
    /\ UNCHANGED <<branch, note, runs>>
Fallback == DispatchHelper("fallback", "again", "again")
Helper == DispatchHelper("helper", "helped", "timeout")
\* Mutant of RecordDispatch: the dispatch is not recorded.
RecordDispatchNever ==
    /\ \/ job.phase = "dispatched" /\ SaveStep(job.known, "again")
       \/ job.phase = "helping" /\ SaveStep(job.known, "helped")
    /\ UNCHANGED <<branch, runs, seen>>
RecordDispatch ==
    /\ \/ job.phase = "dispatched" /\ SaveStep([job.known EXCEPT !.fallback = TRUE], "again")
       \/ job.phase = "helping" /\ SaveStep([job.known EXCEPT !.fallback = TRUE], "helped")
    /\ UNCHANGED <<branch, runs, seen>>
WaitForHelper == Poll("helped", "synced", "timeout")

\* The head moved: it is recorded, and the label the run saw is removed.
Synced ==
    /\ job.phase = "synced"
    /\ SaveStep([job.known EXCEPT !.head = job.baseline, !.merged = job.baseline, !.result = "success"],
                "unlabel")
    /\ UNCHANGED <<branch, runs, seen>>
Unlabel == RemoveLabel("unlabel", "idle")

\* The head did not move: the label is applied, and people are told once a round.
Timeout ==
    /\ job.phase = "timeout"
    /\ SaveStep([job.known EXCEPT !.result = "timeout"], "label")
    /\ UNCHANGED <<branch, runs, seen>>
ApplyLabel ==
    /\ job.phase = "label"
    /\ \/ branch' = [branch EXCEPT !.label = @ \/ ~job.labelled] /\ UNCHANGED seen
       \/ ~job.labelled /\ Fault /\ seen' = Faulty /\ UNCHANGED branch
    /\ Step("escalate")
    /\ UNCHANGED <<note, runs>>
AlreadyEscalated == job.known.escalated = job.round
Escalate ==
    /\ job.phase = "escalate"
    /\ \/ AlreadyEscalated /\ job' = IdleJob /\ UNCHANGED seen
       \/ /\ ~AlreadyEscalated /\ Step("posted")
          /\ seen' = [seen EXCEPT !.posted[job.round] = @ + 1]
       \/ ~AlreadyEscalated /\ Fault /\ seen' = Faulty /\ job' = IdleJob
    /\ UNCHANGED <<branch, note, runs>>
RecordEscalation ==
    /\ job.phase = "posted"
    /\ SaveStep([job.known EXCEPT !.escalated = job.round], "idle")
    /\ UNCHANGED <<branch, runs, seen>>

\* A cancelled run, or a save or head fetch that throws, ends the run where it is.
Unrecorded == job.phase \in {"dispatched", "helping", "posted"}
Abort ==
    /\ job.phase # "idle" /\ Fault
    /\ job' = IdleJob
    /\ seen' = [Faulty EXCEPT !.forgotten = @ + (IF Unrecorded THEN 1 ELSE 0)]
    /\ UNCHANGED <<branch, note, runs>>

\* Around the run: pushes, the merge GitHub was asked for, and the writers
\* that keep their own fields in the same comment.
Push ==
    /\ branch.head < MaxHead
    /\ \E merge \in {FALSE, branch.merge} : branch' = [branch EXCEPT !.head = @ + 1, !.merge = merge]
    /\ UNCHANGED <<note, job, runs, seen>>
MergeRejected ==
    /\ branch.merge /\ branch' = [branch EXCEPT !.merge = FALSE]
    /\ UNCHANGED <<note, job, runs, seen>>
OthersWrite ==
    /\ seen.writes < MaxWrites
    /\ note' = [note EXCEPT !.others = @ + 1]
    /\ seen' = [seen EXCEPT !.writes = @ + 1, !.overlapped = @ \/ job.phase # "idle"]
    /\ UNCHANGED <<branch, job, runs>>

Run == \/ Begin \/ Fetch \/ Advanced \/ Skip \/ WaitForHead \/ CheckBeforeCommands
       \/ AskMerge \/ WaitForMerge \/ Update \/ CreatePr \/ Fallback \/ UpdateAgain
       \/ Helper \/ RecordDispatch \/ WaitForHelper \/ Synced \/ Unlabel
       \/ Timeout \/ ApplyLabel \/ Escalate \/ RecordEscalation
Next == Run \/ Abort \/ Push \/ MergeRejected \/ OthersWrite

----------------------------------------------------------------------------
\* People are told at most once a round that the branch needs them, and runs
\* of one trace dispatch the helper workflow once, unless a run was stopped
\* between the call and its record, or another writer was overwritten.
AskedOnce == /\ \A r \in Rounds : seen.posted[r] <= 1 + seen.forgotten
             /\ seen.dispatches <= 1 + seen.forgotten

\* What others write into the state comment survives the runs that did not
\* overlap the writing.
OthersKept == ~seen.overlapped => note.others = seen.writes
=============================================================================
