-------------------------- MODULE CorrectionEffects --------------------------
(***************************************************************************)
(* The correction of one verification finding.  Executions of a workflow   *)
(* collect a request, and under a lock per pull request each may create    *)
(* one follow-up issue and dispatch one auto-pilot run, writing an intent  *)
(* to a retained journal before either.  The auto-pilot runs record that   *)
(* they started before they work and dispatch their successors.  Answers   *)
(* are lost, executions die, and artifacts may not be readable; what       *)
(* cannot be known is never taken for absence.                             *)
(***************************************************************************)
EXTENDS Naturals, Sequences, FiniteSets

CONSTANTS
    Attempts,    \* executions of the correction workflow, in order of creation
    Requests,    \* requests about the finding (aliases of one another)
    MaxPilots,   \* bound on auto-pilot executions
    MaxFaults,   \* bound on lost answers, failed reads and deaths
    MaxChanges   \* bound on changes of the surroundings

VARIABLES
    attempt,     \* what each execution does, asks for and has learnt
    journal,     \* the records of the retained ledger
    native,      \* issues and dispatches at GitHub, and the label lane
    pilots,      \* the auto-pilot executions, each with the one before it
    world        \* the surroundings: holds, deadline, other work, retention

correctionVars == <<attempt, journal, native, pilots, world>>

Changes == {"held", "late", "busy", "altered", "expired"}
Init ==
    /\ attempt \in [Attempts -> [phase : {"none"}, request : Requests, issue : {FALSE},
                                 seen : {0}, accepted : {0}]]
    /\ journal = <<>>
    /\ native = [issues |-> 0, dispatches |-> 0, legacy |-> "idle"]
    /\ pilots = <<>>
    /\ world \in [incumbent : BOOLEAN, now : {{}}, faults : {0}]

Fault == world.faults < MaxFaults /\ world' = [world EXCEPT !.faults = @ + 1]
Is(change) == change \in world.now
Holding == {"read", "facts", "create", "creating", "confirm", "recheck", "dispatch", "dispatching", "observe"}
Locked == native.legacy = "guarded" \/ \E a \in Attempts : attempt[a].phase \in Holding
Go(a, phase) == attempt' = [attempt EXCEPT ![a].phase = phase]
Ending(a) == Go(a, "done")
Pilot(p, phase) == pilots' = [pilots EXCEPT ![p].phase = phase]
ActivePilots == {p \in DOMAIN pilots : pilots[p].phase \notin {"skipped", "failed", "done"}}

----------------------------------------------------------------------------
\* The journal.
Recorded(kind, phase) == \E i \in DOMAIN journal : journal[i].kind = kind /\ journal[i].phase = phase
HasJournal(a) == \E i \in DOMAIN journal : journal[i].by = a
\* correctionHistory: every other execution left records, or provably had no
\* effect job; one that is being collected, waits, or died without a record
\* leaves the history unknown.
Complete(a) ==
    /\ ~Is("expired")
    /\ \A b \in Attempts \ {a} : attempt[b].phase \in {"none", "skipped"} \/ HasJournal(b)
\* The first request that was admitted stays, whatever its aliases ask.
Admitted == {b \in Attempts : attempt[b].phase \notin {"none", "created", "skipped"}}
Original(request) == \E b \in Admitted : attempt[b].request = request /\ \A c \in Admitted : b <= c
Readable(a) == Complete(a) /\ Original(attempt[a].request)

\* append and publish: the record follows what was read, and is read back.  A
\* lost acknowledgment is settled by the name; a failed readback is not.
Store(a, kind, phase, ok, uncertain) ==
    \/ /\ Readable(a) /\ attempt[a].seen = Len(journal)
       /\ journal' = Append(journal, [kind |-> kind, phase |-> phase, request |-> attempt[a].request, by |-> a])
       /\ \/ attempt' = [attempt EXCEPT ![a].phase = ok, ![a].seen = Len(journal) + 1] /\ UNCHANGED world
          \/ Fault /\ Go(a, uncertain)
    \/ /\ Go(a, uncertain) /\ UNCHANGED journal
       /\ IF Readable(a) /\ attempt[a].seen = Len(journal) THEN Fault ELSE UNCHANGED world

----------------------------------------------------------------------------
\* collectSubmission, before and outside the lock.
CreateExecution(a) ==
    /\ attempt[a].phase = "none" /\ \A b \in Attempts : b < a => attempt[b].phase # "none"
    /\ Go(a, "created") /\ UNCHANGED <<journal, native, pilots, world>>
Collect(a) ==
    /\ attempt[a].phase = "created"
    /\ \/ Go(a, "admitted") /\ UNCHANGED world
       \/ Go(a, "skipped") /\ Fault
    /\ UNCHANGED <<journal, native, pilots>>
\* Mutant of LegacyRefused: executions that ended do not count.
LegacyRefusedLive == \E a \in Attempts : attempt[a].phase \notin {"none", "created", "skipped", "done"}
\* guardLegacyCorrection: the label lane, under the same lock, stays out as
\* soon as an execution may have entered its effect job.
LegacyRefused == \E a \in Attempts : attempt[a].phase \notin {"none", "created", "skipped"}
LegacyGuard ==
    /\ native.legacy = "idle" /\ ~Locked
    /\ native' = [native EXCEPT !.legacy = IF LegacyRefused THEN "refused" ELSE "guarded"]
    /\ UNCHANGED <<attempt, journal, pilots, world>>
LegacyCreate ==
    /\ native.legacy = "guarded" /\ native' = [native EXCEPT !.legacy = "created"]
    /\ UNCHANGED <<attempt, journal, pilots, world>>

----------------------------------------------------------------------------
\* createFreshCollector and activeExecutions: nobody else works on the finding,
\* and no issue about it is open but the one that is known.
Unclaimed(a) == /\ native.legacy # "created"
                /\ native.issues = IF attempt[a].issue THEN 1 ELSE 0
Working == Is("busy") \/ ActivePilots # {}
\* checkFreshFacts, with the history that it is collected from.
GateOpen(a) == /\ Readable(a) /\ Unclaimed(a) /\ ~Working /\ ~Is("held")
               /\ Is("altered") => ~attempt[a].issue /\ ~world.incumbent

\* createEffectReconciler: the auto-pilot execution that began the lineage, 0
\* for none, and 1 + MaxPilots when it cannot be told.
Unsettled(p) == pilots[p].phase \notin {"running", "done", "skipped"}
Roots == {p \in DOMAIN pilots : pilots[p].parent = 0 /\ pilots[p].phase \in {"running", "done"}}
Continuation ==
    IF ~Recorded("intent", "autopilot_dispatch") THEN 0
    ELSE IF Is("expired") \/ (\E p \in DOMAIN pilots : Unsettled(p)) \/ Cardinality(Roots) > 1
         THEN MaxPilots + 1
    ELSE IF Roots = {} THEN 0 ELSE CHOOSE p \in Roots : TRUE
\* reconcileIssueCreation: the issue counts when the native answer of its
\* creation was retained and it is as it was created; a marker proves nothing.
Resolved == Recorded("issue_confirmed", "issue_creation") /\ ~Is("altered")
\* attemptEffect, and consume before it: an intent is never written twice.
Attempted(phase) == Recorded("intent", phase)

BeginEffects(a) ==
    /\ attempt[a].phase = "admitted" /\ ~Locked
    /\ Go(a, "read") /\ UNCHANGED <<journal, native, pilots, world>>
Accept(a) == attempt' = [attempt EXCEPT ![a].phase = "done", ![a].accepted = Continuation]
\* Old effects are reconciled before anything else.
ReadLedger(a) ==
    /\ attempt[a].phase = "read"
    /\ \/ ~Readable(a) /\ Ending(a) /\ UNCHANGED world
       \/ Readable(a) /\ Ending(a) /\ Fault
       \/ /\ Readable(a) /\ UNCHANGED world
          /\ IF Continuation \in DOMAIN pilots THEN Accept(a)
             ELSE IF \/ Continuation # 0 \/ Attempted("autopilot_dispatch")
                     \/ journal # <<>> /\ (world.incumbent \/ ~Resolved \/ journal[1].request # attempt[a].request)
                  THEN Ending(a)
                  ELSE attempt' = [attempt EXCEPT ![a].phase = "facts", ![a].seen = Len(journal),
                                                  ![a].issue = journal # <<>>]
    /\ UNCHANGED <<journal, native, pilots>>
CollectFacts(a) ==
    /\ attempt[a].phase \in {"facts", "recheck"}
    /\ \/ /\ GateOpen(a) /\ (attempt[a].phase = "facts" => ~Is("late")) /\ UNCHANGED world
          /\ Go(a, IF world.incumbent \/ attempt[a].issue THEN "dispatch" ELSE "create")
       \/ /\ ~(GateOpen(a) /\ (attempt[a].phase = "facts" => ~Is("late")))
          /\ Ending(a) /\ UNCHANGED world
       \/ Ending(a) /\ Fault
    /\ UNCHANGED <<journal, native, pilots>>
IntendCreation(a) ==
    /\ attempt[a].phase = "create"
    /\ IF Attempted("issue_creation") THEN Ending(a) /\ UNCHANGED <<journal, world>>
       ELSE Store(a, "intent", "issue_creation", "creating", "done")
    /\ UNCHANGED <<native, pilots>>
\* One request, never repeated; its answer may be lost.
CreateIssue(a) ==
    /\ attempt[a].phase = "creating"
    /\ \/ /\ GateOpen(a) /\ ~Is("late")
          /\ native' = [native EXCEPT !.issues = @ + 1]
          /\ \/ attempt' = [attempt EXCEPT ![a].phase = "confirm", ![a].issue = TRUE] /\ UNCHANGED world
             \/ Ending(a) /\ Fault
       \/ ~(GateOpen(a) /\ ~Is("late")) /\ Ending(a) /\ UNCHANGED <<native, world>>
       \/ Ending(a) /\ Fault /\ UNCHANGED native
    /\ UNCHANGED <<journal, pilots>>
ConfirmIssue(a) ==
    /\ attempt[a].phase = "confirm"
    /\ Store(a, "issue_confirmed", "issue_creation", IF Is("altered") THEN "done" ELSE "recheck", "done")
    /\ UNCHANGED <<native, pilots>>
\* What became of an uncertain intent is still observed before the end.
IntendDispatch(a) ==
    /\ attempt[a].phase = "dispatch"
    /\ IF Attempted("autopilot_dispatch") THEN Go(a, "observe") /\ UNCHANGED <<journal, world>>
       ELSE IF ~world.incumbent /\ ~Recorded("issue_confirmed", "issue_creation")
            THEN Ending(a) /\ UNCHANGED <<journal, world>>
       ELSE Store(a, "intent", "autopilot_dispatch", "dispatching", "observe")
    /\ UNCHANGED <<native, pilots>>
QueuedPilot(parent) == pilots' = Append(pilots, [phase |-> "queued", parent |-> parent])
Dispatch(a) ==
    /\ attempt[a].phase = "dispatching" /\ Go(a, "observe")
    /\ \/ /\ GateOpen(a) /\ ~Is("late") /\ Len(pilots) < MaxPilots /\ QueuedPilot(0)
          /\ native' = [native EXCEPT !.dispatches = @ + 1] /\ UNCHANGED world
       \/ ~(GateOpen(a) /\ ~Is("late")) /\ UNCHANGED <<native, pilots, world>>
       \/ Fault /\ UNCHANGED <<native, pilots>>
    /\ UNCHANGED journal
Observe(a) ==
    /\ attempt[a].phase = "observe"
    /\ IF Readable(a) /\ Continuation \in DOMAIN pilots THEN Accept(a) ELSE Ending(a)
    /\ UNCHANGED <<journal, native, pilots, world>>
Die(a) == /\ attempt[a].phase \in Holding /\ Fault /\ Ending(a)
          /\ UNCHANGED <<journal, native, pilots>>

----------------------------------------------------------------------------
\* Auto-pilot.  authenticateContinuation: the retained intent is the one that
\* dispatched it, and the correction is still admitted.  One works at a time.
AdmitsPilot(p) ==
    /\ Complete(0) /\ native.legacy # "created" /\ world.now \cap {"held", "late", "busy"} = {}
    /\ ActivePilots = {p} /\ (Is("altered") => pilots[p].parent # 0)
Authenticate(p) ==
    /\ pilots[p].phase = "queued" /\ \A q \in ActivePilots : pilots[q].phase = "queued"
    /\ Pilot(p, IF AdmitsPilot(p) THEN "ready" ELSE "skipped")
    /\ UNCHANGED <<attempt, journal, native, world>>
\* observeStartedReceipts: nothing of the same lineage started, and what the
\* other executions did is settled.
Fresh(p) == \A q \in DOMAIN pilots \ {p} :
               ~Unsettled(q) /\ (pilots[q].phase = "skipped" \/ pilots[q].parent # pilots[p].parent)
ObserveLineage(p) ==
    /\ pilots[p].phase = "ready"
    /\ Pilot(p, IF Fresh(p) /\ ~Is("late") THEN "observed" ELSE "failed")
    /\ UNCHANGED <<attempt, journal, native, world>>
RecordStarted(p) ==
    /\ pilots[p].phase = "observed"
    /\ \/ Pilot(p, "published") /\ UNCHANGED world
       \/ Pilot(p, "failed") /\ Fault
    /\ UNCHANGED <<attempt, journal, native>>
RecheckAdmission(p) ==
    /\ pilots[p].phase = "published"
    /\ Pilot(p, IF AdmitsPilot(p) THEN "running" ELSE "failed")
    /\ UNCHANGED <<attempt, journal, native, world>>
\* retainRedispatch: the successor carries this execution as its parent.
Redispatch(p) ==
    /\ pilots[p].phase = "running" /\ Len(pilots) < MaxPilots
    /\ pilots' = Append([pilots EXCEPT ![p].phase = "done"], [phase |-> "queued", parent |-> p])
    /\ UNCHANGED <<attempt, journal, native, world>>
FinishPilot(p) ==
    /\ pilots[p].phase = "running" /\ Pilot(p, "done")
    /\ UNCHANGED <<attempt, journal, native, world>>
PilotDies(p) ==
    /\ p \in ActivePilots /\ Fault
    /\ Pilot(p, IF pilots[p].phase \in {"queued", "ready"} THEN "skipped"
                ELSE IF pilots[p].phase = "running" THEN "done" ELSE "failed")
    /\ UNCHANGED <<attempt, journal, native>>
\* Somebody runs an execution again.
Rerun(p) ==
    /\ p \notin ActivePilots /\ Len(pilots) < MaxPilots
    /\ pilots' = Append(pilots, [phase |-> "queued", parent |-> pilots[p].parent])
    /\ UNCHANGED <<attempt, journal, native, world>>
Change(c) ==
    /\ Cardinality(world.now) < MaxChanges /\ ~Is(c) /\ world' = [world EXCEPT !.now = @ \cup {c}]
    /\ UNCHANGED <<attempt, journal, native, pilots>>

Next ==
    \/ \E a \in Attempts :
          \/ CreateExecution(a) \/ Collect(a) \/ BeginEffects(a) \/ ReadLedger(a) \/ CollectFacts(a)
          \/ IntendCreation(a) \/ CreateIssue(a) \/ ConfirmIssue(a)
          \/ IntendDispatch(a) \/ Dispatch(a) \/ Observe(a) \/ Die(a)
    \/ LegacyGuard \/ LegacyCreate
    \/ \E p \in DOMAIN pilots :
          \/ Authenticate(p) \/ ObserveLineage(p) \/ RecordStarted(p) \/ RecheckAdmission(p)
          \/ Redispatch(p) \/ FinishPilot(p) \/ PilotDies(p) \/ Rerun(p)
    \/ \E c \in Changes : Change(c)

----------------------------------------------------------------------------
\* However executions die, are repeated and lose answers, the finding gets one
\* issue, from one of the two lanes, one dispatch, and each step of its
\* auto-pilot is worked on by one execution.
CorrectedOnce ==
    /\ native.issues + (IF native.legacy = "created" THEN 1 ELSE 0) <= 1
    /\ native.dispatches <= 1
    /\ \A p, q \in DOMAIN pilots :
          pilots[p].phase \in {"running", "done"} /\ pilots[q].phase \in {"running", "done"}
             /\ pilots[p].parent = pilots[q].parent => p = q
=============================================================================
