------------------------ MODULE InstructionDispatch ------------------------
(***************************************************************************)
(* From an instruction comment to the worker.  Every event that delivers   *)
(* the comment (its creation, a replay after the Gate) is detected on its  *)
(* own: reactions on the comment say that it was seen and that someone     *)
(* works on it.  The winner dispatches the orchestrator, waits for a run   *)
(* it did not know, and sends the command.  The worker run compares the    *)
(* newest instruction with the last one recorded by the post-work run.     *)
(***************************************************************************)
EXTENDS Naturals, FiniteSets, Sequences

CONSTANTS
    Instructions,   \* instruction comments, numbered in the order of their ids
    Events,         \* deliveries of instruction comments
    MaxRuns,        \* bound on orchestrator runs
    MaxTries,       \* tries of a dispatch (3 in the code)
    MaxFaults       \* bound on calls that fail or lose their answer

VARIABLES
    posted,     \* how many of the instructions are on the pull request
    reactions,  \* the reactions on each comment
    event,      \* how far each delivery was handled
    started,    \* orchestrator runs: the delivery that dispatched each, 0 for another pull request
    served,     \* orchestrator runs whose worker was gated
    worker,     \* the worker run in progress
    branch,     \* the head of the pull request, and the last instruction recorded for which head
    faults

instructionVars == <<posted, reactions, event, started, served, worker, branch, faults>>

Undelivered == [phase |-> "none", of |-> 1, saw |-> {}, blind |-> FALSE, late |-> FALSE, tries |-> 0, known |-> 0]
IdleWorker == [phase |-> "idle", head |-> 0, instruction |-> 0]

Init ==
    /\ posted = 0
    /\ reactions = [i \in Instructions |-> {}]
    /\ event = [e \in Events |-> Undelivered]
    /\ started = <<>> /\ served = 0
    /\ worker = IdleWorker
    /\ branch = [head |-> 1, last |-> 0, at |-> 0]
    /\ faults = 0

Fault == faults < MaxFaults /\ faults' = faults + 1
At(e, phase) == event[e].phase = phase
Move(e, phase) == event' = [event EXCEPT ![e].phase = phase]
Outside == <<posted, served, worker, branch>>

----------------------------------------------------------------------------
Post ==
    /\ posted + 1 \in Instructions /\ posted' = posted + 1
    /\ UNCHANGED <<reactions, event, started, served, worker, branch, faults>>

\* detectKeepalive has read the comment as an instruction of an allowed
\* author; its reactions are listed, a failure reads as none.
Detect(e) ==
    /\ At(e, "none")
    /\ \E i \in 1..posted :
          \/ /\ event' = [event EXCEPT ![e] = [@ EXCEPT !.phase = "react", !.of = i, !.saw = reactions[i],
                                                       !.late = "rocket" \in reactions[i]]]
             /\ UNCHANGED faults
          \/ /\ Fault
             /\ event' = [event EXCEPT ![e] = [@ EXCEPT !.phase = "react", !.of = i, !.blind = TRUE,
                                                       !.late = "rocket" \in reactions[i]]]
    /\ UNCHANGED <<reactions, started, Outside>>

\* A reaction that is there already is confirmed (200) or refused (409).
React(e, kind) == reactions' = [reactions EXCEPT ![event[e].of] = @ \cup {kind}]
MarkSeen(e) ==
    /\ At(e, "react")
    /\ \/ React(e, "hooray") /\ Move(e, "lock") /\ UNCHANGED faults
       \/ "hooray" \notin event[e].saw /\ Fault /\ Move(e, "stopped") /\ UNCHANGED reactions
    /\ UNCHANGED <<started, Outside>>
\* Mutant of Lock: the reactions that were listed are not consulted.
LockAnyway(e) ==
    /\ At(e, "lock")
    /\ React(e, "rocket") /\ Move(e, "acquire")
    /\ UNCHANGED <<started, faults, Outside>>
Lock(e) ==
    /\ At(e, "lock")
    /\ \/ "rocket" \in event[e].saw /\ Move(e, "stopped") /\ UNCHANGED <<reactions, faults>>
       \/ "rocket" \notin event[e].saw /\ React(e, "rocket") /\ Move(e, "acquire") /\ UNCHANGED faults
       \/ "rocket" \notin event[e].saw /\ Fault /\ Move(e, "stopped") /\ UNCHANGED reactions
    /\ UNCHANGED <<started, Outside>>

\* acquireActivationLock repeats the reaction on the comment it has just
\* locked; a conflict gives the delivery up.
AcquireLock(e) ==
    /\ At(e, "acquire")
    /\ \/ React(e, "rocket") /\ Move(e, "snapshot") /\ UNCHANGED faults
       \/ Fault /\ Move(e, "stopped") /\ UNCHANGED reactions
    /\ UNCHANGED <<started, Outside>>

Snapshot(e) ==
    /\ At(e, "snapshot")
    /\ event' = [event EXCEPT ![e].phase = "dispatch", ![e].known = Len(started)]
    /\ UNCHANGED <<reactions, started, faults, Outside>>

\* dispatchOrchestrator: a transient error is tried again, and one of them
\* may have hidden a run that was started.
Dispatch(e) ==
    /\ At(e, "dispatch") /\ Len(started) < MaxRuns
    /\ \/ started' = Append(started, e) /\ Move(e, "confirm") /\ UNCHANGED faults
       \/ /\ Fault
          /\ started' \in {started, Append(started, e)}
          /\ event' = [event EXCEPT ![e].tries = @ + 1,
                                    ![e].phase = IF event[e].tries + 1 < MaxTries THEN @ ELSE "stopped"]
    /\ UNCHANGED <<reactions, Outside>>

\* confirmDispatch accepts any run that the snapshot does not know.
Confirm(e) ==
    /\ At(e, "confirm")
    /\ \/ Len(started) > event[e].known /\ Move(e, "command") /\ UNCHANGED faults
       \/ Fault /\ Move(e, "stopped")
    /\ UNCHANGED <<reactions, started, Outside>>
SendCommand(e) ==
    /\ At(e, "command")
    /\ \/ Move(e, "done") /\ UNCHANGED faults
       \/ Fault /\ Move(e, "stopped")
    /\ UNCHANGED <<reactions, started, Outside>>

\* Another pull request starts a run.
ForeignRun ==
    /\ Len(started) < MaxRuns /\ started' = Append(started, 0)
    /\ UNCHANGED <<posted, reactions, event, served, worker, branch, faults>>

----------------------------------------------------------------------------
\* evaluateKeepaliveWorkerGate: the head first, then the newest instruction
\* and the state comment.  An instruction that carries the lock is skipped.
WorkerLoads ==
    /\ worker.phase = "idle" /\ served < Len(started)
    /\ worker' = [IdleWorker EXCEPT !.phase = "load", !.head = branch.head]
    /\ UNCHANGED <<posted, reactions, event, started, served, branch, faults>>
SkipsWork(head) ==
    /\ posted # 0
    /\ \/ "rocket" \in reactions[posted]
       \/ branch.last # 0 /\ posted <= branch.last /\ head = branch.at
WorkerGate ==
    /\ worker.phase = "load"
    /\ worker' = IF SkipsWork(worker.head) THEN IdleWorker
                 ELSE [worker EXCEPT !.phase = "work", !.instruction = posted]
    /\ served' = IF SkipsWork(worker.head) THEN served + 1 ELSE served
    /\ UNCHANGED <<posted, reactions, event, started, branch, faults>>

\* The worker works, and the post-work run records the instruction with the
\* head, if the head moved.
Work ==
    /\ worker.phase = "work"
    /\ \/ UNCHANGED branch
       \/ branch' = [branch EXCEPT !.head = @ + 1, !.at = branch.head + 1,
                                   !.last = IF worker.instruction = 0 THEN @ ELSE worker.instruction]
    /\ worker' = IdleWorker /\ served' = served + 1
    /\ UNCHANGED <<posted, reactions, event, started, faults>>

Next == \/ \E e \in Events : \/ Detect(e) \/ MarkSeen(e) \/ Lock(e) \/ AcquireLock(e) \/ Snapshot(e)
                             \/ Dispatch(e) \/ Confirm(e) \/ SendCommand(e)
        \/ Post \/ ForeignRun \/ WorkerLoads \/ WorkerGate \/ Work

----------------------------------------------------------------------------
\* An instruction is handed out and carried out once.  A delivery that lists
\* the reactions after another has locked the comment dispatches nothing,
\* unless it could not list them; a delivery starts one orchestrator run, and
\* at most one more for each failed try, however many had been heard; and
\* work that was recorded is not done again on the head it was recorded for.
InstructedOnce ==
    /\ \A e \in Events : /\ event[e].late /\ ~event[e].blind => event[e].phase \in {"react", "lock", "stopped"}
                        /\ Cardinality({k \in 1..Len(started) : started[k] = e}) <= 1 + event[e].tries
    /\ worker.phase = "work" /\ worker.instruction # 0
         => ~(worker.instruction = branch.last /\ worker.head = branch.at)
=============================================================================
