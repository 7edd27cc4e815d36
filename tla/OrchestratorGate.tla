-------------------------- MODULE OrchestratorGate --------------------------
(***************************************************************************)
(* The gate before every orchestrator run on a pull request: it loads the  *)
(* pull request once, reads the Gate, counts the other runs in three       *)
(* listings, heals labels, disposes of drafts, reads the Gate again and    *)
(* then either proceeds or leaves a skip comment.  Several runs do this at *)
(* once; each counts the others but never itself.                          *)
(***************************************************************************)
EXTENDS Naturals, FiniteSets

CONSTANTS
    Runs,       \* the orchestrator runs followed
    Caps,       \* agents:max-runs labels the pull request may carry; 0 is the hold
    MaxEdits,   \* bound on what people and the Gate do
    MaxFaults   \* bound on calls that fail

VARIABLES
    pull,       \* the pull request
    run,        \* the orchestrator runs
    drafted,    \* draft disposition comments on the pull request
    past        \* what happened, for bounds and properties

gateVars == <<pull, run, drafted, past>>

Blocking == {"paused", "sync"}
PullLabels == {"keepalive", "agent", "activated", "attention", "human"} \cup Blocking
Absent == [phase |-> "absent", pull |-> {}, draft |-> FALSE, boxes |-> "none", gate |-> "none",
           counted |-> {}, reasons |-> {}]

Init ==
    /\ \E cap \in Caps, signal \in BOOLEAN :
          pull = [labels |-> {"keepalive", "agent", "activated"}, cap |-> cap, signal |-> signal,
                  draft |-> FALSE, boxes |-> "open", gate |-> "success"]
    /\ run = [r \in Runs |-> Absent]
    /\ drafted = 0
    /\ past = [edits |-> 0, faults |-> 0, overlapped |-> FALSE]

Fault == past.faults < MaxFaults /\ past' = [past EXCEPT !.faults = @ + 1]
At(r, phase) == run[r].phase = phase
Move(r, phase) == run' = [run EXCEPT ![r].phase = phase]

\* parseRunCap: a label is clamped to 1..5.
RunCap == IF pull.cap < 1 THEN 1 ELSE IF pull.cap > 5 THEN 5 ELSE pull.cap

\* How GitHub lists a run: as queued, in progress, or completed within the
\* last five minutes.
Working == {"queueds", "starteds", "recents", "judge", "judged", "route", "post", "regate", "decide", "granted"}
\* Mutant of Listed: runs in progress are not found.
ListedWaiting(status) == {r \in Runs : \/ status = "queued" /\ At(r, "queued")
                                       \/ status = "completed" /\ At(r, "recent")}
Listed(status) == {r \in Runs : \/ status = "queued" /\ At(r, "queued")
                                \/ status = "in_progress" /\ run[r].phase \in Working
                                \/ status = "completed" /\ At(r, "recent")}

----------------------------------------------------------------------------
Queue(r) ==
    /\ At(r, "absent") /\ Move(r, "queued")
    /\ UNCHANGED <<pull, drafted, past>>

\* The pull request is read once; labels and draft are judged on that copy.
Load(r) ==
    /\ At(r, "queued")
    /\ \/ /\ run' = [run EXCEPT ![r] = [@ EXCEPT !.phase = "queueds", !.pull = pull.labels,
                                              !.draft = pull.draft, !.boxes = pull.boxes]]
          /\ UNCHANGED past
       \/ Fault /\ Move(r, "recent")
    /\ UNCHANGED <<pull, drafted>>

\* countActive: three listings one after the other.  One that fails counts nothing.
List(r, phase, status, next) ==
    /\ At(r, phase)
    /\ \/ /\ run' = [run EXCEPT ![r].phase = next, ![r].counted = @ \cup (Listed(status) \ {r}),
                                ![r].gate = IF phase = "queueds" THEN pull.gate ELSE @]
          /\ UNCHANGED past
       \/ /\ Fault
          /\ run' = [run EXCEPT ![r].phase = next,
                                ![r].gate = IF phase = "queueds" THEN pull.gate ELSE @]
    /\ UNCHANGED <<pull, drafted>>
CountRuns(r) == \/ List(r, "queueds", "queued", "starteds")
                \/ List(r, "starteds", "in_progress", "recents")
                \/ List(r, "recents", "completed", "judge")

\* evaluateKeepaliveGate: the first condition that fails is the reason.
PreGateReason(r) ==
    IF "paused" \in run[r].pull THEN {"keepalive-paused"}
    ELSE IF "sync" \in run[r].pull THEN {"sync-required"}
    ELSE IF "keepalive" \notin run[r].pull THEN {"keepalive-label-missing"}
    ELSE IF "activated" \notin run[r].pull THEN {"no-human-activation"}
    ELSE IF run[r].gate # "success" THEN {"gate"}
    ELSE IF Cardinality(run[r].counted) >= RunCap THEN {"run-cap-reached"} ELSE {}

\* Labels the run misses are added when the pull request shows that automation
\* works on it.  agent:needs-attention counts as naming an agent.
Missing(r) == ({"keepalive"} \ run[r].pull)
              \cup (IF run[r].pull \cap {"agent", "attention"} = {} THEN {"agent"} ELSE {})
Judge(r) ==
    /\ At(r, "judge")
    /\ LET judged(extra) == run' = [run EXCEPT ![r].phase = "judged",
                                              ![r].reasons = PreGateReason(r) \cup extra]
       IN \/ /\ Missing(r) = {} \/ pull.signal
             /\ pull' = [pull EXCEPT !.labels = @ \cup Missing(r)]
             /\ judged({}) /\ UNCHANGED past
          \/ Missing(r) # {} /\ ~pull.signal /\ judged({"missing-label"}) /\ UNCHANGED <<pull, past>>
          \/ Missing(r) # {} /\ pull.signal /\ Fault /\ judged({"missing-label"}) /\ UNCHANGED pull
    /\ UNCHANGED drafted

\* A draft whose checklist is complete is marked ready; any other draft, and
\* one that cannot be marked, goes to people.
JudgeDraft(r) ==
    /\ At(r, "judged")
    /\ LET routed == run' = [run EXCEPT ![r].phase = "route", ![r].reasons = @ \cup {"draft"}]
           complete == run[r].boxes = "done"
       IN \/ ~run[r].draft /\ Move(r, "regate") /\ UNCHANGED <<pull, past>>
          \/ run[r].draft /\ complete /\ pull' = [pull EXCEPT !.draft = FALSE] /\ Move(r, "regate") /\ UNCHANGED past
          \/ run[r].draft /\ complete /\ Fault /\ routed /\ UNCHANGED pull
          \/ run[r].draft /\ ~complete /\ routed /\ UNCHANGED <<pull, past>>
    /\ UNCHANGED drafted

\* routeDraftToHuman: labels, then one comment unless one is found.
RouteDraft(r) ==
    /\ At(r, "route")
    /\ past' = [past EXCEPT !.overlapped = @ \/ \E x \in Runs \ {r} : run[x].phase = "post"]
    /\ pull' = [pull EXCEPT !.labels = @ \cup {"attention", "human", "paused"}]
    /\ Move(r, IF drafted = 0 THEN "post" ELSE "decide")
    /\ UNCHANGED drafted
\* Neither call is retried, and a comment listing that fails finds no comment.
RouteDraftBadly(r) ==
    /\ At(r, "route") /\ Fault
    /\ \/ pull' = [pull EXCEPT !.labels = @ \cup {"attention", "human", "paused"}]
       \/ UNCHANGED pull
    /\ Move(r, "post")
    /\ UNCHANGED drafted
PostDisposition(r) ==
    /\ At(r, "post")
    /\ \/ drafted' = drafted + 1 /\ UNCHANGED past
       \/ Fault /\ UNCHANGED drafted
    /\ Move(r, "decide")
    /\ UNCHANGED pull

\* The Gate of the head is looked up once more; only a run that is missing or
\* not completed adds a reason here.
ReadGateAgain(r) ==
    /\ At(r, "regate")
    /\ run' = [run EXCEPT ![r].phase = "decide",
                          ![r].reasons = @ \cup (IF pull.gate \in {"none", "running"} THEN {"gate"} ELSE {})]
    /\ UNCHANGED <<pull, drafted, past>>

\* A run without reasons proceeds, whatever was skipped before it; any other
\* leaves a skip comment and completes.
Decide(r) ==
    /\ At(r, "decide")
    /\ Move(r, IF run[r].reasons = {} THEN "granted" ELSE "recent")
    /\ UNCHANGED <<pull, drafted, past>>

Finish(r) ==
    /\ At(r, "granted") /\ Move(r, "recent")
    /\ UNCHANGED <<pull, drafted, past>>
\* Five minutes after it completed a run is no longer counted.
Age(r) ==
    /\ At(r, "recent") /\ run' = [run EXCEPT ![r] = [Absent EXCEPT !.phase = "old"]]
    /\ UNCHANGED <<pull, drafted, past>>

\* People label, draft and work on the pull request; the Gate runs.
Edit ==
    /\ past.edits < MaxEdits /\ past' = [past EXCEPT !.edits = @ + 1]
    /\ \/ \E l \in {"keepalive", "agent", "activated"} \cup Blocking :
             pull' = [pull EXCEPT !.labels = IF l \in @ THEN @ \ {l} ELSE @ \cup {l}]
       \/ pull' = [pull EXCEPT !.draft = ~@]
       \/ pull' = [pull EXCEPT !.boxes = IF @ = "done" THEN "open" ELSE "done"]
       \/ \E g \in {"none", "running", "success", "failure"} \ {pull.gate} :
             pull' = [pull EXCEPT !.gate = g]
    /\ UNCHANGED <<run, drafted>>

Next ==
    \/ \E r \in Runs : \/ Queue(r) \/ Load(r) \/ CountRuns(r) \/ Judge(r) \/ JudgeDraft(r)
                       \/ RouteDraft(r) \/ RouteDraftBadly(r) \/ PostDisposition(r)
                       \/ ReadGateAgain(r) \/ Decide(r) \/ Finish(r) \/ Age(r)
    \/ Edit

----------------------------------------------------------------------------
Granted == {r \in Runs : At(r, "granted")}

\* At most as many runs work on the pull request at once as its cap allows,
\* although each decides on listings taken one after the other while the
\* others start; a listing that fails counts too few.  And a draft is handed
\* to people with one comment, unless two runs looked for it at once.
WithinLimits == past.faults = 0 => /\ Cardinality(Granted) <= RunCap
                                   /\ past.overlapped \/ drafted <= 1
=============================================================================
