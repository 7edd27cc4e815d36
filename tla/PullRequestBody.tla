-------------------------- MODULE PullRequestBody --------------------------
(* The body of a pull request.  Runs of the event hub rewrite the part      *)
(* between two markers from the issue, the check runs of the head, and the  *)
(* ticks they find in the old body and in the comments of trusted bots      *)
(* (agents_pr_meta_update_body.js).  Every write of the body is an event of *)
(* its own.  After a round the loop ticks what the commits seem to complete *)
(* (keepalive_loop.js, autoReconcileTasks), and people and the belt edit    *)
(* the same text.                                                           *)
EXTENDS Naturals, Sequences

CONSTANTS
    MaxChanges,  \* changes from outside, a bound
    MaxFaults    \* calls that fail, a bound

VARIABLES
    pr,      \* the pull request: its head, its state, its agent label, its source
    body,    \* what its body says
    issue,   \* the items that are ticked in its issue
    talk,    \* its comments: claims of completed items, the two warnings
    checks,  \* the gate and the dependency contract at the head
    hub,     \* the hub's run and the one that waits
    round,   \* the reconciliation after a round, and the body it read
    past     \* history, and how much of the bounds is used

pull == <<pr, issue, talk>>
vars == <<pull, body, checks, hub, round, past>>

\* A task, a task indented under it, and an acceptance criterion.
Items == {"task", "sub", "criterion"}
Tasks == {"task", "sub"}
Bots == {"codex"}
Counted(n) == IF n > 3 + MaxFaults THEN n ELSE n + 1
Idle == [phase |-> "idle"]
Silent == [kind |-> "none"]
Event(kind) == [kind |-> kind, head |-> pr.head]
NewBody == [block |-> FALSE, ticked |-> {}, shown |-> <<>>]
\* The contract's last verdict, whether a run is under way, and that run.
Contract(verdict) == [verdict |-> verdict, live |-> TRUE, run |-> 0]

Init ==
    /\ pr \in [head : {1}, open : {TRUE}, agent : BOOLEAN, source : {"issue", "other", "missing"}]
    /\ body = NewBody /\ issue = {}
    /\ talk = [claims |-> {}, repair |-> "none", warned |-> "none"]
    /\ checks = [gate |-> "running", contract |-> Contract("none")]
    /\ hub = [job |-> Idle, waiting |-> [kind |-> "pull", head |-> 1]]
    /\ round = Idle
    /\ past = [echo |-> 0, changes |-> 0, faults |-> 0]

----------------------------------------------------------------------------
\* The hub runs one job for a pull request; the newest event replaces the one
\* that waits.
Queued(h, event) == [h EXCEPT !.waiting = event]
\* An edit of the body starts the contract again, which cancels its last run.
Restarted(c) ==
    [verdict |-> IF c.live THEN "cancelled" ELSE c.verdict, live |-> TRUE, run |-> 1 - c.run]
Edited(h, new) ==
    /\ body' = new
    /\ hub' = Queued(h, Event("pull"))
    /\ checks' = [checks EXCEPT !.contract = Restarted(@)]

\* Someone else than the sync changes what it looks at.
Changed ==
    /\ past.changes < MaxChanges
    /\ past' = [past EXCEPT !.changes = @ + 1, !.echo = 0]
Fault ==
    /\ past.faults < MaxFaults
    /\ past' = [past EXCEPT !.faults = @ + 1]
Job(job) == hub' = [hub EXCEPT !.job = job]
Comment == hub' = [hub EXCEPT !.job = Idle, !.waiting = Event("comment")]

\* Comments are no event that names a pull request.
DiscoverPr ==
    /\ hub.job = Idle /\ hub.waiting.kind # "none"
    /\ LET event == hub.waiting IN
       hub' = [job |-> IF event.kind = "comment" THEN Idle
                       ELSE [phase |-> "fetch", head |-> IF event.kind = "dispatch" THEN pr.head ELSE event.head],
               waiting |-> Silent]
    /\ UNCHANGED <<pull, body, checks, round, past>>

\* Only an issue is a source to write a body from; releases, and pull requests
\* that name another source, are left alone.
Sourced == pr.source = "issue"
\* One comment asks for a source, and says later that one was found.
Repair == IF pr.source = "missing" THEN "asked" ELSE IF talk.repair = "none" THEN "none" ELSE "resolved"
\* The pull request and its issue are read; the request for a source is
\* withdrawn.  An event of another head, or a pull request without an issue,
\* ends the job.
Fetch ==
    /\ hub.job.phase = "fetch"
    /\ LET stale == ~pr.open \/ hub.job.head # pr.head IN
       IF stale THEN Job(Idle) /\ UNCHANGED talk
       ELSE /\ talk' = [talk EXCEPT !.repair = Repair]
            /\ IF Sourced
               THEN Job([phase |-> "list", head |-> pr.head, agent |-> pr.agent, old |-> body, issue |-> issue])
               ELSE IF Repair = "asked" /\ talk.repair = "none" THEN Comment ELSE Job(Idle)
    /\ UNCHANGED <<pr, issue, body, checks, round, past>>

\* Mutant of StatusOf: the run as it stands.
StatusOfRun(contract) == <<contract.verdict, contract.run>>
\* The status of the runs of the head.  Of the contract, whose run is started
\* by every edit of the body, only the last verdict.
StatusOf(contract) == <<contract.verdict>>
CollectStatusWorkflowRuns ==
    /\ hub.job.phase = "list"
    /\ Job([phase |-> "comments", head |-> hub.job.head, agent |-> hub.job.agent, old |-> hub.job.old,
            issue |-> hub.job.issue, runs |-> <<checks.gate>> \o StatusOf(checks.contract)])
    /\ UNCHANGED <<pull, body, checks, round, past>>

\* The items that the comments of trusted bots tick.
Trusted(claims) == {c \in claims : c.by \in Bots}
ConnectorStates(claims) == {c.item : c \in Trusted(claims)}
UnauthorizedAuthors(claims) == {c \in claims : c.marked /\ c.by \notin Bots}
Warning(claims) ==
    IF UnauthorizedAuthors(claims) # {} THEN "open"
    ELSE IF talk.warned = "none" THEN "none" ELSE "resolved"

Ticks(old) == IF old.block THEN old.ticked ELSE {}
\* What is between the markers is replaced, or added where there are none.
Upsert(old, ticked, shown) == [old EXCEPT !.block = TRUE, !.ticked = ticked, !.shown = shown]
\* An agent's pull request has no table of runs.
Table(job) == IF job.agent THEN <<>> ELSE <<job.head>> \o job.runs
\* Items of the issue's sections that its text, the old block or a comment ticks.
BuildStatusBlock(job, states) == Upsert(job.old, job.issue \cup states \cup Ticks(job.old), Table(job))
\* Comments are read, and the warning about their authors follows.  When they
\* cannot be read, there are none.
FetchIssueComments(claims, warned) ==
    /\ hub.job.phase = "comments"
    /\ LET new == BuildStatusBlock(hub.job, ConnectorStates(claims)) IN
       hub' = [job |-> IF new = hub.job.old THEN Idle ELSE [phase |-> "write", new |-> new],
               waiting |-> IF talk.warned = "none" /\ warned = "open" THEN Event("comment") ELSE hub.waiting]
    /\ talk' = [talk EXCEPT !.warned = warned]
    /\ UNCHANGED <<pr, issue, body, checks, round>>
ReadComments == FetchIssueComments(talk.claims, Warning(talk.claims)) /\ UNCHANGED past
MissComments == talk.claims # {} /\ FetchIssueComments({}, talk.warned) /\ Fault

\* The whole body is replaced by one built from what was read.
Write ==
    /\ hub.job.phase = "write"
    /\ Edited([hub EXCEPT !.job = Idle], hub.job.new)
    /\ past' = [past EXCEPT !.echo = Counted(@)]
    /\ UNCHANGED <<pull, round>>
Die ==
    /\ hub.job # Idle /\ Fault /\ Job(Idle)
    /\ UNCHANGED <<pull, body, checks, round>>

----------------------------------------------------------------------------
\* After a round: what is under a ticked task is ticked with it, criteria never.
Cascade(ticked) == IF "task" \in ticked THEN ticked \cup {"sub"} ELSE ticked
ReadTasks ==
    /\ round = Idle /\ body.block /\ past.changes < MaxChanges
    /\ round' = [phase |-> "match", old |-> body]
    /\ UNCHANGED <<pull, body, checks, hub, past>>
\* Words of the commits match tasks that are not ticked; the analysis of the
\* session may name any item.
CommitMatches(old) == SUBSET (Tasks \ old.ticked)
\* The body that was read is written back with more ticks.
AutoReconcile(commits, llm) ==
    /\ round # Idle /\ commits \in CommitMatches(round.old) /\ round' = Idle
    /\ LET matches == commits \cup llm
           new == [round.old EXCEPT !.ticked = Cascade(@ \cup matches)] IN
       IF matches \subseteq round.old.ticked THEN UNCHANGED <<body, checks, hub, past>>
       ELSE Edited(hub, new) /\ Changed
    /\ UNCHANGED pull
LoseReconciliation ==
    /\ round # Idle /\ Fault /\ round' = Idle
    /\ UNCHANGED <<pull, body, checks, hub>>

----------------------------------------------------------------------------
\* People, agents and other workflows.
Tick(i) ==
    /\ body.block
    /\ LET on == i \notin body.ticked IN
       /\ Changed
       /\ Edited(hub, [body EXCEPT !.ticked = IF on THEN @ \cup {i} ELSE @ \ {i}])
    /\ UNCHANGED <<pull, round>>
TickIssue(i) ==
    /\ Changed /\ issue' = issue \cup {i}
    /\ UNCHANGED <<pr, talk, body, checks, hub, round>>
\* After its work an agent's job posts, or replaces, the items its prompt ticks.
PostCompletion(items) ==
    /\ Changed
    /\ LET own == {c \in talk.claims : c.by \in Bots} IN
       /\ talk' = [talk EXCEPT !.claims = (@ \ own) \cup {[by |-> "codex", item |-> i, marked |-> FALSE] : i \in items}]
       /\ hub' = IF own = {} THEN Queued(hub, Event("comment")) ELSE hub
    /\ UNCHANGED <<pr, issue, body, checks, round>>
Comments(c) ==
    /\ Changed
    /\ talk' = [talk EXCEPT !.claims = @ \cup {c}]
    /\ hub' = Queued(hub, Event("comment"))
    /\ UNCHANGED <<pr, issue, body, checks, round>>
\* The belt's worker writes the body of its pull request from the issue.
Rewrite ==
    /\ body.block /\ Changed /\ Edited(hub, NewBody)
    /\ UNCHANGED <<pull, round>>
\* A source is named in the body.
Link ==
    /\ pr.source = "missing" /\ Changed /\ Edited(hub, body)
    /\ pr' = [pr EXCEPT !.source = "issue"] /\ UNCHANGED <<issue, talk, round>>
Push ==
    /\ pr.head = 1 /\ Changed
    /\ pr' = [pr EXCEPT !.head = 2]
    /\ checks' = [gate |-> "running", contract |-> Contract("none")]
    /\ hub' = Queued(hub, [kind |-> "pull", head |-> 2])
    /\ UNCHANGED <<issue, talk, body, round>>
FinishGate(verdict) ==
    /\ checks.gate = "running" /\ Changed
    /\ checks' = [checks EXCEPT !.gate = verdict] /\ hub' = Queued(hub, Event("gate"))
    /\ UNCHANGED <<pull, body, round>>
FinishContract ==
    /\ checks.contract.live /\ Changed
    /\ checks' = [checks EXCEPT !.contract.live = FALSE, !.contract.verdict = "success"]
    /\ UNCHANGED <<pull, body, hub, round>>
DispatchHub ==
    /\ Changed /\ hub' = Queued(hub, Event("dispatch"))
    /\ UNCHANGED <<pull, body, checks, round>>
Close ==
    /\ pr.open /\ Changed /\ pr' = [pr EXCEPT !.open = FALSE]
    /\ UNCHANGED <<issue, talk, body, checks, hub, round>>

Strangers == [by : {"guest"}, item : {"criterion"}, marked : BOOLEAN]
Next ==
    \/ DiscoverPr \/ Fetch \/ CollectStatusWorkflowRuns \/ ReadComments \/ MissComments \/ Write \/ Die
    \/ ReadTasks \/ LoseReconciliation
    \/ \E commits \in SUBSET Tasks, llm \in SUBSET Items : AutoReconcile(commits, llm)
    \/ \E i \in Items : Tick(i) \/ TickIssue(i)
    \/ \E items \in SUBSET Items \ {{}} : PostCompletion(items)
    \/ \E c \in Strangers : Comments(c)
    \/ Rewrite \/ Link \/ Push \/ FinishContract \/ DispatchHub \/ Close
    \/ \E verdict \in {"success", "failure"} : FinishGate(verdict)

----------------------------------------------------------------------------
\* Writing the body starts runs whose results the body shows.  It settles all
\* the same.  After a change from outside the sync writes the body once with
\* what it read before, once with the change, and once more when its own edit
\* cancelled a run of the contract; each failed call can cost one write more.
BodySettles == past.echo <= 3 + past.faults
=============================================================================
