-------------------------- MODULE VerificationRuns --------------------------
(* Runs of the verifier on one merged pull request.  An event is what is    *)
(* verified: the request, the verdict of the CI and the evidence that was   *)
(* named (verification_event.js).  An attempt of a run records on the pull  *)
(* request that it is pending before it asks a provider, and how it ended.  *)
(* The next one reads these rows, and what GitHub knows of the attempts     *)
(* behind them (verifier_pending_execution.js), to tell whether it may ask  *)
(* again, may publish what an earlier attempt retained, or must not.        *)
EXTENDS Naturals, Sequences, FiniteSets

CONSTANTS
    MaxEvents,  \* attempts of runs, changes of the request and the CI, and faults, a bound
    MaxFaults   \* lost calls and cancelled jobs among them, a bound

VARIABLES
    world,  \* the request and the CI
    rows,   \* the rows on the pull request
    runs,   \* the runs: what was asked, and their attempts
    past    \* how much of the bounds is used

vars == <<world, rows, runs, past>>

None == [request |-> 2, ci |-> "none", evidence |-> 0]
Nobody == <<0, 0>>
NoKey == <<0, 1>>  \* the key of no report
Fresh == [phase |-> "queued", seen |-> {}, event |-> None, barred |-> {},
          pended |-> FALSE, evaluated |-> FALSE, publishing |-> FALSE, kept |-> FALSE]
Ids == {<<r, n>> : r \in DOMAIN runs, n \in 1..MaxEvents}
Attempts == {a \in Ids : a[2] <= Len(runs[a[1]].attempts)}
Att(a) == runs[a[1]].attempts[a[2]]
Ask(a) == runs[a[1]].ask
Over(a) == Att(a).phase \in {"over", "late"}
More == Cardinality(Attempts) + past.changes + past.faults < MaxEvents

\* Runs are numbered in the order they were started, and so are the attempts
\* of one.
Newer(a, b) == a[1] > b[1] \/ (a[1] = b[1] /\ a[2] > b[2])
Newest(S) == CHOOSE a \in S : \A b \in S : ~Newer(b, a)
At(S) == {r.att : r \in S}
Of(S, event) == {r \in S : r.kind # "repair" /\ r.event = event}
By(S, a) == {r \in S : r.att = a}
Kinds(S) == {r.kind : r \in S}
\* How an attempt may have ended without a verdict: it asked nobody; its answers
\* were retained; its report was not posted; it is not known whether it was.
Incomplete == {"unused", "kept", "unposted", "unsure"}
States == Incomplete \cup {"pending"}

Init ==
    /\ world = [request |-> 0, ci |-> "green"]
    /\ rows = {} /\ runs = <<>>
    /\ past = [changes |-> 0, faults |-> 0]

----------------------------------------------------------------------------
(* What GitHub knows of the attempts of a run.                              *)

\* The attempts from the one that is pending to the run's last: all of them are
\* over, but for the one that asks.
From(a) == {b \in Attempts : b[1] = a[1] /\ b[2] >= a[2]}
Ended(a, me) == \A b \in From(a) : Over(b) \/ (b = me /\ b # a)
\* Mutant of Unstarted: only the attempt that is pending is looked at.
UnstartedOnce(a) == Att(a).pended /\ ~Att(a).evaluated
\* The pending attempt passed the step that says so, and none reached a provider.
Unstarted(a) == Att(a).pended /\ \A b \in From(a) : ~Att(b).evaluated
\* The report of a retained attempt was not begun by any of them.
Unpublished(a, me) == \A b \in From(a) : ~Att(b).publishing \/ b = me
Reconciled(row, me) ==
    /\ Ended(row.att, me) /\ Unstarted(row.att)
    /\ row.key # Nobody => Unpublished(row.att, me)

\* The last attempt of its run, which passed every step and retained its answers.
Acquired(a) ==
    /\ Len(runs[a[1]].attempts) = a[2]
    /\ Over(a) /\ Att(a).pended /\ Att(a).evaluated /\ Att(a).kept

----------------------------------------------------------------------------
(* What the rows say of an event.                                           *)

Completed(seen, event) == "terminal" \in Kinds(Of(seen, event))
\* What the newest attempt on an event leaves to the next one.
GuardExistingEvent(seen, event) ==
    LET here == Of(seen, event)
        last == By(here, Newest(At(here)))
        ends == Kinds(last) \cap Incomplete
    IN  IF here = {} THEN "none"
        ELSE IF "terminal" \in Kinds(last) THEN IF ends = {} THEN "none" ELSE "refused"
        ELSE IF \E r \in last : r.key # Nobody THEN "refused"
        ELSE IF ends = {} THEN "pending"
        ELSE IF ends = {"unused"} THEN "retry" ELSE "refused"

\* An attempt that is known to have asked nobody.
KnownNoEvaluation(all, event, a) ==
    LET own == By(Of(all, event), a) IN
    /\ Kinds(own) = {"pending", "unused"}
    /\ GuardExistingEvent(all, event) = "retry"
    /\ \A r, s \in own : r.parent = s.parent /\ r.key = Nobody

\* The answers of an attempt lacked evidence, which the event now names.
InputRepair(seen, event, parent, a) ==
    /\ Kinds(By(Of(seen, parent), a)) \in {{"kept"}, {"kept", "pending"}}
    /\ \E r \in seen : r.kind = "repair" /\ r.att = a /\ r.event = parent
    /\ event.request = parent.request /\ event.evidence # 0 /\ event.evidence # parent.evidence
    /\ Att(a).kept

\* The parent has a verdict that no row of its attempt contests.
Settled(seen, parent) ==
    \E r \in Of(seen, parent) : r.kind = "terminal" /\ Kinds(By(Of(seen, parent), r.att)) \cap Incomplete = {}
\* The attempts on a child of an unfinished event: each asked nobody, has a
\* verdict, or is pending, which what GitHub knows must settle.
Resolved(seen, event, me) ==
    LET kids == Of(seen, event) IN
    \A a \in At(kids) :
        LET own == By(kids, a) IN
        \/ KnownNoEvaluation(own, event, a)
        \/ Kinds(own) \in {{"terminal"}, {"terminal", "pending"}}
        \/ (Kinds(own) = {"pending"} /\ (a = Newest(At(kids)) \/ \A r \in own : Reconciled(r, me)))
\* A child must not fork newer work, and keeps its parent.
Unfinished(seen, event, parent, me) ==
    LET last == Newest(At(Of(seen, parent)))
        newer == {r \in seen : r.kind # "repair" /\ Newer(r.att, last)}
        kids == Of(seen, event)
    IN  /\ parent # event /\ Of(seen, parent) # {}
        /\ \A r \in newer : r.event = event
        /\ kids \subseteq newer /\ \A r \in kids : r.parent = parent
        /\ Resolved(seen, event, me)
        /\ KnownNoEvaluation(seen, parent, last) \/ InputRepair(seen, event, parent, last)
Predecessor(seen, event, parent, me) ==
    parent = None \/ Settled(seen, parent) \/ Unfinished(seen, event, parent, me)

\* Who wants to report what was retained waits for everything that is newer than
\* it, but for attempts at the same report which are known not to have posted.
RecoveryHistory(seen, event, source, key, me) ==
    LET later == {r \in seen : r.kind # "repair" /\ Newer(r.att, source) /\ r.att # me}
        same == {r \in later : r.event = event /\ r.key = key}
        ends(a) == Kinds(By(later, a)) \cap Incomplete
        answered(a) == "terminal" \in Kinds(By(same, a))
        settled == {a \in At(same) : answered(a) /\ ends(a) = {"unsure"}}
        safe == {a \in At(same) : ends(a) = {"unposted"} /\ ~answered(a)}
        open == {r \in later : ~(r \in same /\ (r.att \in settled \/ (r.att \in safe /\ r.kind \in States)))}
    IN  IF \E a \in At(same) : answered(a) /\ ends(a) = {} THEN "duplicate"
        ELSE IF \A r \in open : r \in same /\ r.kind = "pending" /\ Reconciled(r, me) THEN "ready"
        ELSE "refused"

----------------------------------------------------------------------------
(* What an attempt does.                                                    *)

Put(a, new) == runs' = [runs EXCEPT ![a[1]].attempts[a[2]] = new]
Now(a, phase) == [Att(a) EXCEPT !.phase = phase]
Row(a, kind) == [att |-> a, kind |-> kind, event |-> Att(a).event, parent |-> Ask(a).parent,
                 key |-> IF Ask(a).kind = "recover" THEN Ask(a).source ELSE Nobody]
Say(a, kind) == rows' = rows \cup {Row(a, kind)}
Fault == More /\ past.faults < MaxFaults /\ past' = [past EXCEPT !.faults = @ + 1]

\* A label or a person starts a run, or runs one again.  A run may name what its
\* event follows, the evidence that is needed, or whose answers to use.
Asks ==
    {[kind |-> "evaluate", parent |-> None, evidence |-> 0, source |-> Nobody]}
    \cup [kind : {"evaluate"}, parent : {r.event : r \in rows}, evidence : 0..1, source : {Nobody}]
    \cup UNION {[kind : {"recover", "repair"}, parent : {None}, evidence : {Att(a).event.evidence}, source : {a}]
                   : a \in {b \in Attempts : Over(b) /\ Att(b).kept}}
Dispatch ==
    /\ More
    /\ \E ask \in Asks : runs' = Append(runs, [ask |-> ask, attempts |-> <<Fresh>>])
    /\ UNCHANGED <<world, rows, past>>
Rerun ==
    /\ More
    /\ \E r \in DOMAIN runs :
        /\ Over(<<r, Len(runs[r].attempts)>>)
        /\ runs' = [runs EXCEPT ![r].attempts = Append(@, Fresh)]
    /\ UNCHANGED <<world, rows, past>>

\* The request and the rows are read.  The pages of comments are read twice: a
\* change, a failure or a page that is missing ends the attempt.
ReadHistory(a) ==
    /\ Att(a).phase = "queued" /\ Ask(a).kind # "repair"
    /\ Put(a, [Now(a, "read") EXCEPT !.seen = rows, !.event = [None EXCEPT !.request = world.request]])
    /\ UNCHANGED <<world, rows, past>>
MissHistory(a) ==
    /\ Att(a).phase = "queued" /\ Ask(a).kind # "repair" /\ Fault
    /\ Put(a, Now(a, "over"))
    /\ UNCHANGED <<world, rows>>

\* The attempts that must never ask a provider if this one does.
Barred(a, seen, event) ==
    LET here == Of(seen, event)
        known == IF here = {} THEN {}
                 ELSE IF Ask(a).parent # None /\ ~Settled(seen, Ask(a).parent) THEN At(here) ELSE {Newest(At(here))}
    IN  (known \cup UNION {From(b) : b \in {b \in known : Kinds(By(here, b)) = {"pending"}}}) \ {a}
\* What the CI says of the merge is part of what is verified.
HardGate == world.ci
\* An attempt may ask a provider.
MayEvaluate(a, seen, event) ==
    LET here == Of(seen, event)
        guard == GuardExistingEvent(seen, event)
        last == By(here, Newest(At(here)))
    IN  /\ Predecessor(seen, event, Ask(a).parent, a)
        /\ guard \in {"none", "retry"} \/ (guard = "pending" /\ \A r \in last : Reconciled(r, a))
        /\ ~Completed(seen, event)
MayRecover(a, seen, event) ==
    RecoveryHistory(seen, event, Ask(a).source, Ask(a).source, a) = "ready" /\ Acquired(Ask(a).source)
EventOf(a) == [request |-> Att(a).event.request, ci |-> HardGate, evidence |-> Ask(a).evidence]
\* With the CI the event is complete: what is known of it decides.
BuildVerifierContext(a) ==
    /\ Att(a).phase = "read"
    /\ LET seen == Att(a).seen
            event == EventOf(a)
            may == IF Ask(a).kind = "recover" THEN MayRecover(a, seen, event) ELSE MayEvaluate(a, seen, event)
       IN  Put(a, [Now(a, IF may THEN "go" ELSE "over")
                   EXCEPT !.seen = {}, !.event = IF may THEN event ELSE None,
                          !.barred = IF may /\ Ask(a).kind = "evaluate" THEN Barred(a, seen, event) ELSE {}])
    /\ UNCHANGED <<world, rows, past>>

\* The attempt is recorded as pending, or that step fails, in which case the row
\* may have been written.
Pend(a) ==
    /\ Att(a).phase = "go"
    /\ Say(a, "pending") /\ Put(a, [Now(a, "pended") EXCEPT !.pended = TRUE])
    /\ UNCHANGED <<world, past>>
LosePend(a) ==
    /\ Att(a).phase = "go" /\ Fault
    /\ Say(a, "pending") \/ UNCHANGED rows
    /\ Put(a, Now(a, "over"))
    /\ UNCHANGED world

\* A provider is asked, or the step is not invoked, which is recorded.
Evaluate(a) ==
    /\ Att(a).phase = "pended" /\ Ask(a).kind = "evaluate"
    /\ Put(a, [Now(a, "evaluating") EXCEPT !.evaluated = TRUE])
    /\ UNCHANGED <<world, rows, past>>
NotInvoked(a) ==
    /\ Att(a).phase = "pended" /\ Ask(a).kind = "evaluate"
    /\ Say(a, "unused") /\ Put(a, Now(a, "over"))
    /\ UNCHANGED <<world, past>>
\* The answers are retained, and give a verdict or do not.
Answer(a) ==
    /\ Att(a).phase = "evaluating"
    /\ \E kind \in {"terminal", "kept"} : Say(a, kind)
    /\ Put(a, [Now(a, "over") EXCEPT !.kept = TRUE])
    /\ UNCHANGED <<world, past>>
\* A job is cancelled, or its last comment is lost.  A report that was sent may
\* still arrive.
Cancel(a) ==
    /\ Att(a).phase \in {"go", "pended", "evaluating", "clear"} /\ Fault
    /\ Put(a, [Now(a, IF Att(a).publishing THEN "late" ELSE "over") EXCEPT !.kept = Att(a).evaluated])
    /\ UNCHANGED <<world, rows>>

\* Before a report is posted the request and the rows are read again.
CheckReport(a) ==
    /\ Att(a).phase = "pended" /\ Ask(a).kind = "recover"
    /\ LET history == IF world.request # Att(a).event.request THEN "refused"
                       ELSE RecoveryHistory(rows, Att(a).event, Ask(a).source, Ask(a).source, a)
       IN  /\ Put(a, [Now(a, IF history = "ready" THEN "clear" ELSE "over") EXCEPT !.publishing = TRUE])
           /\ IF history = "refused" THEN Say(a, "unposted") ELSE UNCHANGED rows
    /\ UNCHANGED <<world, past>>
\* The post is tried once.  If its answer is lost the rows tell whether it
\* arrived, which is as if it had been answered; if they do not, it may still
\* arrive.
PublishRetainedReport(a) ==
    /\ Att(a).phase = "clear" /\ Ask(a).kind = "recover"
    /\ Say(a, "terminal") /\ Put(a, Now(a, "over"))
    /\ UNCHANGED <<world, past>>
LoseReport(a) ==
    /\ Att(a).phase = "clear" /\ Ask(a).kind = "recover" /\ Fault
    /\ Say(a, "unsure") /\ Put(a, Now(a, "late"))
    /\ UNCHANGED world
Arrive(a) ==
    /\ Att(a).phase = "late"
    /\ Say(a, "terminal") /\ Put(a, Now(a, "over"))
    /\ UNCHANGED <<world, past>>

\* What an attempt retained, and that it lacked evidence, is put beside its row,
\* unless newer work is recorded.  No state of the attempt is written.
RepairHistory(source, me) ==
    /\ Kinds(By(rows, source)) \cap Incomplete = {"kept"} /\ "terminal" \notin Kinds(By(rows, source))
    /\ RecoveryHistory(rows, Att(source).event, source, NoKey, me) = "ready"
Mark(source) == [att |-> source, kind |-> "repair", event |-> Att(source).event, parent |-> None, key |-> Nobody]
CheckRepair(a) ==
    /\ Att(a).phase = "queued" /\ Ask(a).kind = "repair"
    /\ LET source == Ask(a).source IN
       Put(a, Now(a, IF RepairHistory(source, a) /\ Acquired(source) THEN "clear" ELSE "over"))
    /\ UNCHANGED <<world, rows, past>>
PublishRepair(a) ==
    /\ Att(a).phase = "clear" /\ Ask(a).kind = "repair"
    /\ IF RepairHistory(Ask(a).source, a) THEN rows' = rows \cup {Mark(Ask(a).source)} ELSE UNCHANGED rows
    /\ Put(a, Now(a, "over"))
    /\ UNCHANGED <<world, past>>

----------------------------------------------------------------------------
\* The request is edited, or the CI runs again.
Change ==
    /\ More
    /\ past' = [past EXCEPT !.changes = @ + 1]
    /\ \/ world' = [world EXCEPT !.request = 1 - @]
       \/ world' = [world EXCEPT !.ci = IF @ = "green" THEN "red" ELSE "green"]
    /\ UNCHANGED <<rows, runs>>

Next ==
    \/ Dispatch \/ Rerun \/ Change
    \/ \E a \in Attempts :
        \/ ReadHistory(a) \/ MissHistory(a) \/ BuildVerifierContext(a) \/ Pend(a) \/ LosePend(a)
        \/ Evaluate(a) \/ NotInvoked(a) \/ Answer(a) \/ Cancel(a)
        \/ CheckReport(a) \/ PublishRetainedReport(a) \/ LoseReport(a) \/ Arrive(a)
        \/ CheckRepair(a) \/ PublishRepair(a)
Spec == Init /\ [][Next]_vars

----------------------------------------------------------------------------
\* Providers are asked about an event again only by an attempt that could not
\* know of the first: what the newest attempt on its rows left, and GitHub's
\* account of its run, show that none of them asked; and the child of an
\* unfinished event looks at all of its attempts (guardExistingEvent,
\* reconcilePendingExecution).  And what an attempt retained is reported once: a
\* second report is made only when it was recorded that the fate of the first was
\* not known (publishRetainedReport).
EvaluatedOnce ==
    /\ \A b \in Attempts : Att(b).evaluated => \A a \in Att(b).barred : ~Att(a).evaluated
    /\ \A r, s \in {r \in rows : r.kind = "terminal" /\ r.key # Nobody} :
          r.event = s.event /\ r.key = s.key /\ r.att # s.att
              => \E u \in rows : u.kind = "unsure" /\ u.att \in {r.att, s.att}
=============================================================================
