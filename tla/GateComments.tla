---------------------------- MODULE GateComments ----------------------------
(* The comments the Gate keeps on a pull request: one that says why checks   *)
(* were skipped, as long as they are, and a summary for the newest head      *)
(* (comment-dedupe.js, gate-docs-only.js, and the summary job of             *)
(* pr-00-gate.yml).  A newer run of the Gate cancels the one before it at    *)
(* any point, and the last request of that may still be carried out.         *)
EXTENDS Naturals, FiniteSets

CONSTANTS
    MaxRuns,   \* bound: runs of the Gate
    MaxFaults  \* bound: requests that a rate limit refuses, comments that people remove

VARIABLES
    comments, \* those with a marker, or with the text an older version wrote
    run,      \* the newest run of the Gate
    wire,     \* the last requests of cancelled runs
    past      \* how much of the bounds is used, and whether the label routes to an agent

vars == <<comments, run, wire, past>>

\* Why the checks of a head were skipped, or that they were not.
Reasons == {"heavy", "docs_only", "no_changes"}
Nobody == 0
Fault == past.faults < MaxFaults /\ past' = [past EXCEPT !.faults = @ + 1]

Init ==
    /\ comments \in {{}, {[id |-> 1, kind |-> "legacy", text |-> "docs_only"]}}
    /\ run = [phase |-> "none", head |-> 0, reason |-> "heavy", target |-> Nobody, rest |-> {}, clean |-> TRUE]
    /\ wire = {} /\ past \in [runs : {0}, faults : {0}, ids : {1}, late : {0}, agent : BOOLEAN]

----------------------------------------------------------------------------
(* What is looked for, first come first.                                     *)

First(C) == CHOOSE c \in C : \A d \in C : c.id <= d.id
Of(kinds) == {c \in comments : c.kind \in kinds}
\* Of the comments with the marker or the old text the first with the marker is
\* kept, or else the first, and the rest are removed.
SelectMarkerComment ==
    LET all == Of({"marker", "legacy"})
    IN  IF all = {} THEN Nobody ELSE IF Of({"marker"}) # {} THEN First(Of({"marker"})).id ELSE First(all).id
\* Mutant of FindAnchoredComment: a summary of another head is not taken over.
FindAnchoredOnly(head) ==
    LET anchored == {c \in Of({"summary"}) : c.text = head}
    IN  IF anchored # {} THEN First(anchored).id ELSE Nobody
\* A summary of this head, or else any.
FindAnchoredComment(head) ==
    LET anchored == {c \in Of({"summary"}) : c.text = head}
    IN  IF anchored # {} THEN First(anchored).id
        ELSE IF Of({"summary"}) # {} THEN First(Of({"summary"})).id ELSE Nobody
Current(id) == \E c \in comments : c.id = id /\ c.kind = "marker" /\ c.text = run.reason

----------------------------------------------------------------------------
(* The requests.                                                             *)

Ids == {c.id : c \in comments}
\* The request a run is about to send.
Request ==
    CASE run.phase = "write"  -> {[op |-> IF run.target = Nobody THEN "create" ELSE "update", id |-> run.target, kind |-> "marker", text |-> run.reason]}
      [] run.phase = "delete" /\ run.rest # {} ->
             {[op |-> "delete", id |-> CHOOSE i \in run.rest : \A j \in run.rest : i <= j, kind |-> "marker", text |-> "heavy"]}
      [] run.phase = "upsert" -> {[op |-> IF run.target = Nobody THEN "create" ELSE "update", id |-> run.target, kind |-> "summary", text |-> run.head]}
      [] OTHER -> {}
Missing(q) == q.op # "create" /\ q.id \notin Ids
Effect(q) ==
    LET new == [id |-> IF q.op = "create" THEN past.ids + 1 ELSE q.id, kind |-> q.kind, text |-> q.text]
        others == {c \in comments : c.id # q.id}
    IN  comments' = IF q.op = "delete" THEN others ELSE others \cup {new}
NextId(q) == IF q.op = "create" THEN past.ids + 1 ELSE past.ids

Go(phase) == run' = [run EXCEPT !.phase = phase]
Give(phase) == run' = [run EXCEPT !.phase = phase, !.clean = FALSE]

----------------------------------------------------------------------------
(* The summary job.                                                          *)

\* The Gate runs for a new head, or again for the same, and cancels the run
\* that is under way.
Trigger ==
    /\ past.runs < MaxRuns /\ past' = [past EXCEPT !.runs = @ + 1]
    /\ \E head \in {run.head, run.head + 1} \ {0}, reason \in Reasons :
        /\ head = run.head => reason = run.reason
        /\ run' = [phase |-> "docs", head |-> head, reason |-> reason, target |-> Nobody, rest |-> {}, clean |-> TRUE]
    /\ wire' \in {wire, wire \cup Request}
    /\ UNCHANGED comments
\* The comment on skipped checks is to be there, or all of them are to go.
ListDocsComments ==
    /\ run.phase = "docs"
    /\ LET all == {c.id : c \in Of({"marker", "legacy"})}
           target == IF run.reason = "heavy" THEN Nobody ELSE SelectMarkerComment
           kept == run.reason = "heavy" \/ Current(target)
       IN  \/ run' = [run EXCEPT !.phase = IF kept THEN "delete" ELSE "write", !.target = target, !.rest = all \ {target}] /\ UNCHANGED past
           \/ Fault /\ Give("summary")
    /\ UNCHANGED <<comments, wire>>
\* A rate limit leaves what is there, and so does a comment that is gone, which
\* fails the step; the summary follows in any case.
WriteDocsComment ==
    /\ run.phase = "write"
    /\ \E q \in Request :
        \/ ~Missing(q) /\ Effect(q) /\ Go("delete") /\ past' = [past EXCEPT !.ids = NextId(q)]
        \/ Missing(q) /\ Give("summary") /\ UNCHANGED <<comments, past>>
        \/ Fault /\ Give("summary") /\ UNCHANGED comments
    /\ UNCHANGED wire
DeleteDuplicate ==
    /\ run.phase = "delete"
    /\ \/ run.rest = {} /\ Go("summary") /\ UNCHANGED <<comments, past>>
       \/ \E q \in Request :
            \/ ~Missing(q) /\ Effect(q) /\ run' = [run EXCEPT !.rest = @ \ {q.id}] /\ UNCHANGED past
            \/ Missing(q) /\ Give("summary") /\ UNCHANGED <<comments, past>>
            \/ Fault /\ Give("summary") /\ UNCHANGED comments
    /\ UNCHANGED wire
\* A pull request with an agent's label gets no summary; labels that a rate limit
\* hides count as none.
ListSummaries ==
    /\ run.phase = "summary"
    /\ \/ past.agent /\ Go("over") /\ UNCHANGED past
       \/ ~past.agent /\ run' = [run EXCEPT !.phase = "upsert", !.target = FindAnchoredComment(run.head)] /\ UNCHANGED past
       \/ past.agent /\ Fault /\ run' = [run EXCEPT !.phase = "upsert", !.target = FindAnchoredComment(run.head)]
       \/ ~past.agent /\ Fault /\ Give("over")
    /\ UNCHANGED <<comments, wire>>
UpsertAnchoredComment ==
    /\ run.phase = "upsert"
    /\ \E q \in Request :
        \/ ~Missing(q) /\ Effect(q) /\ Go("over") /\ past' = [past EXCEPT !.ids = NextId(q)]
        \/ Missing(q) /\ Give("over") /\ UNCHANGED <<comments, past>>
        \/ Fault /\ Give("over") /\ UNCHANGED comments
    /\ UNCHANGED wire

\* The request of a cancelled run is carried out.
Arrive ==
    /\ \E q \in wire :
        /\ wire' = wire \ {q}
        /\ IF Missing(q) THEN UNCHANGED <<comments, past>>
           ELSE Effect(q) /\ past' = [past EXCEPT !.ids = NextId(q), !.late = @ + (IF q.op = "create" /\ q.kind = "summary" THEN 1 ELSE 0)]
    /\ run' = [run EXCEPT !.clean = @ /\ run.phase = "docs"]
\* A person removes a comment.
Remove ==
    /\ \E c \in comments : comments' = comments \ {c}
    /\ Fault /\ run' = [run EXCEPT !.clean = @ /\ run.phase = "docs"]
    /\ UNCHANGED wire

Next ==
    \/ Trigger \/ ListDocsComments \/ WriteDocsComment \/ DeleteDuplicate
    \/ ListSummaries \/ UpsertAnchoredComment \/ Arrive \/ Remove
Spec == Init /\ [][Next]_vars

----------------------------------------------------------------------------
\* After a run that no rate limit, late request or person disturbed, one comment says
\* that checks were skipped, and why, or none does if they were not; and a summary
\* is of its head.  However runs are cancelled, there is one summary, and one more
\* for each whose posting outlived its run.
CommentsTrue ==
    LET docs == Of({"marker", "legacy"})
    IN  /\ run.phase = "over" /\ run.clean =>
              /\ IF run.reason = "heavy" THEN docs = {} ELSE \E id \in Ids : Current(id) /\ {c.id : c \in docs} = {id}
              /\ ~past.agent => \E c \in comments : c.kind = "summary" /\ c.text = run.head
        /\ Cardinality(Of({"summary"})) <= 1 + past.late
=============================================================================
