------------------------ MODULE KeepaliveAttention ------------------------
(***************************************************************************)
(* What becomes of a pull request whose keepalive round failed.  A failure *)
(* that may be a missing permission is challenged: the next sweep has the  *)
(* same work repeated under a signed claim, and only if that meets the     *)
(* same boundary is a person called, by a label and a note that names the  *)
(* action.  Every other failure stays with automation, which gets one      *)
(* forced retry for each terminal stop.  The note is a comment, the ledger *)
(* a file on a branch, and both are written by requests that may fail.     *)
(***************************************************************************)
EXTENDS Naturals

CONSTANTS
    Boundaries,                       \* the permissions that can be found missing
    MaxRuns, MaxFaults, MaxChanges    \* bounds

VARIABLES
    authority,   \* the ledger of the challenge
    note,        \* the attention and the lease in the state comment
    request,     \* the workflow run that waits for its turn
    round,       \* the run under way
    pr,          \* the head and the labels
    tally        \* runs, faults and changes so far, and the work that was done

attentionVars == <<authority, note, request, round, pr, tally>>

Nothing == "nothing"
NoClaim == [gen |-> 0, boundary |-> Nothing, head |-> 0]
NoRequest == [waits |-> FALSE, forced |-> FALSE, leased |-> FALSE, claim |-> NoClaim]
Calm == [disposition |-> "none", gen |-> 0, boundary |-> Nothing, pending |-> FALSE, recovery |-> 0]
Quiet == [phase |-> "idle", id |-> 0, claim |-> NoClaim, forced |-> FALSE, started |-> FALSE, stop |-> FALSE,
          result |-> Nothing, seen |-> Nothing, before |-> Calm, plan |-> Calm, leased |-> FALSE, leasing |-> FALSE]

Init ==
    /\ authority = [status |-> "none", gen |-> 0, boundary |-> Nothing, head |-> 0, past |-> FALSE,
                    owner |-> 0, recovered |-> 0, from |-> 0]
    /\ note = [attention |-> Calm, lease |-> "none", running |-> 0]
    /\ request = NoRequest
    /\ round = Quiet
    /\ pr \in [head : {1}, hard : {"none"}, soft : BOOLEAN]
    /\ tally = [runs |-> 0, faults |-> 0, changes |-> 0, worked |-> {}, leased |-> 0, amiss |-> 0]

Try(ok) == /\ ok \/ tally.faults < MaxFaults
           /\ tally' = [tally EXCEPT !.faults = IF ok THEN @ ELSE @ + 1]
Challenged(a) == a.disposition = "challenge"

----------------------------------------------------------------------------
\* The sweep signs a claim for a challenge that the note, the label and the
\* ledger agree on, and asks for an ordinary recheck of anything else.
Due == /\ pr.soft /\ pr.hard = "none" /\ Challenged(note.attention)
       /\ authority.status = "available" /\ ~authority.past /\ authority.head = pr.head
       /\ authority.gen = note.attention.gen /\ authority.boundary = note.attention.boundary
Claim == [gen |-> authority.gen, boundary |-> authority.boundary, head |-> pr.head]
Sweep ==
    /\ tally.runs < MaxRuns
    /\ request' = [NoRequest EXCEPT !.waits = TRUE, !.forced = Due, !.claim = IF Due THEN Claim ELSE NoClaim]
    /\ UNCHANGED <<authority, note, round, pr, tally>>

\* evaluateKeepaliveLoop: a person's label holds every run.  A claim is spent
\* before its work starts; without that no worker starts.
Granted(c) == /\ authority.status = "available" /\ ~authority.past /\ c.head = pr.head
              /\ c.gen = authority.gen /\ c.boundary = authority.boundary /\ c.head = authority.head
Begin ==
    LET id == tally.runs + 1
        c == request.claim
        run == [Quiet EXCEPT !.id = id, !.claim = c, !.forced = request.forced, !.leased = request.leased]
        work == [run EXCEPT !.phase = "working"]
    IN /\ request.waits /\ round.phase = "idle" /\ tally.runs < MaxRuns
       /\ request' = NoRequest
       /\ \/ /\ pr.hard # "none" /\ round' = [run EXCEPT !.phase = "summary"]
             /\ UNCHANGED <<authority, note>>
          \/ /\ pr.hard = "none" /\ c = NoClaim /\ round' = work
             /\ note' = [note EXCEPT !.running = id] /\ UNCHANGED authority
          \/ /\ pr.hard = "none" /\ c # NoClaim /\ Granted(c) /\ round' = work
             /\ note' = [note EXCEPT !.running = id]
             /\ authority' = [authority EXCEPT !.status = "consumed", !.owner = id]
          \/ /\ pr.hard = "none" /\ c # NoClaim /\ ~Granted(c)
             /\ round' = [run EXCEPT !.phase = "summary", !.result = "auth", !.seen = c.boundary]
             /\ UNCHANGED <<authority, note>>
       /\ tally' = [tally EXCEPT !.runs = id]
       /\ UNCHANGED pr
Worked(started) == IF ~started THEN tally
                   ELSE [tally EXCEPT !.worked = @ \cup {round.id}, !.leased = IF round.leased THEN @ + 1 ELSE @]
Work(started, result, stop) ==
    /\ round.phase = "working" /\ (result = Nothing => stop /\ ~started /\ ~round.forced)
    /\ \E seen \in IF result = "auth" THEN Boundaries \cup {"vague"} ELSE {Nothing} :
          round' = [round EXCEPT !.phase = "summary", !.started = started, !.stop = stop /\ result # "ok",
                                 !.result = result, !.seen = seen]
    /\ tally' = Worked(started)
    /\ UNCHANGED <<authority, note, request, pr>>

----------------------------------------------------------------------------
\* updateKeepaliveLoopSummary, from the decision to the last label.
Escalates == round.result \in {"auth", "other"} \/ round.stop
Reproduced == /\ Challenged(note.attention) /\ round.claim # NoClaim
              /\ round.claim.gen = note.attention.gen /\ round.claim.boundary = note.attention.boundary
              /\ round.result = "auth" /\ round.started /\ round.seen = round.claim.boundary
\* Mutant of AlreadyIssued: only a lease that is still under way counts.
AlreadyRunning == note.lease = "issued"
AlreadyIssued == note.lease \in {"issued", "consumed"}
\* What the lease becomes; only an ordinary stop may take one.
Leased(disposition) == round.stop /\ disposition = "retry" /\ ~round.forced /\ ~AlreadyIssued
LeaseAfter(issue) ==
    IF round.forced /\ note.lease = "issued" THEN IF round.started THEN "consumed" ELSE "deferred"
    ELSE IF issue THEN "issued" ELSE IF round.result = "ok" /\ ~round.forced THEN "none" ELSE note.lease
Planned(attention, issue) == [round EXCEPT !.phase = "persist", !.before = note.attention, !.plan = attention,
                                           !.leasing = issue]
Retry == [Calm EXCEPT !.disposition = "retry",
                      !.recovery = IF note.attention.disposition = "retry" THEN note.attention.recovery ELSE 0]
\* A run that did not start keeps the challenge it was to repeat.
Preserved == ~round.started /\ Challenged(note.attention)
ToRetry == IF Preserved
           THEN Planned([note.attention EXCEPT !.recovery = IF authority.owner = round.id THEN round.id ELSE @], FALSE)
           ELSE Planned(Retry, Leased("retry"))
\* beginChallenge: a receipt that was spent on this head is never replaced.
Recovered == authority.status = "available" /\ authority.recovered # 0 /\ authority.head = pr.head
Expected == \/ ~Challenged(note.attention) \/ note.attention.gen = authority.gen
            \/ Recovered /\ note.attention.gen = authority.from
Spent == authority.head = pr.head /\ authority.status \in {"consumed", "confirmed"}
Same == authority.status = "available" /\ authority.head = pr.head /\ authority.boundary = round.seen /\ ~authority.past
NewChallenge == [status |-> "available", gen |-> authority.gen + 1, boundary |-> round.seen, head |-> pr.head,
                 past |-> FALSE, owner |-> 0, recovered |-> 0, from |-> 0]
ToChallenge(a) == Planned([Calm EXCEPT !.disposition = "challenge", !.gen = a.gen, !.boundary = a.boundary], FALSE)
Decide ==
    /\ round.phase = "summary"
    /\ \/ /\ ~Escalates /\ round.result # "ok"
          /\ round' = Planned(note.attention, FALSE) /\ UNCHANGED <<authority, tally>>
       \/ /\ round.result = "ok" /\ round' = [Planned(note.attention, FALSE) EXCEPT !.phase = "calm"]
          /\ UNCHANGED <<authority, tally>>
       \/ /\ Escalates /\ Reproduced
          /\ round' = [Planned([note.attention EXCEPT !.pending = TRUE, !.recovery = 0], FALSE) EXCEPT !.phase = "pending"]
          /\ UNCHANGED <<authority, tally>>
       \/ /\ Escalates /\ ~Reproduced /\ (round.result # "auth" \/ ~round.started)
          /\ round' = ToRetry /\ UNCHANGED <<authority, tally>>
       \/ /\ Escalates /\ ~Reproduced /\ round.result = "auth" /\ round.started
          /\ \E ok \in BOOLEAN :
                /\ Try(ok)
                /\ \/ (~ok \/ ~Expected \/ Spent) /\ round' = ToRetry /\ UNCHANGED authority
                   \/ ok /\ Expected /\ Same /\ round' = ToChallenge(authority) /\ UNCHANGED authority
                   \/ /\ ok /\ Expected /\ ~Spent /\ ~Same
                      /\ authority' = NewChallenge /\ round' = ToChallenge(NewChallenge)
    /\ UNCHANGED <<note, request, pr>>
\* clearStaleHumanBlockerLabels, of what automation put there.
Cleared == round.before.disposition \in {"retry", "challenge"}
Calmed ==
    /\ round.phase = "calm"
    /\ \E ok \in BOOLEAN :
          /\ Try(ok \/ ~Cleared)
          /\ pr' = IF ok /\ Cleared THEN [pr EXCEPT !.soft = FALSE] ELSE pr
          /\ round' = [round EXCEPT !.phase = "persist",
                          !.plan = IF ~Cleared THEN @ ELSE IF ok THEN Calm
                                   ELSE IF Challenged(@) THEN [@ EXCEPT !.pending = TRUE] ELSE @]
    /\ UNCHANGED <<authority, note, request>>
\* The action is written down before the label that calls for it is set.
Stored == [attention |-> round.plan, lease |-> LeaseAfter(round.leasing), running |-> 0]
PersistPending ==
    /\ round.phase = "pending"
    /\ \E ok \in BOOLEAN : /\ Try(ok) /\ note' = IF ok THEN Stored ELSE note
                           /\ round' = IF ok THEN [round EXCEPT !.phase = "call"] ELSE Quiet
    /\ UNCHANGED <<authority, request, pr>>
Call ==
    /\ round.phase = "call"
    /\ \E ok \in BOOLEAN :
          /\ Try(ok)
          /\ pr' = IF ok /\ pr.hard = "none" THEN [pr EXCEPT !.hard = "loop"] ELSE pr
          /\ round' = [round EXCEPT !.phase = IF ok THEN "confirm" ELSE "persist"]
    /\ UNCHANGED <<authority, note, request>>
\* confirmChallenge, tried twice, and a last look at how it ended.
Confirmable == /\ authority.status = "consumed" /\ authority.owner = round.id /\ ~authority.past
               /\ authority.gen = round.claim.gen /\ authority.head = pr.head /\ pr.hard # "none"
\* Mutant of Agreed: the label alone counts as the confirmation.
AgreedLabel(ok) == pr.hard # "none"
Agreed(ok) == ok /\ Confirmable
Confirm ==
    /\ round.phase = "confirm"
    /\ \E ok \in BOOLEAN :
          /\ Try(ok)
          /\ authority' = IF ok /\ Confirmable THEN [authority EXCEPT !.status = "confirmed"] ELSE authority
          /\ round' = [round EXCEPT !.phase = "persist",
                          !.plan = IF Agreed(ok) THEN [@ EXCEPT !.disposition = "human", !.pending = FALSE] ELSE @]
    /\ UNCHANGED <<note, request, pr>>
\* A forced run that did not start gives back whatever lease is issued, also
\* one that another run took and may have used.
GivesBack == round.forced /\ note.lease = "issued" /\ ~round.started
Persist ==
    /\ round.phase = "persist"
    /\ \E ok \in BOOLEAN :
          /\ ok \/ tally.faults < MaxFaults
          /\ tally' = [tally EXCEPT !.faults = IF ok THEN @ ELSE @ + 1,
                                    !.leased = IF ok /\ Stored.lease = "none" THEN 0 ELSE @,
                                    !.amiss = IF ok /\ GivesBack /\ ~round.leased THEN @ + 1 ELSE @]
          /\ note' = IF ok THEN Stored ELSE note
          /\ round' = IF ok /\ Escalates THEN [round EXCEPT !.phase = "label"] ELSE Quiet
    /\ UNCHANGED <<authority, request, pr>>
Label ==
    /\ round.phase = "label"
    /\ \E ok \in BOOLEAN :
          /\ Try(ok)
          /\ pr' = [pr EXCEPT !.soft = IF ok /\ Challenged(round.plan) THEN TRUE
                                       ELSE IF ok /\ Cleared THEN FALSE ELSE @]
          /\ round' = IF round.plan.disposition = "retry" /\ ~round.forced /\ (round.leasing \/ ~round.stop)
                      THEN [round EXCEPT !.phase = "dispatch"] ELSE Quiet
    /\ UNCHANGED <<authority, note, request>>
\* The forced retry; a dispatch without an answer gives back the lease that is
\* issued, whether it was delivered or not and whoever took the lease.
Dispatch(delivered, answered) ==
    /\ round.phase = "dispatch" /\ (answered => delivered)
    /\ answered \/ tally.faults < MaxFaults
    /\ tally' = [tally EXCEPT !.faults = IF answered THEN @ ELSE @ + 1,
                              !.amiss = IF ~answered /\ note.lease = "issued" /\ (delivered \/ ~round.leasing)
                                        THEN @ + 1 ELSE @]
    /\ request' = IF delivered THEN [waits |-> TRUE, forced |-> TRUE, leased |-> round.leasing, claim |-> NoClaim] ELSE request
    /\ note' = IF ~answered /\ note.lease = "issued" THEN [note EXCEPT !.lease = "deferred"] ELSE note
    /\ round' = Quiet
    /\ UNCHANGED <<authority, pr>>
Die(started) ==
    /\ round.phase # "idle" /\ (started => round.phase = "working") /\ tally.faults < MaxFaults
    /\ tally' = [Worked(started) EXCEPT !.faults = @ + 1]
    /\ round' = Quiet /\ UNCHANGED <<authority, note, request, pr>>

----------------------------------------------------------------------------
\* The reporter of a run that ended: a receipt whose worker never started is
\* reopened, and the note follows the ledger.
Reopen ==
    /\ authority.status = "consumed" /\ authority.owner # round.id /\ authority.head = pr.head /\ pr.hard = "none"
    /\ authority.owner \notin tally.worked
    /\ authority' = [authority EXCEPT !.status = "available", !.gen = @ + 1, !.from = authority.gen, !.past = FALSE,
                                      !.owner = 0, !.recovered = authority.owner]
    /\ UNCHANGED <<note, request, round, pr, tally>>
Matches == LET a == note.attention IN
    IF a.gen \in {authority.gen, authority.from} THEN note.running \in {0, authority.recovered}
    ELSE note.running = 0 /\ a.disposition = "retry" /\ a.recovery = authority.recovered
Project ==
    /\ authority.status = "available" /\ authority.recovered # 0 /\ Matches
    /\ note' = [note EXCEPT !.running = 0,
                   !.attention = [disposition |-> "challenge", gen |-> authority.gen, boundary |-> authority.boundary,
                                  pending |-> @.pending, recovery |-> authority.recovered]]
    /\ note' # note
    /\ UNCHANGED <<authority, request, round, pr, tally>>

\* The world.
Change == tally.changes < MaxChanges /\ tally' = [tally EXCEPT !.changes = @ + 1]
PersonLabels(hard) ==
    /\ Change /\ hard # pr.hard /\ (hard = "none" \/ pr.hard = "none")
    /\ pr' = [pr EXCEPT !.hard = hard] /\ UNCHANGED <<authority, note, request, round>>
Push == /\ Change /\ pr' = [pr EXCEPT !.head = @ + 1] /\ UNCHANGED <<authority, note, request, round>>
Expire == /\ Change /\ authority.status # "none" /\ ~authority.past
          /\ authority' = [authority EXCEPT !.past = TRUE] /\ UNCHANGED <<note, request, round, pr>>

Next ==
    \/ Sweep \/ Begin \/ Decide \/ Calmed \/ PersistPending \/ Call \/ Confirm \/ Persist \/ Label
    \/ \E started \in BOOLEAN : Die(started)
    \/ \E started, stop \in BOOLEAN, result \in {"ok", "auth", "other", Nothing} :
          (result = "ok" => started) /\ Work(started, result, stop)
    \/ \E delivered, answered \in BOOLEAN : Dispatch(delivered, answered)
    \/ Reopen \/ Project \/ Push \/ Expire
    \/ \E hard \in {"none", "person"} : PersonLabels(hard)

----------------------------------------------------------------------------
\* "If either later API call fails, the PR never falls back to an actionless
\* or falsely human-owned state" (keepalive_loop.js:5124): while the label
\* that the loop set calls for a person, the note names the action, and it is
\* the person's only after the ledger confirmed that boundary.
CallExplained ==
    pr.hard = "loop" =>
        \/ note.attention.pending
        \/ /\ note.attention.disposition = "human" /\ authority.status = "confirmed"
           /\ authority.boundary = note.attention.boundary

\* "later ordinary sweeps cannot mint another lease for the same terminal
\* boundary" (keepalive_loop.js:5346): one stop is followed by at most one
\* forced execution, and one more for each lease that was given back amiss: by
\* a dispatch that was delivered, or by a run that had not taken it.
LeaseUsedOnce == tally.leased <= 1 + tally.amiss
=============================================================================
