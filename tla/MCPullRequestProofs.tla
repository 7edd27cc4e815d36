------------------------ MODULE MCPullRequestProofs -------------------------
(* What is proved of the handlers around a pull request, each followed      *)
(* beside the others, for every bound.  The cells c1 to c8 hold the         *)
(* variables of the handler that is followed, in the order of its module.   *)
EXTENDS MCPullRequest, Integers, FiniteSetTheorems, WellFoundedInduction, TLAPS

-----------------------------------------------------------------------------
(* BeltClaims.  What is proved of it alone holds of it beside the others: a *)
(* behaviour that follows the belt is a behaviour of that module.           *)

Conveyor == part = "conveyor"

\* The runs of the belt, followed beside the other handlers of a pull request,
\* take back and merge only what they last saw (sweepClaims,
\* assertRuntimeAcMergeAllowed, finalMergeGuardFailure).
THEOREM ActsAsLastSeenBeside == Spec => []ActsAsLastSeen
  <1>1. Init /\ Conveyor => Belt!Init
    BY DEF Init, Conveyor
  <1>2. [Next]_<<part, cells>> => (Conveyor <=> Conveyor')
    BY DEF Next, Conveyor, cells
  <1>3. [Next]_<<part, cells>> /\ Conveyor => [Belt!Next]_Belt!vars
    BY DEF Next, Conveyor, cells, Belt!vars
  <1>4. Belt!Init /\ [][Belt!Next]_Belt!vars => []Belt!ActsAsLastSeen
    BY Belt!ActsAsLastSeenAlways DEF Belt!Spec
  <1>5. (Conveyor => Belt!ActsAsLastSeen) => ActsAsLastSeen
    BY DEF ActsAsLastSeen, Conveyor
  <1> QED
    BY <1>1, <1>2, <1>3, <1>4, <1>5, PTL DEF Spec

-----------------------------------------------------------------------------
(* BranchSync: c1 is the branch, c2 the state comment, c3 the run after a   *)
(* round, c4 how many there were, c5 what happened outside the comment.     *)

Syncing == part = "sync"

SyncRounds == 0..2
SyncNotes ==
    [head : Nat, merged : Nat, round : SyncRounds, result : {"none", "success", "timeout"},
     fallback : BOOLEAN, escalated : SyncRounds, others : Nat]
SyncJobs ==
    [phase : Sync!Phases, round : SyncRounds, given : Nat, baseline : Nat, labelled : BOOLEAN,
     known : SyncNotes]
SyncSeen ==
    [faults : Nat, posted : [Sync!Rounds -> Nat], dispatches : Nat, forgotten : Nat, writes : Nat,
     overlapped : BOOLEAN]
SyncType ==
    /\ c1 \in [head : Nat, label : BOOLEAN, merge : BOOLEAN]
    /\ c2 \in SyncNotes /\ c3 \in SyncJobs /\ c5 \in SyncSeen

\* What a run has read is what the comment says, but for what others wrote.
KnowsNote(job, note, overlapped) ==
    job.phase # "idle" =>
        /\ job.round = note.round /\ job.round \in Sync!Rounds
        /\ job.known.round = note.round /\ job.known.fallback = note.fallback
        /\ job.known.escalated = note.escalated
        /\ overlapped \/ job.known.others = note.others
\* A call that was made is in the comment, or about to be put there, or its run
\* was stopped in between.
HelperOwed(job, note) == IF note.fallback \/ job.phase \in {"dispatched", "helping"} THEN 1 ELSE 0
NoticeOwed(job, note, r) ==
    IF r <= note.escalated \/ (job.phase = "posted" /\ job.round = r) THEN 1 ELSE 0
SyncInv ==
    /\ SyncType /\ c2.escalated <= c2.round
    /\ KnowsNote(c3, c2, c5.overlapped)
    /\ c5.overlapped \/ c2.others = c5.writes
    /\ c5.dispatches <= c5.forgotten + HelperOwed(c3, c2)
    /\ \A r \in Sync!Rounds : c5.posted[r] <= c5.forgotten + NoticeOwed(c3, c2, r)

\* A run that makes no call and records none: the comment keeps what it says of
\* the calls, and of what others wrote.
LEMMA SyncGoesOn ==
    ASSUME SyncInv, c3.phase \notin {"idle", "dispatched", "helping", "posted"},
           c3' \in SyncJobs, c3'.phase \notin {"dispatched", "helping", "posted"},
           c2' \in SyncNotes, c2'.round = c2.round, c2'.fallback = c2.fallback,
           c2'.escalated = c2.escalated, c5.overlapped \/ c2'.others = c2.others,
           c3'.phase # "idle" =>
             /\ c3'.round = c3.round /\ c3'.known.round = c2.round /\ c3'.known.fallback = c2.fallback
             /\ c3'.known.escalated = c2.escalated
             /\ c5.overlapped \/ c3'.known.others = c2'.others,
           c1' \in [head : Nat, label : BOOLEAN, merge : BOOLEAN],
           c5' = c5 \/ c5' = [c5 EXCEPT !.faults = @ + 1]
    PROVE  SyncInv'
  <1>1. c5' \in SyncSeen /\ c5'.posted = c5.posted /\ c5'.dispatches = c5.dispatches
        /\ c5'.forgotten = c5.forgotten /\ c5'.writes = c5.writes /\ c5'.overlapped = c5.overlapped
    BY DEF SyncInv, SyncType, SyncSeen
  <1>2. SyncType'
    BY <1>1 DEF SyncInv, SyncType
  <1>3. KnowsNote(c3, c2, c5.overlapped)'
    BY <1>1 DEF SyncInv, KnowsNote
  <1>4. HelperOwed(c3, c2)' = HelperOwed(c3, c2)
    BY DEF HelperOwed
  <1>5. \A r \in Sync!Rounds : NoticeOwed(c3, c2, r)' = NoticeOwed(c3, c2, r)
    BY DEF NoticeOwed
  <1>6. (c5.dispatches <= c5.forgotten + HelperOwed(c3, c2))'
    BY <1>1, <1>4 DEF SyncInv
  <1>7. (\A r \in Sync!Rounds : c5.posted[r] <= c5.forgotten + NoticeOwed(c3, c2, r))'
    BY <1>1, <1>5 DEF SyncInv
  <1>8. (c2.escalated <= c2.round /\ (c5.overlapped \/ c2.others = c5.writes))'
    BY <1>1 DEF SyncInv
  <1> QED
    BY <1>2, <1>3, <1>6, <1>7, <1>8 DEF SyncInv

\* The run that is not there.
LEMMA SyncAtRest == Sync!IdleJob \in SyncJobs /\ Sync!IdleJob.phase = "idle"
  BY DEF Sync!IdleJob, Sync!EmptyNote, SyncJobs, SyncNotes, SyncRounds, Sync!Phases

\* A run waits, asks, and removes and sets the label.
LEMMA SyncAsks ==
    ASSUME SyncInv,
           \/ Sync!Advanced \/ Sync!WaitForHead \/ Sync!CheckBeforeCommands \/ Sync!AskMerge
           \/ Sync!WaitForMerge \/ Sync!WaitForHelper \/ Sync!Unlabel \/ Sync!ApplyLabel
    PROVE  SyncInv'
  <1>1. c1 \in [head : Nat, label : BOOLEAN, merge : BOOLEAN] /\ c2 \in SyncNotes /\ c3 \in SyncJobs
    BY DEF SyncInv, SyncType
  <1>2. ASSUME c3.phase \notin {"idle", "dispatched", "helping", "posted"},
               NEW phase \in Sync!Phases \ {"dispatched", "helping", "posted"},
               NEW head \in Nat,
               \/ (c3' = Sync!IdleJob /\ phase = "idle") \/ c3' = [c3 EXCEPT !.phase = phase]
               \/ c3' = [c3 EXCEPT !.phase = phase, !.baseline = head],
               c2' = c2, c1' \in [head : Nat, label : BOOLEAN, merge : BOOLEAN],
               c5' = c5 \/ c5' = [c5 EXCEPT !.faults = @ + 1]
        PROVE  SyncInv'
    <2>1. c3' \in SyncJobs /\ c3'.phase = phase /\ (phase # "idle" => c3'.round = c3.round /\ c3'.known = c3.known)
      <3>1. CASE c3' = Sync!IdleJob /\ phase = "idle"
        BY <3>1, SyncAtRest
      <3>2. CASE c3' = [c3 EXCEPT !.phase = phase]
        BY <1>1, <1>2, <3>2 DEF SyncJobs
      <3>3. CASE c3' = [c3 EXCEPT !.phase = phase, !.baseline = head]
        BY <1>1, <1>2, <3>3 DEF SyncJobs
      <3> QED
        BY <1>2, <3>1, <3>2, <3>3
    <2>2. /\ c3.known.round = c2.round /\ c3.known.fallback = c2.fallback
          /\ c3.known.escalated = c2.escalated /\ (c5.overlapped \/ c3.known.others = c2.others)
      BY <1>2 DEF SyncInv, KnowsNote
    <2> QED
      BY <1>1, <1>2, <2>1, <2>2, SyncGoesOn
  <1>3. ASSUME NEW p \in Sync!Phases \ {"idle", "dispatched", "helping", "posted"},
               NEW q \in Sync!Phases \ {"dispatched", "helping", "posted"}, Sync!RemoveLabel(p, q)
        PROVE  SyncInv'
    <2>1. c1' \in [head : Nat, label : BOOLEAN, merge : BOOLEAN]
      <3>1. CASE c1' = [c1 EXCEPT !.label = @ /\ ~c3.labelled]
        <4> DEFINE l == c1.label /\ ~c3.labelled
        <4>1. l \in BOOLEAN
          OBVIOUS
        <4>2. c1' = [c1 EXCEPT !.label = l]
          BY <1>1, <3>1
        <4> HIDE DEF l
        <4> QED
          BY <1>1, <4>1, <4>2
      <3> QED
        BY <1>1, <1>3, <3>1 DEF Sync!RemoveLabel
    <2> QED
      BY <1>1, <1>2, <1>3, <2>1 DEF Sync!RemoveLabel, Sync!Faulty
  <1>4. ASSUME NEW p \in Sync!Phases \ {"idle", "dispatched", "helping", "posted"},
               NEW q \in Sync!Phases \ {"idle", "dispatched", "helping", "posted"},
               NEW r \in Sync!Phases \ {"idle", "dispatched", "helping", "posted"}, Sync!Poll(p, q, r)
        PROVE  SyncInv'
    BY <1>1, <1>2, <1>4 DEF Sync!Poll, Sync!Step, Sync!Faulty
  <1>5. CASE Sync!AskMerge
    BY <1>1, <1>2, <1>5 DEF Sync!AskMerge, Sync!Step, Sync!Faulty, Sync!Phases
  <1>6. CASE Sync!ApplyLabel
    <2>1. c1' \in [head : Nat, label : BOOLEAN, merge : BOOLEAN]
      <3>1. CASE c1' = [c1 EXCEPT !.label = @ \/ ~c3.labelled]
        <4> DEFINE l == c1.label \/ ~c3.labelled
        <4>1. l \in BOOLEAN
          OBVIOUS
        <4>2. c1' = [c1 EXCEPT !.label = l]
          BY <1>1, <3>1
        <4> HIDE DEF l
        <4> QED
          BY <1>1, <4>1, <4>2
      <3> QED
        BY <1>1, <1>6, <3>1 DEF Sync!ApplyLabel
    <2> QED
      BY <1>1, <1>2, <1>6, <2>1 DEF Sync!ApplyLabel, Sync!Step, Sync!Faulty, Sync!Phases
  <1>7. CASE Sync!Advanced \/ Sync!Unlabel
    BY <1>3, <1>7 DEF Sync!Advanced, Sync!Unlabel, Sync!Phases
  <1>8. CASE Sync!WaitForHead \/ Sync!CheckBeforeCommands \/ Sync!WaitForMerge \/ Sync!WaitForHelper
    BY <1>4, <1>8 DEF Sync!WaitForHead, Sync!CheckBeforeCommands, Sync!WaitForMerge, Sync!WaitForHelper,
                      Sync!Phases
  <1> QED
    BY <1>5, <1>6, <1>7, <1>8

\* A run saves what it knows, and where it is.
LEMMA SyncSaves ==
    ASSUME SyncInv,
           \/ Sync!Fetch \/ Sync!Skip \/ Sync!Update \/ Sync!CreatePr \/ Sync!UpdateAgain
           \/ Sync!Synced \/ Sync!Timeout
    PROVE  SyncInv'
  <1>1. c1 \in [head : Nat, label : BOOLEAN, merge : BOOLEAN] /\ c2 \in SyncNotes /\ c3 \in SyncJobs
    BY DEF SyncInv, SyncType
  <1>2. ASSUME c3.phase \notin {"idle", "dispatched", "helping", "posted"},
               NEW phase \in Sync!Phases \ {"dispatched", "helping", "posted"},
               NEW head \in Nat, NEW merged \in Nat, NEW baseline \in Nat,
               NEW result \in {"none", "success", "timeout"},
               c2' = [c3.known EXCEPT !.head = head, !.merged = merged, !.result = result],
               \/ c3' = Sync!IdleJob /\ phase = "idle"
               \/ c3' = [c3 EXCEPT !.phase = phase, !.baseline = baseline, !.known = c2'],
               c1' = c1, c5' = c5
        PROVE  SyncInv'
    <2>1. /\ c3.known.round = c2.round /\ c3.known.fallback = c2.fallback
          /\ c3.known.escalated = c2.escalated /\ (c5.overlapped \/ c3.known.others = c2.others)
      BY <1>2 DEF SyncInv, KnowsNote
    <2>2. /\ c2' \in SyncNotes /\ c2'.round = c3.known.round /\ c2'.fallback = c3.known.fallback
          /\ c2'.escalated = c3.known.escalated /\ c2'.others = c3.known.others
      BY <1>1, <1>2 DEF SyncNotes, SyncJobs
    <2>3. c3' \in SyncJobs /\ c3'.phase = phase /\ (phase # "idle" => c3'.round = c3.round /\ c3'.known = c2')
      <3>1. CASE c3' = Sync!IdleJob /\ phase = "idle"
        BY <3>1, SyncAtRest
      <3>2. CASE c3' = [c3 EXCEPT !.phase = phase, !.baseline = baseline, !.known = c2']
        BY <1>1, <1>2, <2>2, <3>2 DEF SyncJobs
      <3> QED
        BY <1>2, <3>1, <3>2
    <2> QED
      BY <1>1, <1>2, <2>1, <2>2, <2>3, SyncGoesOn
  <1>3. /\ c3.known.head \in Nat /\ c3.known.merged \in Nat /\ c3.baseline \in Nat /\ c1.head \in Nat
        /\ c3.known.result \in {"none", "success", "timeout"}
        /\ c3.known = [c3.known EXCEPT !.head = c3.known.head, !.merged = c3.known.merged,
                                       !.result = c3.known.result]
        /\ Sync!FirstBaseline \in Nat
    BY <1>1 DEF SyncJobs, SyncNotes, Sync!FirstBaseline
  <1>4. CASE Sync!Fetch
    <2> DEFINE head == IF c3.known.head = 0 THEN Sync!FirstBaseline ELSE c3.known.head
               phase == IF Sync!FirstBaseline # c1.head THEN "advanced" ELSE "wait"
    <2>1. /\ c2' = [c3.known EXCEPT !.head = head]
          /\ c3' = [c3 EXCEPT !.phase = phase, !.baseline = Sync!FirstBaseline, !.known = c2']
      BY <1>4 DEF Sync!Fetch, Sync!Saved
    <2>2. c2' = [c3.known EXCEPT !.head = head, !.merged = c3.known.merged, !.result = c3.known.result]
      BY <1>1, <2>1 DEF SyncJobs, SyncNotes
    <2>3. head \in Nat /\ phase \in Sync!Phases \ {"dispatched", "helping", "posted"}
      BY <1>3 DEF Sync!Phases
    <2>4. c3.phase = "fetch" /\ c1' = c1 /\ c5' = c5
      BY <1>4 DEF Sync!Fetch
    <2>5. c3' = [c3 EXCEPT !.phase = phase, !.baseline = Sync!FirstBaseline, !.known = c2']
      BY <2>1
    <2>6. c3.phase \notin {"idle", "dispatched", "helping", "posted"}
      BY <2>4
    <2> HIDE DEF head, phase
    <2> QED
      BY <1>2, <1>3, <2>2, <2>3, <2>4, <2>5, <2>6
  <1>5. ASSUME NEW p \in Sync!Phases \ {"idle", "dispatched", "helping", "posted"},
               NEW q \in Sync!Phases \ {"idle", "dispatched", "helping", "posted"}, Sync!Command(p, q)
        PROVE  SyncInv'
    <2>1. c2' = [c3.known EXCEPT !.head = c3.known.head, !.merged = c3.known.merged,
                                 !.result = c3.known.result]
      BY <1>3, <1>5 DEF Sync!Command, Sync!SaveStep, Sync!Saved
    <2>2. c3' = [c3 EXCEPT !.phase = q, !.baseline = c3.baseline, !.known = c2']
      BY <1>1, <1>5 DEF Sync!Command, Sync!SaveStep, Sync!Saved, SyncJobs
    <2> QED
      BY <1>2, <1>3, <1>5, <2>1, <2>2 DEF Sync!Command
  <1>6. CASE Sync!Update \/ Sync!CreatePr \/ Sync!UpdateAgain
    BY <1>5, <1>6 DEF Sync!Update, Sync!CreatePr, Sync!UpdateAgain, Sync!Phases
  <1>7. CASE Sync!Skip
    <2>1. c2' = [c3.known EXCEPT !.head = c3.known.head, !.merged = c1.head, !.result = "success"]
      BY <1>1, <1>7 DEF Sync!Skip, Sync!SaveStep, Sync!Saved, SyncJobs, SyncNotes
    <2>2. c3' = Sync!IdleJob /\ c3.phase = "skip" /\ c1' = c1 /\ c5' = c5
      BY <1>7 DEF Sync!Skip, Sync!SaveStep
    <2> QED
      BY <1>2, <1>3, <2>1, <2>2 DEF Sync!Phases
  <1>8. CASE Sync!Synced
    <2>1. c2' = [c3.known EXCEPT !.head = c3.baseline, !.merged = c3.baseline, !.result = "success"]
      BY <1>1, <1>8 DEF Sync!Synced, Sync!SaveStep, Sync!Saved, SyncJobs, SyncNotes
    <2>2. c3' = [c3 EXCEPT !.phase = "unlabel", !.baseline = c3.baseline, !.known = c2']
      BY <1>1, <1>8 DEF Sync!Synced, Sync!SaveStep, Sync!Saved, SyncJobs
    <2> QED
      BY <1>2, <1>3, <1>8, <2>1, <2>2 DEF Sync!Synced, Sync!Phases
  <1>9. CASE Sync!Timeout
    <2>1. c2' = [c3.known EXCEPT !.head = c3.known.head, !.merged = c3.known.merged, !.result = "timeout"]
      BY <1>1, <1>9 DEF Sync!Timeout, Sync!SaveStep, Sync!Saved, SyncJobs, SyncNotes
    <2>2. c3' = [c3 EXCEPT !.phase = "label", !.baseline = c3.baseline, !.known = c2']
      BY <1>1, <1>9 DEF Sync!Timeout, Sync!SaveStep, Sync!Saved, SyncJobs
    <2> QED
      BY <1>2, <1>3, <1>9, <2>1, <2>2 DEF Sync!Timeout, Sync!Phases
  <1> QED
    BY <1>4, <1>6, <1>7, <1>8, <1>9

\* The fields of what happened outside the comment that count.
LEMMA SyncCounts ==
    ASSUME NEW s \in SyncSeen
    PROVE  /\ s.forgotten \in Nat /\ s.dispatches \in Nat
           /\ \A r \in Sync!Rounds : s.posted[r] \in Nat
  BY DEF SyncSeen

\* The helper workflow is dispatched by a run that knows of no dispatch, and the
\* dispatch is written down.
LEMMA SyncHelps ==
    ASSUME SyncInv, Sync!Fallback \/ Sync!Helper \/ Sync!RecordDispatch
    PROVE  SyncInv'
  <1>1. c1 \in [head : Nat, label : BOOLEAN, merge : BOOLEAN] /\ c2 \in SyncNotes /\ c3 \in SyncJobs
        /\ c5 \in SyncSeen /\ c1' = c1
    BY DEF SyncInv, SyncType, Sync!Fallback, Sync!Helper, Sync!DispatchHelper, Sync!RecordDispatch
  <1>2. c3.phase # "idle" /\ c3.phase # "posted"
    BY DEF Sync!Fallback, Sync!Helper, Sync!DispatchHelper, Sync!RecordDispatch
  <1>3. /\ c3.round = c2.round /\ c3.round \in Sync!Rounds
        /\ c3.known.round = c2.round /\ c3.known.fallback = c2.fallback
        /\ c3.known.escalated = c2.escalated /\ (c5.overlapped \/ c3.known.others = c2.others)
    BY <1>2 DEF SyncInv, KnowsNote
  <1>4. ASSUME NEW p \in {"fallback", "helper"}, NEW q \in Sync!Phases \ {"idle", "dispatched", "helping", "posted"},
               NEW r \in Sync!Phases \ {"idle", "dispatched", "helping", "posted"}, Sync!DispatchHelper(p, q, r)
        PROVE  SyncInv'
    <2>1. CASE c3' = [c3 EXCEPT !.phase = q] /\ c5' = c5
      <3>1. c3' \in SyncJobs /\ c3'.phase = q /\ c3'.round = c3.round /\ c3'.known = c3.known
        BY <1>1, <2>1 DEF SyncJobs
      <3>2. c2' = c2 /\ c3.phase = p
        BY <1>4 DEF Sync!DispatchHelper
      <3> QED
        BY <1>1, <1>2, <1>3, <1>4, <2>1, <3>1, <3>2, SyncGoesOn
    <2>2. CASE c3' = [c3 EXCEPT !.phase = r] /\ c5' = [c5 EXCEPT !.faults = @ + 1]
      <3>1. c3' \in SyncJobs /\ c3'.phase = r /\ c3'.round = c3.round /\ c3'.known = c3.known
        BY <1>1, <2>2 DEF SyncJobs
      <3>2. c2' = c2 /\ c3.phase = p
        BY <1>4 DEF Sync!DispatchHelper
      <3> QED
        BY <1>1, <1>2, <1>3, <1>4, <2>2, <3>1, <3>2, SyncGoesOn
    <2>3. CASE ~c3.known.fallback /\ c5' = [c5 EXCEPT !.dispatches = @ + 1]
      <3>1. PICK x \in {"dispatched", "helping"} : c3' = [c3 EXCEPT !.phase = x]
        BY <1>4, <1>1, <2>3, SyncCounts DEF Sync!DispatchHelper, Sync!Step, Sync!Faulty, SyncSeen
      <3>2. c3' \in SyncJobs /\ c3'.phase = x /\ c3'.round = c3.round /\ c3'.known = c3.known
        BY <1>1, <3>1 DEF SyncJobs, Sync!Phases
      <3>3. c2' = c2 /\ c3.phase = p
        BY <1>4 DEF Sync!DispatchHelper
      <3>4. /\ c5' \in SyncSeen /\ c5'.dispatches = c5.dispatches + 1 /\ c5'.forgotten = c5.forgotten
            /\ c5'.posted = c5.posted /\ c5'.overlapped = c5.overlapped /\ c5'.writes = c5.writes
        BY <1>1, <2>3 DEF SyncSeen
      <3>5. HelperOwed(c3, c2) = 0 /\ HelperOwed(c3, c2)' = 1
        BY <1>3, <2>3, <3>2, <3>3 DEF HelperOwed
      <3>6. \A y \in Sync!Rounds : NoticeOwed(c3, c2, y)' = NoticeOwed(c3, c2, y)
        BY <1>2, <3>2, <3>3 DEF NoticeOwed
      <3>7. KnowsNote(c3, c2, c5.overlapped)'
        BY <1>3, <3>2, <3>3, <3>4 DEF KnowsNote
      <3>8. SyncType'
        BY <1>1, <3>2, <3>3, <3>4 DEF SyncType
      <3>9. (c5.dispatches <= c5.forgotten + HelperOwed(c3, c2))'
        BY <1>1, <3>4, <3>5, SyncCounts DEF SyncInv
      <3> QED
        BY <3>3, <3>4, <3>6, <3>7, <3>8, <3>9 DEF SyncInv
    <2> QED
      BY <1>4, <2>1, <2>2, <2>3 DEF Sync!DispatchHelper, Sync!Step, Sync!Faulty
  <1>5. CASE Sync!Fallback \/ Sync!Helper
    BY <1>4, <1>5 DEF Sync!Fallback, Sync!Helper, Sync!Phases
  <1>6. CASE Sync!RecordDispatch
    <2>1. PICK x \in {"again", "helped"} :
             c2' = [c3.known EXCEPT !.fallback = TRUE] /\ c3' = [c3 EXCEPT !.phase = x, !.known = c2']
      BY <1>6 DEF Sync!RecordDispatch, Sync!SaveStep, Sync!Saved
    <2>2. c5' = c5 /\ c3.phase \in {"dispatched", "helping"}
      BY <1>6 DEF Sync!RecordDispatch
    <2>3. /\ c2' \in SyncNotes /\ c2'.round = c2.round /\ c2'.fallback = TRUE /\ c2'.escalated = c2.escalated
          /\ c2'.others = c3.known.others
      BY <1>1, <1>3, <2>1 DEF SyncNotes, SyncJobs
    <2>4. c3' \in SyncJobs /\ c3'.phase = x /\ c3'.round = c3.round /\ c3'.known = c2'
      BY <1>1, <2>1, <2>3 DEF SyncJobs, Sync!Phases
    <2>5. HelperOwed(c3, c2) = 1 /\ HelperOwed(c3, c2)' = 1
      BY <2>2, <2>3 DEF HelperOwed
    <2>6. \A y \in Sync!Rounds : NoticeOwed(c3, c2, y)' = NoticeOwed(c3, c2, y)
      BY <1>2, <2>3, <2>4 DEF NoticeOwed
    <2>7. KnowsNote(c3, c2, c5.overlapped)'
      BY <1>3, <2>2, <2>3, <2>4 DEF KnowsNote
    <2>8. SyncType'
      BY <1>1, <2>2, <2>3, <2>4 DEF SyncType
    <2> QED
      BY <1>3, <2>2, <2>3, <2>5, <2>6, <2>7, <2>8 DEF SyncInv
  <1> QED
    BY <1>5, <1>6

\* People are told by a run that knows of no notice in its round, and that is
\* written down.
LEMMA SyncTells ==
    ASSUME SyncInv, Sync!Escalate \/ Sync!RecordEscalation
    PROVE  SyncInv'
  <1>1. c1 \in [head : Nat, label : BOOLEAN, merge : BOOLEAN] /\ c2 \in SyncNotes /\ c3 \in SyncJobs
        /\ c5 \in SyncSeen /\ c1' = c1
    BY DEF SyncInv, SyncType, Sync!Escalate, Sync!RecordEscalation
  <1>2. c3.phase \in {"escalate", "posted"}
    BY DEF Sync!Escalate, Sync!RecordEscalation
  <1>3. /\ c3.round = c2.round /\ c3.round \in Sync!Rounds
        /\ c3.known.round = c2.round /\ c3.known.fallback = c2.fallback
        /\ c3.known.escalated = c2.escalated /\ (c5.overlapped \/ c3.known.others = c2.others)
    BY <1>2 DEF SyncInv, KnowsNote
  <1>4. CASE Sync!Escalate /\ c3' = Sync!IdleJob /\ (c5' = c5 \/ c5' = [c5 EXCEPT !.faults = @ + 1])
    <2>1. c2' = c2 /\ c3.phase = "escalate"
      BY <1>4 DEF Sync!Escalate
    <2> QED
      BY <1>1, <1>4, <2>1, SyncAtRest, SyncGoesOn
  <1>5. CASE Sync!Escalate /\ ~Sync!AlreadyEscalated /\ c3' = [c3 EXCEPT !.phase = "posted"]
             /\ c5' = [c5 EXCEPT !.posted[c3.round] = @ + 1]
    <2>1. c2' = c2 /\ c3.phase = "escalate"
      BY <1>5 DEF Sync!Escalate
    <2>2. c3' \in SyncJobs /\ c3'.phase = "posted" /\ c3'.round = c3.round /\ c3'.known = c3.known
      BY <1>1, <1>5 DEF SyncJobs, Sync!Phases
    <2>3. /\ c5' \in SyncSeen /\ c5'.posted = [c5.posted EXCEPT ![c3.round] = @ + 1]
          /\ c5'.dispatches = c5.dispatches /\ c5'.forgotten = c5.forgotten
          /\ c5'.overlapped = c5.overlapped /\ c5'.writes = c5.writes
      BY <1>1, <1>3, <1>5 DEF SyncSeen
    <2>4. ~(c3.round <= c2.escalated)
      BY <1>1, <1>3, <1>5 DEF Sync!AlreadyEscalated, SyncInv, SyncNotes, SyncRounds
    <2>5. NoticeOwed(c3, c2, c3.round) = 0 /\ NoticeOwed(c3', c2', c3.round) = 1
      BY <2>1, <2>2, <2>4 DEF NoticeOwed
    <2>6. \A y \in Sync!Rounds \ {c3.round} : NoticeOwed(c3, c2, y)' = NoticeOwed(c3, c2, y)
      BY <2>1, <2>2 DEF NoticeOwed
    <2>7. HelperOwed(c3, c2)' = HelperOwed(c3, c2)
      BY <2>1, <2>2 DEF HelperOwed
    <2>8. KnowsNote(c3, c2, c5.overlapped)'
      BY <1>3, <2>1, <2>2, <2>3 DEF KnowsNote
    <2>9. SyncType'
      BY <1>1, <2>1, <2>2, <2>3 DEF SyncType
    <2>10. ASSUME NEW y \in Sync!Rounds PROVE c5'.posted[y] <= c5'.forgotten + NoticeOwed(c3', c2', y)
      <3>1. c5.posted[y] <= c5.forgotten + NoticeOwed(c3, c2, y) /\ c5.posted \in [Sync!Rounds -> Nat]
        BY <1>1 DEF SyncInv, SyncSeen
      <3>2. CASE y = c3.round
        BY <1>1, <1>3, <2>3, <2>5, <3>1, <3>2, SyncCounts
      <3>3. CASE y # c3.round
        BY <2>3, <2>6, <3>1, <3>3
      <3> QED
        BY <3>2, <3>3
    <2> QED
      BY <2>1, <2>3, <2>7, <2>8, <2>9, <2>10 DEF SyncInv
  <1>6. CASE Sync!RecordEscalation
    <2>1. c2' = [c3.known EXCEPT !.escalated = c3.round] /\ c3' = Sync!IdleJob /\ c5' = c5 /\ c3.phase = "posted"
      BY <1>6 DEF Sync!RecordEscalation, Sync!SaveStep, Sync!Saved
    <2>2. /\ c2' \in SyncNotes /\ c2'.round = c2.round /\ c2'.fallback = c2.fallback /\ c2'.escalated = c3.round
          /\ c2'.others = c3.known.others
      BY <1>1, <1>3, <2>1 DEF SyncNotes, SyncJobs
    <2>3. \A y \in Sync!Rounds : NoticeOwed(c3, c2, y) = 1 => NoticeOwed(c3, c2, y)' = 1
      <3>1. ASSUME NEW y \in Sync!Rounds, NoticeOwed(c3, c2, y) = 1 PROVE y <= c3.round
        BY <1>1, <1>3, <3>1 DEF NoticeOwed, SyncInv, SyncNotes, SyncRounds, Sync!Rounds
      <3> QED
        BY <2>2, <3>1 DEF NoticeOwed
    <2>4. \A y \in Sync!Rounds : NoticeOwed(c3, c2, y)' >= NoticeOwed(c3, c2, y)
      BY <2>3 DEF NoticeOwed
    <2>5. HelperOwed(c3, c2)' = HelperOwed(c3, c2)
      BY <2>1, <2>2, SyncAtRest DEF HelperOwed
    <2>6. KnowsNote(c3, c2, c5.overlapped)' /\ SyncType'
      BY <1>1, <2>1, <2>2, SyncAtRest DEF KnowsNote, SyncType
    <2>7. \A y \in Sync!Rounds : c5.posted[y] \in Nat /\ NoticeOwed(c3, c2, y) \in Nat /\ NoticeOwed(c3, c2, y)' \in Nat
      BY <1>1, SyncCounts DEF NoticeOwed
    <2>8. (\A y \in Sync!Rounds : c5.posted[y] <= c5.forgotten + NoticeOwed(c3, c2, y))'
      BY <1>1, <2>1, <2>4, <2>7, SyncCounts DEF SyncInv
    <2>9. (c2.escalated <= c2.round /\ (c5.overlapped \/ c2.others = c5.writes))'
      BY <1>1, <1>3, <2>1, <2>2 DEF SyncInv, SyncNotes, SyncRounds
    <2> QED
      BY <2>1, <2>5, <2>6, <2>8, <2>9 DEF SyncInv
  <1> QED
    BY <1>4, <1>5, <1>6 DEF Sync!Escalate, Sync!Step, Sync!Faulty

\* A run starts on the comment as it is, in its round or in the next.
LEMMA SyncBegins ==
    ASSUME SyncInv, Sync!Begin
    PROVE  SyncInv'
  <1>1. c1 \in [head : Nat, label : BOOLEAN, merge : BOOLEAN] /\ c2 \in SyncNotes /\ c3 \in SyncJobs
        /\ c5 \in SyncSeen /\ c1' = c1 /\ c3.phase = "idle"
    BY DEF SyncInv, SyncType, Sync!Begin
  <1>2. PICK r \in {x \in Sync!Rounds : x \in {c2.round, c2.round + 1}}, given \in 0..c1.head,
             listed \in BOOLEAN, done \in BOOLEAN :
             LET s == [c2 EXCEPT !.round = r, !.head = IF @ = 0 THEN given ELSE @]
             IN /\ listed \/ (c1.label /\ Sync!Fault)
                /\ Sync!Saved(s)
                /\ c5' = IF listed THEN c5 ELSE Sync!Faulty
                /\ c3' = IF done
                         THEN [Sync!IdleJob EXCEPT !.phase = "fetch", !.round = r, !.given = given,
                                                   !.labelled = listed /\ c1.label, !.known = s]
                         ELSE Sync!IdleJob
    BY DEF Sync!Begin
  <1>3. given \in Nat /\ r \in SyncRounds /\ r \in Sync!Rounds /\ r >= c2.round
    BY <1>1, <1>2 DEF SyncRounds, SyncNotes, Sync!Rounds
  <1>4. /\ c2' \in SyncNotes /\ c2'.round = r /\ c2'.fallback = c2.fallback
        /\ c2'.escalated = c2.escalated /\ c2'.others = c2.others
    BY <1>1, <1>2, <1>3 DEF Sync!Saved, SyncNotes
  <1>5. /\ c5' \in SyncSeen /\ c5'.posted = c5.posted /\ c5'.dispatches = c5.dispatches
        /\ c5'.forgotten = c5.forgotten /\ c5'.overlapped = c5.overlapped /\ c5'.writes = c5.writes
    BY <1>1, <1>2 DEF Sync!Faulty, SyncSeen
  <1>6. /\ c3' \in SyncJobs /\ c3'.phase \in {"idle", "fetch"}
        /\ c3'.phase = "fetch" => c3'.round = r /\ c3'.known = c2'
    <2>1. CASE c3' = Sync!IdleJob
      BY <2>1, SyncAtRest
    <2>2. CASE c3' # Sync!IdleJob
      <3> DEFINE labelled == listed /\ c1.label
      <3>1. labelled \in BOOLEAN
        OBVIOUS
      <3>2. c3' = [Sync!IdleJob EXCEPT !.phase = "fetch", !.round = r, !.given = given,
                                       !.labelled = labelled, !.known = c2']
        BY <1>2, <2>2 DEF Sync!Saved
      <3> HIDE DEF labelled
      <3> QED
        BY <1>3, <1>4, <3>1, <3>2, SyncAtRest DEF SyncJobs, Sync!Phases
    <2> QED
      BY <2>1, <2>2
  <1>7. HelperOwed(c3, c2)' = HelperOwed(c3, c2)
    BY <1>1, <1>4, <1>6 DEF HelperOwed
  <1>8. \A y \in Sync!Rounds : NoticeOwed(c3, c2, y)' = NoticeOwed(c3, c2, y)
    BY <1>1, <1>4, <1>6 DEF NoticeOwed
  <1>9. KnowsNote(c3, c2, c5.overlapped)' /\ SyncType'
    BY <1>1, <1>3, <1>4, <1>5, <1>6 DEF KnowsNote, SyncType
  <1>10. (c2.escalated <= c2.round /\ (c5.overlapped \/ c2.others = c5.writes))'
    BY <1>1, <1>3, <1>4, <1>5 DEF SyncInv, SyncNotes, SyncRounds
  <1> QED
    BY <1>5, <1>7, <1>8, <1>9, <1>10 DEF SyncInv

\* A run is stopped: what it did not write down is forgotten.
LEMMA SyncStops ==
    ASSUME SyncInv, Sync!Abort
    PROVE  SyncInv'
  <1>1. c1' = c1 /\ c2' = c2 /\ c3' = Sync!IdleJob /\ c2 \in SyncNotes /\ c5 \in SyncSeen
    BY DEF SyncInv, SyncType, Sync!Abort
  <1> DEFINE more == IF Sync!Unrecorded THEN 1 ELSE 0
  <1>2. more \in Nat /\ c5' = [c5 EXCEPT !.faults = @ + 1, !.forgotten = @ + more]
    BY <1>1 DEF Sync!Abort, Sync!Faulty, SyncSeen
  <1> HIDE DEF more
  <1>3. /\ c5' \in SyncSeen /\ c5'.posted = c5.posted /\ c5'.dispatches = c5.dispatches
        /\ c5'.forgotten = c5.forgotten + more /\ c5'.overlapped = c5.overlapped /\ c5'.writes = c5.writes
    <2> DEFINE f == c5.faults + 1
               g == c5.forgotten + more
    <2>1. f \in Nat /\ g \in Nat
      BY <1>1, <1>2 DEF SyncSeen
    <2>2. c5' = [c5 EXCEPT !.faults = f, !.forgotten = g]
      BY <1>1, <1>2 DEF SyncSeen
    <2> HIDE DEF f
    <2> HIDE DEF g
    <2>3. c5' \in SyncSeen /\ c5'.posted = c5.posted /\ c5'.dispatches = c5.dispatches
          /\ c5'.forgotten = g /\ c5'.overlapped = c5.overlapped /\ c5'.writes = c5.writes
      BY <1>1, <2>1, <2>2 DEF SyncSeen
    <2> QED
      BY <2>3 DEF g
  <1>4. HelperOwed(c3, c2) \in Nat /\ HelperOwed(c3', c2') \in Nat
        /\ HelperOwed(c3, c2) <= more + HelperOwed(c3', c2')
    BY <1>1 DEF more, HelperOwed, Sync!Unrecorded
  <1>5. \A y \in Sync!Rounds : /\ NoticeOwed(c3, c2, y) \in Nat /\ NoticeOwed(c3', c2', y) \in Nat
                               /\ NoticeOwed(c3, c2, y) <= more + NoticeOwed(c3', c2', y)
    BY <1>1 DEF more, NoticeOwed, Sync!Unrecorded
  <1>6. (c5.dispatches <= c5.forgotten + HelperOwed(c3, c2))'
    BY <1>1, <1>2, <1>3, <1>4, SyncCounts DEF SyncInv
  <1>7. (\A y \in Sync!Rounds : c5.posted[y] <= c5.forgotten + NoticeOwed(c3, c2, y))'
    BY <1>1, <1>2, <1>3, <1>5, SyncCounts DEF SyncInv
  <1>8. KnowsNote(c3, c2, c5.overlapped)' /\ SyncType'
    BY <1>1, <1>3, SyncAtRest DEF KnowsNote, SyncType, SyncInv
  <1> QED
    BY <1>1, <1>3, <1>6, <1>7, <1>8 DEF SyncInv

\* Commits, merges, and other writers of the comment.
LEMMA SyncAround ==
    ASSUME SyncInv, Sync!Push \/ Sync!MergeRejected \/ Sync!OthersWrite
    PROVE  SyncInv'
  <1>1. c1 \in [head : Nat, label : BOOLEAN, merge : BOOLEAN] /\ c2 \in SyncNotes /\ c3 \in SyncJobs
        /\ c5 \in SyncSeen /\ c3' = c3
    BY DEF SyncInv, SyncType, Sync!Push, Sync!MergeRejected, Sync!OthersWrite
  <1>2. CASE Sync!Push \/ Sync!MergeRejected
    <2>1. c1' \in [head : Nat, label : BOOLEAN, merge : BOOLEAN] /\ c2' = c2 /\ c5' = c5
      <3>1. PICK merge \in BOOLEAN, head \in Nat : c1' = [c1 EXCEPT !.head = head, !.merge = merge]
        <4>1. CASE Sync!Push
          <5>1. PICK merge \in {FALSE, c1.merge} : c1' = [c1 EXCEPT !.head = @ + 1, !.merge = merge]
            BY <4>1 DEF Sync!Push
          <5>2. c1.merge \in BOOLEAN /\ c1.head \in Nat
            BY <1>1
          <5>3. merge = FALSE \/ merge = c1.merge
            OBVIOUS
          <5>4. merge \in BOOLEAN
            BY <5>2, <5>3, Zenon
          <5>5. c1.head + 1 \in Nat
            BY <5>2
          <5> QED
            BY <1>1, <5>1, <5>4, <5>5
        <4>2. CASE Sync!MergeRejected
          <5>1. c1' = [c1 EXCEPT !.head = c1.head, !.merge = FALSE]
            BY <1>1, <4>2 DEF Sync!MergeRejected
          <5> QED
            BY <1>1, <5>1
        <4> QED
          BY <1>2, <4>1, <4>2
      <3> QED
        BY <1>1, <1>2, <3>1 DEF Sync!Push, Sync!MergeRejected
    <2> QED
      BY <1>1, <2>1 DEF SyncInv, SyncType
  <1>3. CASE Sync!OthersWrite
    <2>1. /\ c2' \in SyncNotes /\ c2'.round = c2.round /\ c2'.fallback = c2.fallback
          /\ c2'.escalated = c2.escalated /\ c2'.others = c2.others + 1
      BY <1>1, <1>3 DEF Sync!OthersWrite, SyncNotes
    <2> DEFINE met == c5.overlapped \/ c3.phase # "idle"
    <2>2. met \in BOOLEAN /\ c5' = [c5 EXCEPT !.writes = @ + 1, !.overlapped = met]
      BY <1>1, <1>3 DEF Sync!OthersWrite
    <2> HIDE DEF met
    <2>3. /\ c5' \in SyncSeen /\ c5'.posted = c5.posted /\ c5'.dispatches = c5.dispatches
          /\ c5'.forgotten = c5.forgotten /\ c5'.overlapped = met /\ c5'.writes = c5.writes + 1
      <3> DEFINE w == c5.writes + 1
      <3>1. w \in Nat
        BY <1>1 DEF SyncSeen
      <3>2. c5' = [c5 EXCEPT !.writes = w, !.overlapped = met]
        BY <1>1, <2>2 DEF SyncSeen
      <3> HIDE DEF w
      <3>3. c5' \in SyncSeen /\ c5'.posted = c5.posted /\ c5'.dispatches = c5.dispatches
            /\ c5'.forgotten = c5.forgotten /\ c5'.overlapped = met /\ c5'.writes = w
        BY <1>1, <2>2, <3>1, <3>2 DEF SyncSeen
      <3> QED
        BY <3>3 DEF w
    <2>4. KnowsNote(c3, c2, c5.overlapped)' /\ (c5.overlapped \/ c2.others = c5.writes)'
      BY <1>1, <2>1, <2>3 DEF met, KnowsNote, SyncInv
    <2>5. SyncType' /\ c1' = c1
      BY <1>1, <1>3, <2>1, <2>3 DEF SyncType, Sync!OthersWrite
    <2>6. HelperOwed(c3, c2)' = HelperOwed(c3, c2)
      BY <1>1, <2>1 DEF HelperOwed
    <2>7. \A y \in Sync!Rounds : NoticeOwed(c3, c2, y)' = NoticeOwed(c3, c2, y)
      BY <1>1, <2>1 DEF NoticeOwed
    <2> QED
      BY <2>1, <2>3, <2>4, <2>5, <2>6, <2>7 DEF SyncInv
  <1> QED
    BY <1>2, <1>3

LEMMA SyncStep ==
    ASSUME SyncInv, [Sync!Next]_(Sync!syncVars)
    PROVE  SyncInv'
  <1>1. CASE UNCHANGED Sync!syncVars
    BY <1>1 DEF Sync!syncVars, SyncInv, SyncType
  <1>2. CASE Sync!Next
    BY <1>2, SyncAsks, SyncSaves, SyncHelps, SyncTells, SyncBegins, SyncStops, SyncAround
       DEF Sync!Next, Sync!Run
  <1> QED
    BY <1>1, <1>2

\* The inductive invariant of the sync.
LEMMA SyncInvariance == Spec => [](Syncing => SyncInv)
  <1>1. Init => (Syncing => SyncInv)
    <2>1. SUFFICES ASSUME Sync!Init PROVE SyncInv
      BY DEF Init, Syncing
    <2>2. /\ c1 \in [head : Nat, label : BOOLEAN, merge : BOOLEAN] /\ c2 = Sync!EmptyNote /\ c3 = Sync!IdleJob
          /\ c5 \in SyncSeen /\ c5.posted = [r \in Sync!Rounds |-> 0] /\ c5.dispatches = 0
          /\ c5.forgotten = 0 /\ c5.writes = 0
      BY <2>1 DEF Sync!Init, SyncSeen
    <2>3. c2 \in SyncNotes /\ c2.escalated = 0 /\ c2.round = 0 /\ c2.fallback = FALSE /\ c2.others = 0
      BY <2>2 DEF Sync!EmptyNote, SyncNotes, SyncRounds
    <2>4. HelperOwed(c3, c2) \in Nat /\ \A y : NoticeOwed(c3, c2, y) \in Nat
      BY DEF HelperOwed, NoticeOwed
    <2>5. KnowsNote(c3, c2, c5.overlapped) /\ SyncType
      BY <2>2, <2>3, SyncAtRest DEF KnowsNote, SyncType
    <2> QED
      BY <2>2, <2>3, <2>4, <2>5 DEF SyncInv
  <1>2. [Next]_<<part, cells>> /\ (Syncing => SyncInv) => (Syncing => SyncInv)'
    <2>1. [Next]_<<part, cells>> => (Syncing <=> Syncing')
      BY DEF Next, Syncing, cells
    <2>2. [Next]_<<part, cells>> /\ Syncing => [Sync!Next]_(Sync!syncVars)
      BY DEF Next, Syncing, cells, Sync!syncVars
    <2> QED
      BY <2>1, <2>2, SyncStep
  <1> QED
    BY <1>1, <1>2, PTL DEF Spec

\* People are told once a round that the branch needs them, and the helper
\* workflow is dispatched once for a trace, but for a run that was stopped
\* between the call and its record (keepalive_post_work.js).
THEOREM AskedOnceAlways == Spec => []AskedOnce
  <1>1. (Syncing => SyncInv) => AskedOnce
    <2>1. SUFFICES ASSUME SyncInv PROVE Sync!AskedOnce
      BY DEF AskedOnce, Syncing
    <2>2. c5 \in SyncSeen
      BY <2>1 DEF SyncInv, SyncType
    <2>3. HelperOwed(c3, c2) \in {0, 1} /\ \A y : NoticeOwed(c3, c2, y) \in {0, 1}
      BY DEF HelperOwed, NoticeOwed
    <2> QED
      BY <2>1, <2>2, <2>3, SyncCounts DEF SyncInv, Sync!AskedOnce
  <1> QED
    BY <1>1, SyncInvariance, PTL

\* What others write into the state comment survives the runs that did not
\* overlap the writing (keepalive_state.js, keepalive_post_work.js).
THEOREM OthersKeptAlways == Spec => []OthersKept
  <1>1. (Syncing => SyncInv) => OthersKept
    BY DEF OthersKept, Syncing, SyncInv, Sync!OthersKept
  <1> QED
    BY <1>1, SyncInvariance, PTL

-----------------------------------------------------------------------------
(* OrchestratorGate: c1 is the pull request, c2 the runs, c3 how many draft *)
(* dispositions were posted, c4 the past.                                   *)

Admitting == part = "gate"

CappedPull ==
    [labels : SUBSET Gate!PullLabels, cap : Nat, signal : BOOLEAN, draft : BOOLEAN,
     boxes : {"open", "done"}, gate : {"none", "running", "success", "failure"}]
AdmissionPhases == {"absent", "queued", "recent", "old"} \cup Gate!Working
AdmissionReasons ==
    {"keepalive-paused", "sync-required", "keepalive-label-missing", "no-human-activation", "gate",
     "run-cap-reached", "missing-label", "draft"}
Admissions ==
    [phase : AdmissionPhases, pull : SUBSET Gate!PullLabels, draft : BOOLEAN,
     boxes : {"open", "done", "none"}, gate : {"none", "running", "success", "failure"},
     counted : SUBSET Orchestrators, reasons : SUBSET AdmissionReasons]
AdmissionPast == [edits : Nat, faults : Nat, overlapped : BOOLEAN]

\* Runs that have listed those in progress, and those that were judged.
Looked == {"recents", "judge", "judged", "route", "post", "regate", "decide", "granted"}
Judged == {"judged", "route", "post", "regate", "decide", "granted"}

\* A run without reasons has counted fewer than the cap.
UnderCap(run, cap) ==
    /\ run.phase \in Judged /\ run.reasons = {} => Cardinality(run.counted) < cap
    /\ run.phase = "granted" => run.reasons = {}
\* Of some runs that have looked, one has counted all the others: the one that
\* looked last.
LastCountsAll(runs) ==
    \A S \in SUBSET {r \in Orchestrators : runs[r].phase \in Looked} :
        S # {} => \E r \in S : S \ {r} \subseteq runs[r].counted
\* One run is about to post a disposition that is not there.
OneNotice(runs, drafted) ==
    /\ drafted <= 1
    /\ \A x, y \in Orchestrators :
          runs[x].phase = "post" /\ runs[y].phase = "post" => x = y /\ drafted = 0

AdmissionType ==
    /\ c1 \in CappedPull /\ c2 \in [Orchestrators -> Admissions] /\ c3 \in Nat /\ c4 \in AdmissionPast
AdmissionInv ==
    /\ AdmissionType
    /\ \A r \in Orchestrators : UnderCap(c2[r], Gate!RunCap)
    /\ c4.faults = 0 => LastCountsAll(c2) /\ (c4.overlapped \/ OneNotice(c2, c3))

\* The cap is a number, and no step changes it.
LEMMA CapStays ==
    ASSUME c1 \in CappedPull
    PROVE  Gate!RunCap \in Nat /\ (c1'.cap = c1.cap => Gate!RunCap' = Gate!RunCap)
  BY DEF Gate!RunCap, CappedPull

\* A run that looks now counts all that have looked; another's list only grows.
LEMMA LastStillCounts ==
    ASSUME c2 \in [Orchestrators -> Admissions], LastCountsAll(c2),
           NEW r \in Orchestrators, NEW new \in Admissions, c2' = [c2 EXCEPT ![r] = new],
           new.phase \in Looked =>
              \/ c2[r].phase \in Looked /\ c2[r].counted \subseteq new.counted
              \/ \A x \in Orchestrators \ {r} : c2[x].phase \in Looked => x \in new.counted
    PROVE  LastCountsAll(c2')
  <1>1. \A x \in Orchestrators \ {r} : c2'[x] = c2[x]
    OBVIOUS
  <1>2. c2'[r] = new
    OBVIOUS
  <1>3. SUFFICES ASSUME NEW S \in SUBSET {x \in Orchestrators : c2'[x].phase \in Looked}, S # {}
                 PROVE  \E x \in S : S \ {x} \subseteq c2'[x].counted
    BY DEF LastCountsAll
  <1>4. CASE S \subseteq {x \in Orchestrators : c2[x].phase \in Looked}
             /\ (r \in S => c2[r].counted \subseteq new.counted)
    <2>1. PICK x \in S : S \ {x} \subseteq c2[x].counted
      BY <1>3, <1>4 DEF LastCountsAll
    <2>2. c2[x].counted \subseteq c2'[x].counted
      BY <1>1, <1>2, <1>3, <1>4, <2>1
    <2> QED
      BY <2>1, <2>2
  <1>5. CASE r \in S /\ \A x \in Orchestrators \ {r} : c2[x].phase \in Looked => x \in new.counted
    <2>1. \A x \in S \ {r} : x \in new.counted
      BY <1>1, <1>3, <1>5
    <2> QED
      BY <1>2, <1>5, <2>1
  <1> QED
    <2>1. CASE r \notin S
      BY <1>1, <1>3, <1>4, <2>1
    <2>2. CASE r \in S
      <3>1. new.phase \in Looked
        BY <1>2, <1>3, <2>2
      <3>2. CASE c2[r].phase \in Looked /\ c2[r].counted \subseteq new.counted
        BY <1>1, <1>3, <1>4, <3>2
      <3> QED
        BY <1>5, <2>2, <3>1, <3>2
    <2> QED
      BY <2>1, <2>2

\* A run goes on, and does not begin to post.
LEMMA AdmissionGoesOn ==
    ASSUME AdmissionInv, NEW r \in Orchestrators, NEW new \in Admissions, c2' = [c2 EXCEPT ![r] = new],
           UnderCap(new, Gate!RunCap),
           \/ new.phase \in Looked =>
                \/ c2[r].phase \in Looked /\ c2[r].counted \subseteq new.counted
                \/ \A x \in Orchestrators \ {r} : c2[x].phase \in Looked => x \in new.counted
           \/ c4'.faults # 0,
           new.phase # "post", c1' \in CappedPull, c1'.cap = c1.cap, c3' = c3,
           c4' = c4 \/ c4' = [c4 EXCEPT !.faults = @ + 1]
    PROVE  AdmissionInv'
  <1>1. c4' \in AdmissionPast /\ (c4'.faults = 0 => c4.faults = 0 /\ c4'.overlapped = c4.overlapped)
    BY DEF AdmissionInv, AdmissionType, AdmissionPast
  <1>2. c2' \in [Orchestrators -> Admissions] /\ c2 \in [Orchestrators -> Admissions]
    BY DEF AdmissionInv, AdmissionType
  <1>3. Gate!RunCap' = Gate!RunCap
    BY CapStays DEF AdmissionInv, AdmissionType
  <1>4. \A x \in Orchestrators : UnderCap(c2'[x], Gate!RunCap')
    BY <1>2, <1>3 DEF AdmissionInv
  <1>5. c4'.faults = 0 => LastCountsAll(c2')
    BY <1>1, <1>2, LastStillCounts DEF AdmissionInv
  <1>6. OneNotice(c2, c3) => OneNotice(c2', c3')
    BY <1>2 DEF OneNotice
  <1> QED
    BY <1>1, <1>2, <1>4, <1>5, <1>6 DEF AdmissionInv, AdmissionType

\* The fields of a run.
LEMMA AdmissionTypes ==
    ASSUME AdmissionInv, NEW r \in Orchestrators
    PROVE  /\ c1 \in CappedPull /\ c2 \in [Orchestrators -> Admissions] /\ c2[r] \in Admissions
           /\ c3 \in Nat /\ c4 \in AdmissionPast /\ UnderCap(c2[r], Gate!RunCap)
           /\ \A p \in AdmissionPhases : [c2[r] EXCEPT !.phase = p] \in Admissions
           /\ \A p \in AdmissionPhases, s \in SUBSET AdmissionReasons :
                 [c2[r] EXCEPT !.phase = p, !.reasons = s] \in Admissions
           /\ \A p, s : /\ [c2 EXCEPT ![r].phase = p] = [c2 EXCEPT ![r] = [c2[r] EXCEPT !.phase = p]]
                        /\ [c2 EXCEPT ![r].phase = p, ![r].reasons = s]
                              = [c2 EXCEPT ![r] = [c2[r] EXCEPT !.phase = p, !.reasons = s]]
                        /\ [c2 EXCEPT ![r].phase = p, ![r].gate = s]
                              = [c2 EXCEPT ![r] = [c2[r] EXCEPT !.phase = p, !.gate = s]]
           /\ \A p, s, t : [c2 EXCEPT ![r].phase = p, ![r].counted = s, ![r].gate = t]
                              = [c2 EXCEPT ![r] = [c2[r] EXCEPT !.phase = p, !.counted = s, !.gate = t]]
  <1>1. c2 \in [Orchestrators -> Admissions] /\ c2[r] \in Admissions
    BY DEF AdmissionInv, AdmissionType
  <1>2. \A p \in AdmissionPhases : [c2[r] EXCEPT !.phase = p] \in Admissions
    BY <1>1 DEF Admissions
  <1>3. \A p \in AdmissionPhases, s \in SUBSET AdmissionReasons :
           [c2[r] EXCEPT !.phase = p, !.reasons = s] \in Admissions
    BY <1>1 DEF Admissions
  <1>4. \A p, s : /\ [c2 EXCEPT ![r].phase = p] = [c2 EXCEPT ![r] = [c2[r] EXCEPT !.phase = p]]
                  /\ [c2 EXCEPT ![r].phase = p, ![r].reasons = s]
                        = [c2 EXCEPT ![r] = [c2[r] EXCEPT !.phase = p, !.reasons = s]]
                  /\ [c2 EXCEPT ![r].phase = p, ![r].gate = s]
                        = [c2 EXCEPT ![r] = [c2[r] EXCEPT !.phase = p, !.gate = s]]
    BY <1>1
  <1>5. \A p, s, t : [c2 EXCEPT ![r].phase = p, ![r].counted = s, ![r].gate = t]
                        = [c2 EXCEPT ![r] = [c2[r] EXCEPT !.phase = p, !.counted = s, !.gate = t]]
    BY <1>1
  <1> QED
    BY <1>1, <1>2, <1>3, <1>4, <1>5 DEF AdmissionInv, AdmissionType

\* A run that only moves on keeps its list and its reasons.
LEMMA AdmissionMoves ==
    ASSUME AdmissionInv, NEW r \in Orchestrators, NEW p \in AdmissionPhases, Gate!Move(r, p),
           p \in Looked => c2[r].phase \in Looked,
           p \in Judged => c2[r].phase \in Judged,
           p = "granted" => c2[r].reasons = {},
           p # "post", c1' \in CappedPull, c1'.cap = c1.cap, c3' = c3,
           c4' = c4 \/ c4' = [c4 EXCEPT !.faults = @ + 1]
    PROVE  AdmissionInv'
  <1> DEFINE new == [c2[r] EXCEPT !.phase = p]
  <1>1. c2' = [c2 EXCEPT ![r] = new] /\ new \in Admissions
    BY AdmissionTypes DEF Gate!Move
  <1>2. new.phase = p /\ new.counted = c2[r].counted /\ new.reasons = c2[r].reasons
    BY AdmissionTypes DEF Admissions
  <1>3. UnderCap(new, Gate!RunCap)
    BY <1>2, AdmissionTypes DEF UnderCap
  <1> HIDE DEF new
  <1> QED
    BY <1>1, <1>2, <1>3, AdmissionGoesOn

\* Runs wait, start, end and are forgotten.
LEMMA AdmissionComesAndGoes ==
    ASSUME AdmissionInv, NEW r \in Orchestrators,
           \/ Gate!Queue(r) \/ Gate!Load(r) \/ Gate!Decide(r) \/ Gate!Finish(r) \/ Gate!Age(r)
    PROVE  AdmissionInv'
  <1>1. /\ c1 \in CappedPull /\ c2 \in [Orchestrators -> Admissions] /\ c2[r] \in Admissions
        /\ c1' = c1 /\ c3' = c3
    BY AdmissionTypes DEF Gate!Queue, Gate!Load, Gate!Decide, Gate!Finish, Gate!Age
  <1>2. CASE Gate!Queue(r) \/ Gate!Finish(r)
    BY <1>1, <1>2, AdmissionMoves DEF Gate!Queue, Gate!Finish, AdmissionPhases, Looked, Judged
  <1>3. CASE Gate!Decide(r)
    <2>1. CASE c2[r].reasons = {}
      BY <1>1, <1>3, <2>1, AdmissionMoves DEF Gate!Decide, Gate!At, AdmissionPhases, Gate!Working, Looked, Judged
    <2>2. CASE c2[r].reasons # {}
      BY <1>1, <1>3, <2>2, AdmissionMoves DEF Gate!Decide, AdmissionPhases, Looked, Judged
    <2> QED
      BY <2>1, <2>2
  <1>4. CASE Gate!Load(r)
    <2> DEFINE new == [c2[r] EXCEPT !.phase = "queueds", !.pull = c1.labels, !.draft = c1.draft,
                                    !.boxes = c1.boxes]
    <2>1. \/ c2' = [c2 EXCEPT ![r] = new] /\ c4' = c4
          \/ Gate!Move(r, "recent") /\ c4' = [c4 EXCEPT !.faults = @ + 1]
      BY <1>4, Zenon DEF Gate!Load, Gate!Fault
    <2>2. new \in Admissions /\ new.phase = "queueds"
      BY <1>1 DEF Admissions, AdmissionPhases, Gate!Working, CappedPull
    <2>3. UnderCap(new, Gate!RunCap)
      BY <2>2 DEF UnderCap, Judged
    <2> HIDE DEF new
    <2>4. CASE c2' = [c2 EXCEPT ![r] = new] /\ c4' = c4
      BY <1>1, <2>2, <2>3, <2>4, AdmissionGoesOn DEF Looked
    <2>5. CASE Gate!Move(r, "recent") /\ c4' = [c4 EXCEPT !.faults = @ + 1]
      BY <1>1, <2>5, AdmissionMoves DEF AdmissionPhases, Looked, Judged
    <2> QED
      BY <2>1, <2>4, <2>5
  <1>5. CASE Gate!Age(r)
    <2> DEFINE new == [Gate!Absent EXCEPT !.phase = "old"]
    <2>1. c2' = [c2 EXCEPT ![r] = new] /\ c4' = c4
      BY <1>5 DEF Gate!Age
    <2>2. new \in Admissions /\ new.phase = "old"
      BY DEF Gate!Absent, Admissions, AdmissionPhases
    <2>3. UnderCap(new, Gate!RunCap)
      BY <2>2 DEF UnderCap, Judged
    <2> HIDE DEF new
    <2> QED
      BY <1>1, <2>1, <2>2, <2>3, AdmissionGoesOn DEF Looked
  <1> QED
    BY <1>2, <1>3, <1>4, <1>5

\* A run counts the others: in the second of its listings it finds whoever has
\* been through his own.
LEMMA AdmissionCounts ==
    ASSUME AdmissionInv, NEW r \in Orchestrators, Gate!CountRuns(r)
    PROVE  AdmissionInv'
  <1>1. ASSUME NEW from \in {"queueds", "starteds", "recents"}, NEW status, NEW next \in {"starteds", "recents", "judge"},
               Gate!List(r, from, status, next),
               next = "recents" => status = "in_progress" /\ from = "starteds",
               next = "judge" => from = "recents"
        PROVE  AdmissionInv'
    <2>1. /\ c1 \in CappedPull /\ c2 \in [Orchestrators -> Admissions] /\ c2[r] \in Admissions
          /\ c1' = c1 /\ c3' = c3 /\ c2[r].phase = from /\ c4 \in AdmissionPast
      BY <1>1, AdmissionTypes DEF Gate!List, Gate!At
    <2> DEFINE gate == IF from = "queueds" THEN c1.gate ELSE c2[r].gate
               with == c2[r].counted \cup (Gate!Listed(status) \ {r})
    <2>2. gate \in {"none", "running", "success", "failure"} /\ with \in SUBSET Orchestrators
      BY <2>1 DEF Admissions, CappedPull, Gate!Listed
    <2>3. \/ c2' = [c2 EXCEPT ![r].phase = next, ![r].counted = with, ![r].gate = gate] /\ c4' = c4
          \/ c2' = [c2 EXCEPT ![r].phase = next, ![r].gate = gate] /\ c4' = [c4 EXCEPT !.faults = @ + 1]
      BY <1>1, <2>1 DEF Gate!List, Gate!Fault
    <2> DEFINE one == [c2[r] EXCEPT !.phase = next, !.counted = with, !.gate = gate]
               two == [c2[r] EXCEPT !.phase = next, !.gate = gate]
    <2>4. next = "recents" => \A x \in Orchestrators \ {r} : c2[x].phase \in Looked => x \in with
      BY <1>1 DEF Gate!Listed, Looked, Gate!Working
    <2>5. c2[r].counted \subseteq with
      OBVIOUS
    <2> HIDE DEF gate, with
    <2>6. \/ c2' = [c2 EXCEPT ![r] = one] /\ c4' = c4
          \/ c2' = [c2 EXCEPT ![r] = two] /\ c4' = [c4 EXCEPT !.faults = @ + 1]
      BY <2>3, AdmissionTypes, Zenon
    <2>7. one \in Admissions /\ one.phase = next /\ one.counted = with
      BY <2>1, <2>2 DEF Admissions, AdmissionPhases, Gate!Working
    <2>8. two \in Admissions /\ two.phase = next
      BY <2>1, <2>2 DEF Admissions, AdmissionPhases, Gate!Working
    <2>9. UnderCap(one, Gate!RunCap) /\ UnderCap(two, Gate!RunCap)
      BY <2>7, <2>8 DEF UnderCap, Judged
    <2>10. next \in Looked => \/ c2[r].phase \in Looked /\ c2[r].counted \subseteq with
                              \/ \A x \in Orchestrators \ {r} : c2[x].phase \in Looked => x \in with
      BY <1>1, <2>1, <2>4, <2>5 DEF Looked
    <2>11. c4' = [c4 EXCEPT !.faults = @ + 1] => c4'.faults # 0
      BY <2>1 DEF AdmissionPast
    <2> HIDE DEF one, two
    <2>12. CASE c2' = [c2 EXCEPT ![r] = one] /\ c4' = c4
      BY <2>1, <2>7, <2>9, <2>10, <2>12, AdmissionGoesOn
    <2>13. CASE c2' = [c2 EXCEPT ![r] = two] /\ c4' = [c4 EXCEPT !.faults = @ + 1]
      BY <2>1, <2>8, <2>9, <2>11, <2>13, AdmissionGoesOn
    <2> QED
      BY <2>6, <2>12, <2>13
  <1> QED
    BY <1>1 DEF Gate!CountRuns

\* The orchestrator gate counts as this module does.
LEMMA SameCount == \A S : Gate!Cardinality(S) = Cardinality(S)
  BY DEF Gate!Cardinality, Cardinality

\* What a run has counted is finite.
LEMMA CountedFinite ==
    ASSUME NEW run \in Admissions
    PROVE  IsFiniteSet(run.counted) /\ Cardinality(run.counted) \in Nat
  <1>1. run.counted \subseteq Orchestrators
    BY DEF Admissions
  <1> QED
    BY <1>1, HandlersAssumption, FS_Subset, FS_CardinalityType

\* A run is judged: without a reason it has counted fewer than the cap.
LEMMA AdmissionJudges ==
    ASSUME AdmissionInv, NEW r \in Orchestrators, Gate!Judge(r)
    PROVE  AdmissionInv'
  <1>1. /\ c1 \in CappedPull /\ c2 \in [Orchestrators -> Admissions] /\ c2[r] \in Admissions
        /\ c3' = c3 /\ c2[r].phase = "judge" /\ c4 \in AdmissionPast
    BY AdmissionTypes DEF Gate!Judge, Gate!At
  <1>2. PICK extra \in {{}, {"missing-label"}} :
           c2' = [c2 EXCEPT ![r].phase = "judged", ![r].reasons = Gate!PreGateReason(r) \cup extra]
    BY DEF Gate!Judge
  <1>3. c4' = c4 \/ c4' = [c4 EXCEPT !.faults = @ + 1]
    BY DEF Gate!Judge, Gate!Fault
  <1>4. c1' \in CappedPull /\ c1'.cap = c1.cap
    <2>1. c1' = c1 \/ c1' = [c1 EXCEPT !.labels = @ \cup Gate!Missing(r)]
      BY DEF Gate!Judge
    <2>2. Gate!Missing(r) \subseteq Gate!PullLabels
      BY DEF Gate!Missing, Gate!PullLabels
    <2> HIDE DEF Gate!Missing
    <2> QED
      BY <1>1, <2>1, <2>2 DEF CappedPull
  <1> DEFINE reasons == Gate!PreGateReason(r) \cup extra
             new == [c2[r] EXCEPT !.phase = "judged", !.reasons = reasons]
  <1>5. Gate!PreGateReason(r) \in SUBSET AdmissionReasons
    BY DEF Gate!PreGateReason, AdmissionReasons
  <1>6. reasons \in SUBSET AdmissionReasons
    BY <1>5 DEF AdmissionReasons
  <1>7. reasons = {} => Cardinality(c2[r].counted) < Gate!RunCap
    <2>1. Gate!PreGateReason(r) = {} => ~(Cardinality(c2[r].counted) >= Gate!RunCap)
      BY SameCount, ZenonT(40) DEF Gate!PreGateReason
    <2> QED
      BY <1>1, <2>1, CountedFinite, CapStays
  <1> HIDE DEF reasons
  <1>8. c2' = [c2 EXCEPT ![r] = new]
    <2>1. c2' = [c2 EXCEPT ![r].phase = "judged", ![r].reasons = reasons]
      BY <1>2 DEF reasons
    <2> QED
      BY <2>1, AdmissionTypes, Zenon
  <1>9. new \in Admissions /\ new.phase = "judged" /\ new.counted = c2[r].counted /\ new.reasons = reasons
    BY <1>1, <1>6 DEF Admissions, AdmissionPhases, Gate!Working
  <1> HIDE DEF new
  <1>10. UnderCap(new, Gate!RunCap)
    BY <1>7, <1>9 DEF UnderCap
  <1>11. c2[r].phase \in Looked
    BY <1>1 DEF Looked
  <1> QED
    BY <1>1, <1>3, <1>4, <1>8, <1>9, <1>10, <1>11, AdmissionGoesOn

\* Later reasons are added.
LEMMA AdmissionAdds ==
    ASSUME AdmissionInv, NEW r \in Orchestrators, NEW p \in {"route", "regate", "decide"},
           NEW more \in SUBSET AdmissionReasons,
           c2' = [c2 EXCEPT ![r].phase = p, ![r].reasons = @ \cup more],
           c2[r].phase \in Judged, c1' \in CappedPull, c1'.cap = c1.cap, c3' = c3,
           c4' = c4 \/ c4' = [c4 EXCEPT !.faults = @ + 1]
    PROVE  AdmissionInv'
  <1>1. /\ c2 \in [Orchestrators -> Admissions] /\ c2[r] \in Admissions /\ UnderCap(c2[r], Gate!RunCap)
    BY AdmissionTypes
  <1> DEFINE reasons == c2[r].reasons \cup more
             new == [c2[r] EXCEPT !.phase = p, !.reasons = reasons]
  <1>2. reasons \in SUBSET AdmissionReasons /\ (reasons = {} => c2[r].reasons = {})
    BY <1>1 DEF Admissions
  <1>3. c2' = [c2 EXCEPT ![r].phase = p, ![r].reasons = reasons]
    BY <1>1
  <1> HIDE DEF reasons
  <1>4. c2' = [c2 EXCEPT ![r] = new]
    BY <1>3, AdmissionTypes, Zenon
  <1>5. new \in Admissions /\ new.phase = p /\ new.counted = c2[r].counted /\ new.reasons = reasons
    BY <1>1, <1>2 DEF Admissions, AdmissionPhases, Gate!Working
  <1> HIDE DEF new
  <1>6. UnderCap(new, Gate!RunCap)
    BY <1>1, <1>2, <1>5 DEF UnderCap
  <1>7. c2[r].phase \in Looked
    BY DEF Judged, Looked
  <1> QED
    BY <1>1, <1>4, <1>5, <1>6, <1>7, AdmissionGoesOn

\* Drafts, and the second look at the Gate.
LEMMA AdmissionDisposes ==
    ASSUME AdmissionInv, NEW r \in Orchestrators, Gate!JudgeDraft(r) \/ Gate!ReadGateAgain(r)
    PROVE  AdmissionInv'
  <1>1. /\ c1 \in CappedPull /\ c3' = c3 /\ c2[r].phase \in {"judged", "regate"}
    BY AdmissionTypes DEF Gate!JudgeDraft, Gate!ReadGateAgain, Gate!At
  <1>2. c1' \in CappedPull /\ c1'.cap = c1.cap
    BY <1>1 DEF Gate!JudgeDraft, Gate!ReadGateAgain, CappedPull
  <1>3. c4' = c4 \/ c4' = [c4 EXCEPT !.faults = @ + 1]
    BY DEF Gate!JudgeDraft, Gate!ReadGateAgain, Gate!Fault
  <1>4. c2[r].phase \in Judged /\ c2[r].phase \in Looked
    BY <1>1 DEF Judged, Looked
  <1>5. CASE Gate!Move(r, "regate")
    BY <1>2, <1>1, <1>3, <1>4, <1>5, AdmissionMoves DEF AdmissionPhases, Gate!Working
  <1>6. CASE c2' = [c2 EXCEPT ![r].phase = "route", ![r].reasons = @ \cup {"draft"}]
    <2>1. {"draft"} \in SUBSET AdmissionReasons
      BY DEF AdmissionReasons
    <2> QED
      BY <1>2, <1>1, <1>3, <1>4, <1>6, <2>1, AdmissionAdds
  <1>7. CASE Gate!ReadGateAgain(r)
    <2> DEFINE more == IF c1.gate \in {"none", "running"} THEN {"gate"} ELSE {}
    <2>1. more \in SUBSET AdmissionReasons
      BY DEF AdmissionReasons
    <2>2. c2' = [c2 EXCEPT ![r].phase = "decide", ![r].reasons = @ \cup more]
      BY <1>7 DEF Gate!ReadGateAgain
    <2> HIDE DEF more
    <2> QED
      BY <1>2, <1>1, <1>3, <1>4, <2>1, <2>2, AdmissionAdds
  <1> QED
    BY <1>5, <1>6, <1>7 DEF Gate!JudgeDraft

\* A draft is routed and its disposition posted.
LEMMA AdmissionTurns ==
    ASSUME AdmissionInv, NEW r \in Orchestrators, NEW p \in {"post", "decide"}, Gate!Move(r, p),
           c2[r].phase \in {"route", "post"}, c1' \in CappedPull, c1'.cap = c1.cap,
           c3' \in Nat, c4' \in AdmissionPast,
           c4'.faults = 0 => c4.faults = 0 /\ (c4'.overlapped \/ OneNotice(c2', c3'))
    PROVE  AdmissionInv'
  <1> DEFINE new == [c2[r] EXCEPT !.phase = p]
  <1>1. c2' = [c2 EXCEPT ![r] = new] /\ new \in Admissions
    BY AdmissionTypes DEF Gate!Move, AdmissionPhases, Gate!Working
  <1>2. new.phase = p /\ new.counted = c2[r].counted /\ new.reasons = c2[r].reasons
    BY AdmissionTypes DEF Admissions
  <1>3. UnderCap(new, Gate!RunCap)
    BY <1>2, AdmissionTypes DEF UnderCap, Judged
  <1> HIDE DEF new
  <1>4. c2 \in [Orchestrators -> Admissions] /\ c2' \in [Orchestrators -> Admissions]
    BY <1>1, AdmissionTypes
  <1>5. Gate!RunCap' = Gate!RunCap
    BY CapStays, AdmissionTypes
  <1>6. \A x \in Orchestrators : UnderCap(c2'[x], Gate!RunCap')
    BY <1>1, <1>3, <1>4, <1>5 DEF AdmissionInv
  <1>7. c2[r].phase \in Looked /\ c2[r].counted \subseteq new.counted
    BY <1>2 DEF Looked
  <1>8. LastCountsAll(c2) => LastCountsAll(c2')
    BY <1>1, <1>4, <1>7, LastStillCounts
  <1> QED
    BY <1>4, <1>6, <1>8 DEF AdmissionInv, AdmissionType

LEMMA AdmissionRoutes ==
    ASSUME AdmissionInv, NEW r \in Orchestrators,
           Gate!RouteDraft(r) \/ Gate!RouteDraftBadly(r) \/ Gate!PostDisposition(r)
    PROVE  AdmissionInv'
  <1>1. /\ c1 \in CappedPull /\ c2 \in [Orchestrators -> Admissions] /\ c2[r] \in Admissions
        /\ c3 \in Nat /\ c4 \in AdmissionPast /\ c2[r].phase \in {"route", "post"}
    BY AdmissionTypes DEF Gate!RouteDraft, Gate!RouteDraftBadly, Gate!PostDisposition, Gate!At
  <1>2. c1' \in CappedPull /\ c1'.cap = c1.cap
    BY <1>1 DEF Gate!RouteDraft, Gate!RouteDraftBadly, Gate!PostDisposition, CappedPull, Gate!PullLabels, Gate!Blocking
  <1>3. CASE Gate!RouteDraft(r)
    <2> DEFINE also == c4.overlapped \/ \E x \in Orchestrators \ {r} : c2[x].phase = "post"
               p == IF c3 = 0 THEN "post" ELSE "decide"
    <2>1. also \in BOOLEAN /\ (~also => ~c4.overlapped /\ \A x \in Orchestrators \ {r} : c2[x].phase # "post")
      BY <1>1 DEF AdmissionPast
    <2>2. c4' = [c4 EXCEPT !.overlapped = also]
      BY <1>3 DEF Gate!RouteDraft
    <2>3. p \in {"post", "decide"} /\ Gate!Move(r, p) /\ c3' = c3 /\ (p = "post" => c3 = 0)
      BY <1>3 DEF Gate!RouteDraft
    <2> HIDE DEF also, p
    <2>4. c4' \in AdmissionPast /\ c4'.faults = c4.faults /\ c4'.overlapped = also
      BY <1>1, <2>1, <2>2 DEF AdmissionPast
    <2>5. OneNotice(c2, c3) /\ ~also => OneNotice(c2', c3')
      BY <1>1, <2>1, <2>3 DEF OneNotice, Gate!Move
    <2>6. c4'.faults = 0 => c4.faults = 0 /\ (c4'.overlapped \/ OneNotice(c2', c3'))
      BY <2>1, <2>4, <2>5 DEF AdmissionInv
    <2> QED
      BY <1>1, <1>2, <2>3, <2>4, <2>6, AdmissionTurns
  <1>4. ASSUME NEW p \in {"post", "decide"}, Gate!Move(r, p), Gate!Fault, c3' = c3
        PROVE  AdmissionInv'
    <2>1. c4' \in AdmissionPast /\ c4'.faults # 0
      BY <1>1, <1>4 DEF AdmissionPast, Gate!Fault
    <2> QED
      BY <1>1, <1>2, <1>4, <2>1, AdmissionTurns
  <1>5. CASE Gate!RouteDraftBadly(r)
    BY <1>4, <1>5 DEF Gate!RouteDraftBadly
  <1>6. CASE Gate!PostDisposition(r)
    <2>1. CASE Gate!Fault /\ c3' = c3
      BY <1>4, <1>6, <2>1 DEF Gate!PostDisposition
    <2>2. CASE c3' = c3 + 1 /\ c4' = c4
      <3>1. c2[r].phase = "post" /\ Gate!Move(r, "decide")
        BY <1>6 DEF Gate!PostDisposition, Gate!At
      <3>2. OneNotice(c2, c3) => OneNotice(c2', c3')
        BY <1>1, <2>2, <3>1 DEF OneNotice, Gate!Move
      <3>3. c4'.faults = 0 => c4.faults = 0 /\ (c4'.overlapped \/ OneNotice(c2', c3'))
        BY <2>2, <3>2 DEF AdmissionInv
      <3> QED
        BY <1>1, <1>2, <2>2, <3>1, <3>3, AdmissionTurns
    <2> QED
      BY <1>6, <2>1, <2>2 DEF Gate!PostDisposition
  <1> QED
    BY <1>3, <1>5, <1>6

\* People and the Gate change the pull request; none of it is the cap.
LEMMA AdmissionEdits ==
    ASSUME AdmissionInv, Gate!Edit
    PROVE  AdmissionInv'
  <1>1. c1 \in CappedPull /\ c2' = c2 /\ c3' = c3 /\ c4' = [c4 EXCEPT !.edits = @ + 1] /\ c4 \in AdmissionPast
    BY DEF Gate!Edit, AdmissionInv, AdmissionType
  <1>2. c4' \in AdmissionPast /\ c4'.faults = c4.faults /\ c4'.overlapped = c4.overlapped
    BY <1>1 DEF AdmissionPast
  <1>3. c1' \in CappedPull /\ c1'.cap = c1.cap
    <2> DEFINE toggled(l) == IF l \in c1.labels THEN c1.labels \ {l} ELSE c1.labels \cup {l}
               flipped == ~c1.draft
               ticked == IF c1.boxes = "done" THEN "open" ELSE "done"
    <2>1. \A l \in {"keepalive", "agent", "activated"} \cup Gate!Blocking : toggled(l) \in SUBSET Gate!PullLabels
      BY <1>1 DEF CappedPull, Gate!PullLabels
    <2>2. flipped \in BOOLEAN /\ ticked \in {"open", "done"}
      BY <1>1 DEF CappedPull
    <2>3. \/ \E l \in {"keepalive", "agent", "activated"} \cup Gate!Blocking : c1' = [c1 EXCEPT !.labels = toggled(l)]
          \/ c1' = [c1 EXCEPT !.draft = flipped]
          \/ c1' = [c1 EXCEPT !.boxes = ticked]
          \/ \E g \in {"none", "running", "success", "failure"} : c1' = [c1 EXCEPT !.gate = g]
      BY DEF Gate!Edit
    <2> HIDE DEF toggled, flipped, ticked
    <2>4. CASE \E l \in {"keepalive", "agent", "activated"} \cup Gate!Blocking : c1' = [c1 EXCEPT !.labels = toggled(l)]
      BY <1>1, <2>1, <2>4 DEF CappedPull
    <2>5. CASE c1' = [c1 EXCEPT !.draft = flipped] \/ c1' = [c1 EXCEPT !.boxes = ticked]
      BY <1>1, <2>2, <2>5 DEF CappedPull
    <2>6. CASE \E g \in {"none", "running", "success", "failure"} : c1' = [c1 EXCEPT !.gate = g]
      BY <1>1, <2>6 DEF CappedPull
    <2> QED
      BY <2>3, <2>4, <2>5, <2>6
  <1>4. Gate!RunCap' = Gate!RunCap
    BY <1>1, <1>3, CapStays
  <1> QED
    BY <1>1, <1>2, <1>3, <1>4 DEF AdmissionInv, AdmissionType

\* Each step of the gate before an orchestrator run keeps the invariant.
LEMMA AdmissionStep == AdmissionInv /\ [Gate!Next]_Gate!gateVars => AdmissionInv'
  <1> SUFFICES ASSUME AdmissionInv, [Gate!Next]_Gate!gateVars
               PROVE  AdmissionInv'
    OBVIOUS
  <1>1. CASE UNCHANGED Gate!gateVars
    <2>1. Gate!RunCap' = Gate!RunCap
      BY <1>1 DEF Gate!gateVars, Gate!RunCap
    <2> QED
      BY <1>1, <2>1 DEF Gate!gateVars, AdmissionInv, AdmissionType
  <1>2. ASSUME NEW r \in Orchestrators,
               \/ Gate!Queue(r) \/ Gate!Load(r) \/ Gate!CountRuns(r) \/ Gate!Judge(r) \/ Gate!JudgeDraft(r)
               \/ Gate!RouteDraft(r) \/ Gate!RouteDraftBadly(r) \/ Gate!PostDisposition(r)
               \/ Gate!ReadGateAgain(r) \/ Gate!Decide(r) \/ Gate!Finish(r) \/ Gate!Age(r)
        PROVE  AdmissionInv'
    BY <1>2, AdmissionComesAndGoes, AdmissionCounts, AdmissionJudges, AdmissionDisposes, AdmissionRoutes
  <1> QED
    BY <1>1, <1>2, AdmissionEdits DEF Gate!Next

\* No run, nothing read, and nothing done yet.
LEMMA AdmissionStart == Gate!Init => AdmissionInv
  <1> SUFFICES ASSUME Gate!Init PROVE AdmissionInv
    OBVIOUS
  <1>1. c1 \in CappedPull
    BY HandlersAssumption DEF Gate!Init, CappedPull, Gate!PullLabels
  <1>2. c2 \in [Orchestrators -> Admissions] /\ \A r \in Orchestrators : c2[r].phase = "absent"
    BY DEF Gate!Init, Gate!Absent, Admissions, AdmissionPhases
  <1>3. c3 = 0 /\ c4 \in AdmissionPast
    BY DEF Gate!Init, AdmissionPast
  <1>4. LastCountsAll(c2)
    BY <1>2 DEF LastCountsAll, Looked
  <1>5. OneNotice(c2, c3)
    BY <1>2, <1>3 DEF OneNotice
  <1>6. \A r \in Orchestrators : UnderCap(c2[r], Gate!RunCap)
    BY <1>2 DEF UnderCap, Judged
  <1> QED
    BY <1>1, <1>2, <1>3, <1>4, <1>5, <1>6 DEF AdmissionInv, AdmissionType

LEMMA AdmissionInvariance == Spec => [](Admitting => AdmissionInv)
  <1>1. Init /\ Admitting => Gate!Init
    BY DEF Init, Admitting
  <1>2. [Next]_<<part, cells>> => (Admitting <=> Admitting')
    BY DEF Next, Admitting, cells
  <1>3. [Next]_<<part, cells>> /\ Admitting => [Gate!Next]_Gate!gateVars
    BY DEF Next, Admitting, cells, Gate!gateVars
  <1> QED
    BY <1>1, <1>2, <1>3, AdmissionStart, AdmissionStep, PTL DEF Spec

\* Of the runs that proceed, the one that looked last has counted the others,
\* and found fewer than the cap.
LEMMA AdmissionLimits == AdmissionInv => Gate!WithinLimits
  <1> SUFFICES ASSUME AdmissionInv, c4.faults = 0
               PROVE  Gate!Cardinality(Gate!Granted) <= Gate!RunCap /\ (c4.overlapped \/ c3 <= 1)
    BY DEF Gate!WithinLimits
  <1>1. c4.overlapped \/ c3 <= 1
    BY DEF AdmissionInv, OneNotice
  <1> DEFINE G == {r \in Orchestrators : c2[r].phase = "granted"}
  <1>2. Gate!Granted = G
    BY DEF Gate!Granted, Gate!At
  <1>3. Gate!RunCap \in Nat /\ IsFiniteSet(G)
    <2>1. G \subseteq Orchestrators
      OBVIOUS
    <2> QED
      BY <2>1, CapStays, HandlersAssumption, FS_Subset DEF AdmissionInv, AdmissionType
  <1>4. ASSUME G = {} PROVE Cardinality(G) <= Gate!RunCap
    BY <1>3, <1>4, FS_EmptySet
  <1>5. ASSUME G # {} PROVE Cardinality(G) <= Gate!RunCap
    <2>1. PICK r \in G : G \ {r} \subseteq c2[r].counted
      BY <1>5 DEF AdmissionInv, LastCountsAll, Looked
    <2>2. c2[r] \in Admissions /\ Cardinality(c2[r].counted) < Gate!RunCap
      BY <2>1, AdmissionTypes DEF UnderCap, Judged
    <2>3. IsFiniteSet(c2[r].counted) /\ Cardinality(c2[r].counted) \in Nat
      BY <2>2, CountedFinite
    <2>4. Cardinality(G \ {r}) <= Cardinality(c2[r].counted)
      BY <2>1, <2>3, FS_Subset
    <2>5. Cardinality(G \ {r}) = Cardinality(G) - 1
      BY <1>3, <2>1, FS_RemoveElement
    <2>6. Cardinality(G) \in Nat
      BY <1>3, FS_CardinalityType
    <2> HIDE DEF G
    <2> QED
      BY <1>3, <2>2, <2>3, <2>4, <2>5, <2>6
  <1>6. Cardinality(G) <= Gate!RunCap
    BY <1>4, <1>5
  <1> HIDE DEF G
  <1> QED
    BY <1>1, <1>2, <1>6, SameCount

\* Without a fault, at most as many orchestrator runs work on a pull request at
\* once as its cap allows, and a draft is handed to people with one comment
\* unless two runs looked for it at once (countActive, evaluateKeepaliveGate,
\* routeDraftToHuman): for every set of runs and every cap.
THEOREM WithinLimitsAlways == Spec => []WithinLimits
  <1>1. (Admitting => AdmissionInv) => WithinLimits
    BY AdmissionLimits DEF Admitting, WithinLimits
  <1> QED
    BY <1>1, AdmissionInvariance, PTL

-----------------------------------------------------------------------------
(* InstructionDispatch: c1 says how many instructions were posted, c2 the   *)
(* reactions on each, c3 how far each delivery is, c4 the runs started and  *)
(* c5 those served, c6 the worker, c7 the branch, c8 the faults.            *)

Instructing == part = "instruction"

DeliveryPhases ==
    {"none", "react", "lock", "acquire", "snapshot", "dispatch", "confirm", "command", "done", "stopped"}
DeliveriesSeen ==
    [phase : DeliveryPhases, of : Nat, saw : SUBSET {"hooray", "rocket"}, blind : BOOLEAN, late : BOOLEAN,
     tries : Nat, known : Nat]
StartedFor(e, runs) == {k \in 1..Len(runs) : runs[k] = e}

DispatchType ==
    /\ c1 \in Nat /\ 1..c1 \subseteq Instructions
    /\ c2 \in [Instructions -> SUBSET {"hooray", "rocket"}]
    /\ c3 \in [Deliveries -> DeliveriesSeen]
    /\ c4 \in Seq(Deliveries \cup {0})
\* A late delivery that saw the reactions saw the lock.
LateSees(e) == c3[e].late /\ ~c3[e].blind => "rocket" \in c3[e].saw /\ c3[e].phase \in {"react", "lock", "stopped"}
\* A delivery has started a run for some of its failed tries, and one more once
\* it is past the dispatch.
StartedOnce(e) ==
    Cardinality(StartedFor(e, c4))
       <= c3[e].tries + (IF c3[e].phase \in {"confirm", "command", "done", "stopped"} THEN 1 ELSE 0)
\* The worker does not do what was recorded for its head.
NotDone == c6.phase = "work" /\ c6.instruction # 0 => ~(c6.instruction = c7.last /\ c6.head = c7.at)

DispatchInv ==
    /\ DispatchType
    /\ \A e \in Deliveries : LateSees(e) /\ StartedOnce(e)
    /\ NotDone

\* The dispatch counts as this module does.
LEMMA SameSize == \A S : Instruction!Cardinality(S) = Cardinality(S)
  BY DEF Instruction!Cardinality, Cardinality

\* One more run is one more of its delivery, and none of another.
LEMMA StartedCount ==
    ASSUME NEW runs \in Seq(Deliveries \cup {0}), NEW e
    PROVE  /\ IsFiniteSet(StartedFor(e, runs)) /\ Cardinality(StartedFor(e, runs)) \in Nat
           /\ Cardinality(StartedFor(e, Append(runs, e))) = Cardinality(StartedFor(e, runs)) + 1
           /\ \A x : x # e => StartedFor(e, Append(runs, x)) = StartedFor(e, runs)
  <1>1. IsFiniteSet(StartedFor(e, runs))
    <2>1. StartedFor(e, runs) \subseteq 1..Len(runs) /\ IsFiniteSet(1..Len(runs))
      BY FS_Interval DEF StartedFor
    <2> QED
      BY <2>1, FS_Subset
  <1>2. \A x : x # e => StartedFor(e, Append(runs, x)) = StartedFor(e, runs)
    BY DEF StartedFor
  <1>3. StartedFor(e, Append(runs, e)) = StartedFor(e, runs) \cup {Len(runs) + 1}
    BY DEF StartedFor
  <1>4. Len(runs) + 1 \notin StartedFor(e, runs)
    BY DEF StartedFor
  <1> QED
    BY <1>1, <1>2, <1>3, <1>4, FS_AddElement, FS_CardinalityType

\* A delivery changes; the runs, if any is started, are its own.
LEMMA DispatchGoesOn ==
    ASSUME DispatchInv, NEW e \in Deliveries, NEW new \in DeliveriesSeen, c3' = [c3 EXCEPT ![e] = new],
           new.late /\ ~new.blind => "rocket" \in new.saw /\ new.phase \in {"react", "lock", "stopped"},
           \/ /\ c4' = c4 /\ new.tries >= c3[e].tries
              /\ \/ new.phase \in {"confirm", "command", "done", "stopped"}
                 \/ c3[e].phase \notin {"confirm", "command", "done", "stopped"}
           \/ /\ c4' = Append(c4, e) /\ c3[e].phase = "dispatch"
              /\ \/ new.tries = c3[e].tries + 1
                 \/ new.tries = c3[e].tries /\ new.phase = "confirm",
           c1' = c1, c2' \in [Instructions -> SUBSET {"hooray", "rocket"}], c6' = c6, c7' = c7
    PROVE  DispatchInv'
  <1>1. c3 \in [Deliveries -> DeliveriesSeen] /\ c4 \in Seq(Deliveries \cup {0}) /\ c3[e] \in DeliveriesSeen
    BY DEF DispatchInv, DispatchType
  <1>2. c4' \in Seq(Deliveries \cup {0}) /\ c3' \in [Deliveries -> DeliveriesSeen]
    BY <1>1
  <1>3. DispatchType'
    BY <1>2 DEF DispatchInv, DispatchType
  <1>4. ASSUME NEW d \in Deliveries
        PROVE  LateSees(d)' /\ StartedOnce(d)'
    <2>1. CASE d # e
      <3>1. c3'[d] = c3[d] /\ StartedFor(d, c4') = StartedFor(d, c4)
        BY <1>1, <2>1, StartedCount
      <3> QED
        BY <3>1 DEF DispatchInv, LateSees, StartedOnce
    <2>2. CASE d = e
      <3>1. c3'[e] = new /\ new.tries \in Nat /\ c3[e].tries \in Nat
        BY <1>1 DEF DeliveriesSeen
      <3>2. LateSees(e)'
        BY <3>1 DEF LateSees
      <3>3. Cardinality(StartedFor(e, c4)) \in Nat /\ StartedOnce(e)
        BY <1>1, StartedCount DEF DispatchInv
      <3>4. CASE c4' = c4
        <4>1. Cardinality(StartedFor(e, c4')) = Cardinality(StartedFor(e, c4))
          BY <3>4
        <4>2. /\ new.tries >= c3[e].tries
              /\ \/ new.phase \in {"confirm", "command", "done", "stopped"}
                 \/ c3[e].phase \notin {"confirm", "command", "done", "stopped"}
          <5>1. c4 # Append(c4, e)
            BY <1>1
          <5> QED
            BY <3>4, <5>1
        <4> QED
          BY <2>2, <3>1, <3>2, <3>3, <4>1, <4>2 DEF StartedOnce
      <3>5. CASE c4' = Append(c4, e)
        <4>1. Cardinality(StartedFor(e, c4')) = Cardinality(StartedFor(e, c4)) + 1
          BY <1>1, <3>5, StartedCount
        <4>2. /\ c3[e].phase = "dispatch"
              /\ \/ new.tries = c3[e].tries + 1
                 \/ new.tries = c3[e].tries /\ new.phase = "confirm"
          <5>1. c4 # Append(c4, e)
            BY <1>1
          <5> QED
            BY <3>5, <5>1
        <4> QED
          BY <2>2, <3>1, <3>2, <3>3, <4>1, <4>2 DEF StartedOnce
      <3> QED
        BY <3>4, <3>5
    <2> QED
      BY <2>1, <2>2
  <1>5. NotDone'
    BY DEF DispatchInv, NotDone
  <1> QED
    BY <1>3, <1>4, <1>5 DEF DispatchInv

\* A delivery only moves on: nothing of it but its phase changes.
LEMMA DispatchMoves ==
    ASSUME DispatchInv, NEW e \in Deliveries, NEW p \in DeliveryPhases, Instruction!Move(e, p), c4' = c4,
           \/ p = "stopped"
           \/ p = "lock" /\ c3[e].phase = "react"
           \/ /\ ~(c3[e].phase \in {"react", "lock", "stopped"} /\ "rocket" \in c3[e].saw)
              /\ \/ p \in {"confirm", "command", "done", "stopped"}
                 \/ c3[e].phase \notin {"confirm", "command", "done", "stopped"},
           c1' = c1, c2' \in [Instructions -> SUBSET {"hooray", "rocket"}], c6' = c6, c7' = c7
    PROVE  DispatchInv'
  <1> DEFINE new == [c3[e] EXCEPT !.phase = p]
  <1>1. c3 \in [Deliveries -> DeliveriesSeen] /\ c3[e] \in DeliveriesSeen /\ LateSees(e)
    BY DEF DispatchInv, DispatchType
  <1>2. c3' = [c3 EXCEPT ![e] = new] /\ new \in DeliveriesSeen
    BY <1>1 DEF Instruction!Move, DeliveriesSeen
  <1>3. /\ new.phase = p /\ new.late = c3[e].late /\ new.blind = c3[e].blind /\ new.saw = c3[e].saw
        /\ new.tries = c3[e].tries /\ c3[e].tries \in Nat
    BY <1>1 DEF DeliveriesSeen
  <1> HIDE DEF new
  <1>4. new.late /\ ~new.blind => "rocket" \in new.saw /\ new.phase \in {"react", "lock", "stopped"}
    BY <1>1, <1>3, Zenon DEF LateSees
  <1>5. /\ new.tries >= c3[e].tries
        /\ \/ new.phase \in {"confirm", "command", "done", "stopped"}
           \/ c3[e].phase \notin {"confirm", "command", "done", "stopped"}
    BY <1>3
  <1> QED
    BY <1>2, <1>4, <1>5, DispatchGoesOn

\* A reaction is one of two.
LEMMA DispatchReacts ==
    ASSUME DispatchInv, NEW e \in Deliveries, NEW kind \in {"hooray", "rocket"},
           c2' = c2 \/ Instruction!React(e, kind)
    PROVE  c2' \in [Instructions -> SUBSET {"hooray", "rocket"}]
  BY DEF Instruction!React, DispatchInv, DispatchType

\* A comment is found, seen and locked.
LEMMA DispatchLocks ==
    ASSUME DispatchInv, NEW e \in Deliveries,
           \/ Instruction!Detect(e) \/ Instruction!MarkSeen(e) \/ Instruction!Lock(e) \/ Instruction!AcquireLock(e)
    PROVE  DispatchInv'
  <1>1. /\ c1' = c1 /\ c4' = c4 /\ c6' = c6 /\ c7' = c7
        /\ c3 \in [Deliveries -> DeliveriesSeen] /\ c3[e] \in DeliveriesSeen /\ LateSees(e)
        /\ c2 \in [Instructions -> SUBSET {"hooray", "rocket"}]
    BY DEF DispatchInv, DispatchType, Instruction!Detect, Instruction!MarkSeen, Instruction!Lock,
           Instruction!AcquireLock, Instruction!Outside
  <1>2. c2' \in [Instructions -> SUBSET {"hooray", "rocket"}]
    <2>1. \E kind \in {"hooray", "rocket"} : c2' = c2 \/ Instruction!React(e, kind)
      BY DEF Instruction!Detect, Instruction!MarkSeen, Instruction!Lock, Instruction!AcquireLock
    <2> QED
      BY <2>1, DispatchReacts
  <1>3. CASE Instruction!Detect(e)
    <2>1. c3[e].phase = "none" /\ c2' = c2
      BY <1>3 DEF Instruction!Detect, Instruction!At
    <2>2. PICK i \in 1..c1 :
             \/ c3' = [c3 EXCEPT ![e] = [c3[e] EXCEPT !.phase = "react", !.of = i, !.saw = c2[i],
                                                      !.late = "rocket" \in c2[i]]]
             \/ c3' = [c3 EXCEPT ![e] = [c3[e] EXCEPT !.phase = "react", !.of = i, !.blind = TRUE,
                                                      !.late = "rocket" \in c2[i]]]
      BY <1>1, <1>3, Zenon DEF Instruction!Detect
    <2>3. i \in Nat /\ c2[i] \in SUBSET {"hooray", "rocket"}
      BY <1>1 DEF DispatchInv, DispatchType
    <2> DEFINE late == "rocket" \in c2[i]
               one == [c3[e] EXCEPT !.phase = "react", !.of = i, !.saw = c2[i], !.late = late]
               two == [c3[e] EXCEPT !.phase = "react", !.of = i, !.blind = TRUE, !.late = late]
    <2>4. late \in BOOLEAN /\ (late => "rocket" \in c2[i])
      OBVIOUS
    <2>5. c3' = [c3 EXCEPT ![e] = one] \/ c3' = [c3 EXCEPT ![e] = two]
      BY <2>2, Zenon
    <2> HIDE DEF late
    <2>6. /\ one \in DeliveriesSeen /\ one.phase = "react" /\ one.saw = c2[i] /\ one.late = late
          /\ one.tries = c3[e].tries
      BY <1>1, <2>3, <2>4 DEF DeliveriesSeen, DeliveryPhases
    <2>7. two \in DeliveriesSeen /\ two.phase = "react" /\ two.blind = TRUE /\ two.tries = c3[e].tries
      BY <1>1, <2>3, <2>4 DEF DeliveriesSeen, DeliveryPhases
    <2> HIDE DEF one, two
    <2>8. /\ one.late /\ ~one.blind => "rocket" \in one.saw /\ one.phase \in {"react", "lock", "stopped"}
          /\ two.late /\ ~two.blind => "rocket" \in two.saw /\ two.phase \in {"react", "lock", "stopped"}
      BY <2>4, <2>6, <2>7, Zenon
    <2>9. /\ one.tries >= c3[e].tries /\ two.tries >= c3[e].tries
          /\ c3[e].phase \notin {"confirm", "command", "done", "stopped"}
      BY <1>1, <2>1, <2>6, <2>7 DEF DeliveriesSeen
    <2>10. CASE c3' = [c3 EXCEPT ![e] = one]
      BY <1>1, <1>2, <2>6, <2>8, <2>9, <2>10, DispatchGoesOn
    <2>11. CASE c3' = [c3 EXCEPT ![e] = two]
      BY <1>1, <1>2, <2>7, <2>8, <2>9, <2>11, DispatchGoesOn
    <2> QED
      BY <2>5, <2>10, <2>11
  <1>4. CASE Instruction!MarkSeen(e)
    BY <1>1, <1>2, <1>4, DispatchMoves DEF Instruction!MarkSeen, Instruction!At, DeliveryPhases
  <1>5. CASE Instruction!Lock(e)
    <2>1. \/ Instruction!Move(e, "stopped")
          \/ "rocket" \notin c3[e].saw /\ Instruction!Move(e, "acquire") /\ c3[e].phase = "lock"
      BY <1>5 DEF Instruction!Lock, Instruction!At
    <2>2. CASE Instruction!Move(e, "stopped")
      BY <1>1, <1>2, <2>2, DispatchMoves DEF DeliveryPhases
    <2>3. CASE "rocket" \notin c3[e].saw /\ Instruction!Move(e, "acquire") /\ c3[e].phase = "lock"
      BY <1>1, <1>2, <2>3, DispatchMoves DEF DeliveryPhases
    <2> QED
      BY <2>1, <2>2, <2>3
  <1>6. CASE Instruction!AcquireLock(e)
    <2>1. /\ c3[e].phase = "acquire"
          /\ Instruction!Move(e, "stopped") \/ Instruction!Move(e, "snapshot")
      BY <1>6 DEF Instruction!AcquireLock, Instruction!At
    <2> QED
      BY <1>1, <1>2, <2>1, DispatchMoves DEF DeliveryPhases
  <1> QED
    BY <1>3, <1>4, <1>5, <1>6

\* The orchestrator is dispatched, heard of and commanded.
LEMMA DispatchStarts ==
    ASSUME DispatchInv, NEW e \in Deliveries,
           \/ Instruction!Snapshot(e) \/ Instruction!Dispatch(e) \/ Instruction!Confirm(e)
           \/ Instruction!SendCommand(e)
    PROVE  DispatchInv'
  <1>1. /\ c1' = c1 /\ c2' = c2 /\ c6' = c6 /\ c7' = c7
        /\ c3 \in [Deliveries -> DeliveriesSeen] /\ c3[e] \in DeliveriesSeen /\ LateSees(e)
        /\ c2' \in [Instructions -> SUBSET {"hooray", "rocket"}] /\ c4 \in Seq(Deliveries \cup {0})
    BY DEF DispatchInv, DispatchType, Instruction!Snapshot, Instruction!Dispatch, Instruction!Confirm,
           Instruction!SendCommand, Instruction!Outside
  <1>2. CASE Instruction!Snapshot(e)
    <2> DEFINE new == [c3[e] EXCEPT !.phase = "dispatch", !.known = Len(c4)]
    <2>1. c3[e].phase = "snapshot" /\ c4' = c4 /\ Len(c4) \in Nat
          /\ c3' = [c3 EXCEPT ![e].phase = "dispatch", ![e].known = Len(c4)]
      BY <1>1, <1>2 DEF Instruction!Snapshot, Instruction!At
    <2>2. c3' = [c3 EXCEPT ![e] = new]
      BY <1>1, <2>1
    <2>3. /\ new \in DeliveriesSeen /\ new.phase = "dispatch" /\ new.late = c3[e].late /\ new.blind = c3[e].blind
          /\ new.saw = c3[e].saw /\ new.tries = c3[e].tries /\ new.tries \in Nat
      BY <1>1, <2>1 DEF DeliveriesSeen, DeliveryPhases
    <2> HIDE DEF new
    <2>4. new.late /\ ~new.blind => "rocket" \in new.saw /\ new.phase \in {"react", "lock", "stopped"}
      BY <1>1, <2>1, <2>3, Zenon DEF LateSees
    <2>5. new.tries >= c3[e].tries /\ c3[e].phase \notin {"confirm", "command", "done", "stopped"}
      BY <2>1, <2>3
    <2> QED
      BY <1>1, <2>1, <2>2, <2>3, <2>4, <2>5, DispatchGoesOn
  <1>3. CASE Instruction!Dispatch(e)
    <2>1. c3[e].phase = "dispatch" /\ ~(c3[e].late /\ ~c3[e].blind)
      BY <1>1, <1>3 DEF Instruction!Dispatch, Instruction!At, LateSees
    <2>2. CASE c4' = Append(c4, e) /\ Instruction!Move(e, "confirm")
      <3> DEFINE new == [c3[e] EXCEPT !.phase = "confirm"]
      <3>1. c3' = [c3 EXCEPT ![e] = new]
        BY <1>1, <2>2 DEF Instruction!Move
      <3>2. /\ new \in DeliveriesSeen /\ new.phase = "confirm" /\ new.late = c3[e].late /\ new.blind = c3[e].blind
            /\ new.tries = c3[e].tries
        BY <1>1 DEF DeliveriesSeen, DeliveryPhases
      <3> HIDE DEF new
      <3> QED
        BY <1>1, <2>1, <2>2, <3>1, <3>2, DispatchGoesOn
    <2>3. CASE /\ c4' \in {c4, Append(c4, e)}
               /\ c3' = [c3 EXCEPT ![e].tries = @ + 1,
                                   ![e].phase = IF c3[e].tries + 1 < Tries THEN @ ELSE "stopped"]
      <3> DEFINE p == IF c3[e].tries + 1 < Tries THEN c3[e].phase ELSE "stopped"
                 n == c3[e].tries + 1
                 new == [c3[e] EXCEPT !.tries = n, !.phase = p]
      <3>1. n \in Nat /\ n > c3[e].tries /\ n = c3[e].tries + 1 /\ p \in {"dispatch", "stopped"}
        BY <1>1, <2>1 DEF DeliveriesSeen
      <3>2. c3' = [c3 EXCEPT ![e].tries = n, ![e].phase = p]
        BY <1>1, <2>3
      <3> HIDE DEF n, p
      <3>3. c3' = [c3 EXCEPT ![e] = new]
        BY <1>1, <3>2
      <3>4. /\ new \in DeliveriesSeen /\ new.phase = p /\ new.late = c3[e].late /\ new.blind = c3[e].blind
            /\ new.tries = n
        BY <1>1, <3>1 DEF DeliveriesSeen, DeliveryPhases
      <3> HIDE DEF new
      <3>5. new.late /\ ~new.blind => "rocket" \in new.saw /\ new.phase \in {"react", "lock", "stopped"}
        BY <2>1, <3>4, Zenon
      <3>6. /\ new.tries >= c3[e].tries /\ new.tries = c3[e].tries + 1
            /\ c3[e].phase \notin {"confirm", "command", "done", "stopped"}
        BY <1>1, <2>1, <3>1, <3>4 DEF DeliveriesSeen
      <3>7. CASE c4' = c4
        BY <1>1, <3>3, <3>4, <3>5, <3>6, <3>7, DispatchGoesOn
      <3>8. CASE c4' = Append(c4, e)
        BY <1>1, <2>1, <3>3, <3>4, <3>5, <3>6, <3>8, DispatchGoesOn
      <3> QED
        BY <2>3, <3>7, <3>8
    <2> QED
      BY <1>3, <2>2, <2>3 DEF Instruction!Dispatch
  <1>4. CASE Instruction!Confirm(e) \/ Instruction!SendCommand(e)
    <2>1. /\ c4' = c4 /\ c3[e].phase \in {"confirm", "command"}
          /\ \E p \in {"command", "stopped", "done"} : Instruction!Move(e, p)
      BY <1>4 DEF Instruction!Confirm, Instruction!SendCommand, Instruction!At
    <2>2. PICK p \in {"command", "stopped", "done"} : Instruction!Move(e, p)
      BY <2>1
    <2> QED
      BY <1>1, <2>1, <2>2, DispatchMoves DEF DeliveryPhases
  <1> QED
    BY <1>2, <1>3, <1>4

\* A run is started elsewhere, an instruction is posted, the worker works.
LEMMA DispatchBesides ==
    ASSUME DispatchInv,
           \/ Instruction!Post \/ Instruction!ForeignRun \/ Instruction!WorkerLoads \/ Instruction!WorkerGate
           \/ Instruction!Work
    PROVE  DispatchInv'
  <1>1. DispatchType /\ NotDone /\ \A e \in Deliveries : LateSees(e) /\ StartedOnce(e)
    BY DEF DispatchInv
  <1>2. c2' = c2 /\ c3' = c3
    BY DEF Instruction!Post, Instruction!ForeignRun, Instruction!WorkerLoads, Instruction!WorkerGate,
           Instruction!Work
  <1>3. CASE Instruction!Post
    <2>1. c1' = c1 + 1 /\ c1 + 1 \in Instructions /\ UNCHANGED <<c4, c6, c7>>
      BY <1>3 DEF Instruction!Post
    <2>2. c1' \in Nat /\ 1..c1' \subseteq Instructions
      BY <1>1, <2>1 DEF DispatchType
    <2> QED
      BY <1>1, <1>2, <2>1, <2>2 DEF DispatchInv, DispatchType, LateSees, StartedOnce, NotDone
  <1>4. CASE Instruction!ForeignRun
    <2>1. c4' = Append(c4, 0) /\ UNCHANGED <<c1, c6, c7>>
      BY <1>4 DEF Instruction!ForeignRun
    <2>2. DispatchType'
      BY <1>1, <1>2, <2>1 DEF DispatchType
    <2>3. \A e \in Deliveries : StartedFor(e, c4') = StartedFor(e, c4)
      BY <1>1, <2>1, StartedCount, HandlersAssumption DEF DispatchType
    <2> QED
      BY <1>1, <1>2, <2>1, <2>2, <2>3 DEF DispatchInv, LateSees, StartedOnce, NotDone
  <1>5. CASE Instruction!WorkerLoads \/ Instruction!WorkerGate \/ Instruction!Work
    <2>1. UNCHANGED <<c1, c4>>
      BY <1>5 DEF Instruction!WorkerLoads, Instruction!WorkerGate, Instruction!Work
    <2>2. NotDone'
      <3>1. CASE Instruction!WorkerLoads \/ Instruction!Work
        <4>1. c6'.phase # "work"
          <5>1. Instruction!IdleWorker.phase = "idle"
            BY DEF Instruction!IdleWorker
          <5>2. CASE Instruction!WorkerLoads
            <6>1. c6' = [Instruction!IdleWorker EXCEPT !.phase = "load", !.head = c7.head]
              BY <5>2 DEF Instruction!WorkerLoads
            <6> QED
              BY <6>1 DEF Instruction!IdleWorker
          <5>3. CASE Instruction!Work
            BY <5>1, <5>3 DEF Instruction!Work
          <5> QED
            BY <3>1, <5>2, <5>3
        <4> QED
          BY <4>1 DEF NotDone
      <3>2. CASE Instruction!WorkerGate
        <4>1. CASE Instruction!SkipsWork(c6.head)
          BY <3>2, <4>1 DEF Instruction!WorkerGate, Instruction!IdleWorker, NotDone
        <4>2. CASE ~Instruction!SkipsWork(c6.head)
          <5>1. c1 # 0 => ~(c7.last # 0 /\ c1 <= c7.last /\ c6.head = c7.at)
            BY <4>2 DEF Instruction!SkipsWork
          <5>2. c6' = [c6 EXCEPT !.phase = "work", !.instruction = c1] /\ c7' = c7
            BY <3>2, <4>2 DEF Instruction!WorkerGate
          <5>3. c6'.instruction # 0 /\ c6'.phase = "work" => c6'.instruction = c1 /\ c6'.head = c6.head
            BY <5>2
          <5> QED
            BY <1>1, <5>1, <5>2, <5>3 DEF DispatchType, NotDone
        <4> QED
          BY <4>1, <4>2
      <3> QED
        BY <1>5, <3>1, <3>2
    <2> QED
      BY <1>1, <1>2, <2>1, <2>2 DEF DispatchInv, DispatchType, LateSees, StartedOnce
  <1> QED
    BY <1>3, <1>4, <1>5

\* Each step from an instruction to the worker keeps the invariant.
LEMMA DispatchStep == DispatchInv /\ [Instruction!Next]_Instruction!instructionVars => DispatchInv'
  <1> SUFFICES ASSUME DispatchInv, [Instruction!Next]_Instruction!instructionVars
               PROVE  DispatchInv'
    OBVIOUS
  <1>1. CASE UNCHANGED Instruction!instructionVars
    BY <1>1 DEF Instruction!instructionVars, DispatchInv, DispatchType, LateSees, StartedOnce, NotDone
  <1>2. ASSUME NEW e \in Deliveries,
               \/ Instruction!Detect(e) \/ Instruction!MarkSeen(e) \/ Instruction!Lock(e)
               \/ Instruction!AcquireLock(e) \/ Instruction!Snapshot(e) \/ Instruction!Dispatch(e)
               \/ Instruction!Confirm(e) \/ Instruction!SendCommand(e)
        PROVE  DispatchInv'
    BY <1>2, DispatchLocks, DispatchStarts
  <1> QED
    BY <1>1, <1>2, DispatchBesides DEF Instruction!Next

\* No instruction, and nothing handed out.
LEMMA DispatchStart == Instruction!Init => DispatchInv
  <1> SUFFICES ASSUME Instruction!Init PROVE DispatchInv
    OBVIOUS
  <1>1. DispatchType
    BY DEF Instruction!Init, Instruction!Undelivered, DispatchType, DeliveriesSeen, DeliveryPhases
  <1>2. ASSUME NEW e \in Deliveries
        PROVE  LateSees(e) /\ StartedOnce(e)
    <2>1. c3[e].late = FALSE /\ c3[e].tries = 0 /\ c3[e].phase = "none" /\ c4 = <<>>
      BY DEF Instruction!Init, Instruction!Undelivered
    <2>2. StartedFor(e, c4) = {}
      BY <2>1 DEF StartedFor
    <2>3. LateSees(e)
      BY <2>1, Zenon DEF LateSees
    <2>4. StartedOnce(e)
      <3>1. Cardinality(StartedFor(e, c4)) = 0
        BY <2>2, FS_EmptySet
      <3> QED
        BY <2>1, <3>1 DEF StartedOnce
    <2> QED
      BY <2>3, <2>4
  <1>3. NotDone
    BY DEF Instruction!Init, Instruction!IdleWorker, NotDone
  <1> QED
    BY <1>1, <1>2, <1>3 DEF DispatchInv

LEMMA DispatchInvariance == Spec => [](Instructing => DispatchInv)
  <1>1. Init /\ Instructing => Instruction!Init
    BY DEF Init, Instructing
  <1>2. [Next]_<<part, cells>> => (Instructing <=> Instructing')
    BY DEF Next, Instructing, cells
  <1>3. [Next]_<<part, cells>> /\ Instructing => [Instruction!Next]_Instruction!instructionVars
    BY DEF Next, Instructing, cells, Instruction!instructionVars
  <1> QED
    BY <1>1, <1>2, <1>3, DispatchStart, DispatchStep, PTL DEF Spec

\* Of any number of deliveries of an instruction, one that lists the reactions
\* after another has locked the comment dispatches nothing unless it could not
\* list them; each starts one orchestrator run, and at most one more for each
\* try that failed; and the worker does not repeat what was recorded for its
\* head (dispatchOrchestrator, evaluateKeepaliveWorkerGate).
THEOREM InstructedOnceAlways == Spec => []InstructedOnce
  <1>1. DispatchInv => Instruction!InstructedOnce
    <2> SUFFICES ASSUME DispatchInv PROVE Instruction!InstructedOnce
      OBVIOUS
    <2>1. ASSUME NEW e \in Deliveries
          PROVE  /\ c3[e].late /\ ~c3[e].blind => c3[e].phase \in {"react", "lock", "stopped"}
                 /\ Instruction!Cardinality({k \in 1..Len(c4) : c4[k] = e}) <= 1 + c3[e].tries
      <3>1. c3[e] \in DeliveriesSeen /\ LateSees(e) /\ StartedOnce(e) /\ c4 \in Seq(Deliveries \cup {0})
        BY DEF DispatchInv, DispatchType
      <3>2. Cardinality(StartedFor(e, c4)) \in Nat /\ c3[e].tries \in Nat
        BY <3>1, StartedCount DEF DeliveriesSeen
      <3>3. Cardinality(StartedFor(e, c4)) <= 1 + c3[e].tries
        BY <3>1, <3>2 DEF StartedOnce
      <3>4. Instruction!Cardinality(StartedFor(e, c4)) = Cardinality(StartedFor(e, c4))
        BY SameSize
      <3>5. Instruction!Cardinality({k \in 1..Len(c4) : c4[k] = e}) <= 1 + c3[e].tries
        BY <3>3, <3>4 DEF StartedFor
      <3> QED
        BY <3>1, <3>5, Zenon DEF LateSees
    <2> QED
      BY <2>1, Zenon DEF Instruction!InstructedOnce, DispatchInv, NotDone
  <1>2. (Instructing => DispatchInv) => InstructedOnce
    BY <1>1 DEF Instructing, InstructedOnce
  <1> QED
    BY <1>2, DispatchInvariance, PTL

-----------------------------------------------------------------------------
(* KeepaliveAttention: c1 is the ledger of the challenge, c2 the note, c3   *)
(* the run that waits, c4 the round, c5 the pull request, c6 the tally.     *)

Calling == part = "attention"

Marks == Permissions \cup {"vague", "nothing"}
Claims == [gen : Nat, boundary : Marks, head : Nat]
Attentions ==
    [disposition : {"none", "retry", "challenge", "human"}, gen : Nat, boundary : Marks, pending : BOOLEAN,
     recovery : Nat]
Ledgers ==
    [status : {"none", "available", "consumed", "confirmed"}, gen : Nat, boundary : Marks, head : Nat,
     past : BOOLEAN, owner : Nat, recovered : Nat, from : Nat]
Notes == [attention : Attentions, lease : {"none", "issued", "consumed", "deferred"}, running : Nat]
Requests == [waits : BOOLEAN, forced : BOOLEAN, leased : BOOLEAN, claim : Claims]
RoundPhases ==
    {"idle", "working", "summary", "calm", "pending", "call", "confirm", "persist", "label", "dispatch"}
Rounds ==
    [phase : RoundPhases, id : Nat, claim : Claims, forced : BOOLEAN, started : BOOLEAN, stop : BOOLEAN,
     result : {"ok", "auth", "other", "nothing"}, seen : Marks, before : Attentions, plan : Attentions,
     leased : BOOLEAN, leasing : BOOLEAN]
LabelledPulls == [head : Nat, hard : {"none", "loop", "person"}, soft : BOOLEAN]
Tallies == [runs : Nat, faults : Nat, changes : Nat, worked : SUBSET Nat, leased : Nat, amiss : Nat]

AttentionType ==
    /\ c1 \in Ledgers /\ c2 \in Notes /\ c3 \in Requests /\ c4 \in Rounds /\ c5 \in LabelledPulls
    /\ c6 \in Tallies

\* Nothing asked for and nothing under way are values of their types.
LEMMA QuietTyped ==
    /\ Attention!Calm \in Attentions /\ Attention!NoClaim \in Claims
    /\ Attention!NoRequest \in Requests /\ Attention!Quiet \in Rounds
    /\ Attention!Quiet.phase = "idle" /\ ~Attention!Quiet.leased /\ ~Attention!Quiet.leasing
    /\ ~Attention!Quiet.started /\ ~Attention!Quiet.forced /\ ~Attention!Quiet.stop
    /\ Attention!Quiet.result = "nothing" /\ ~Attention!NoRequest.leased /\ ~Attention!NoRequest.forced
  BY DEF Attention!Calm, Attention!NoClaim, Attention!NoRequest, Attention!Quiet, Attention!Nothing,
         Attentions, Claims, Requests, Rounds, Marks, RoundPhases

\* A call that may fail counts its faults.
LEMMA TryTyped ==
    ASSUME c6 \in Tallies, NEW ok, Attention!Try(ok)
    PROVE  c6' \in Tallies /\ c6'.leased = c6.leased /\ c6'.amiss = c6.amiss /\ c6'.runs = c6.runs
  <1> DEFINE n == IF ok THEN c6.faults ELSE c6.faults + 1
  <1>1. n \in Nat
    BY DEF Tallies
  <1>2. c6' = [c6 EXCEPT !.faults = n]
    BY DEF Attention!Try
  <1> HIDE DEF n
  <1> QED
    BY <1>1, <1>2 DEF Tallies

\* A plan is what is to be written of the pull request.
LEMMA PlannedTyped ==
    ASSUME c4 \in Rounds, c2 \in Notes, NEW a \in Attentions, NEW issue \in BOOLEAN
    PROVE  /\ Attention!Planned(a, issue) \in Rounds
           /\ Attention!Planned(a, issue).phase = "persist" /\ Attention!Planned(a, issue).plan = a
           /\ Attention!Planned(a, issue).leasing => issue
           /\ \A p \in RoundPhases : [Attention!Planned(a, issue) EXCEPT !.phase = p] \in Rounds
  BY DEF Attention!Planned, Rounds, Notes, RoundPhases

\* What a failure leads to: another try, or a challenge.
LEMMA RetryTyped ==
    ASSUME AttentionType, c4' = Attention!ToRetry
    PROVE  /\ c4' \in Rounds /\ c4'.phase = "persist"
           /\ c4'.leasing => Attention!Leased("retry")
           /\ c4'.forced = c4.forced /\ c4'.started = c4.started /\ c4'.leased = c4.leased /\ c4'.id = c4.id
           /\ c4'.claim = c4.claim /\ c4'.result = c4.result /\ c4'.stop = c4.stop
  <1>1. c4 \in Rounds /\ c2 \in Notes /\ c2.attention \in Attentions /\ c4.id \in Nat
    BY DEF AttentionType, Notes, Rounds
  <1>2. Attention!Retry \in Attentions
    <2> DEFINE n == IF c2.attention.disposition = "retry" THEN c2.attention.recovery ELSE 0
    <2>1. n \in Nat
      BY <1>1 DEF Attentions
    <2>2. Attention!Retry = [Attention!Calm EXCEPT !.disposition = "retry", !.recovery = n]
      BY DEF Attention!Retry
    <2> HIDE DEF n
    <2> QED
      BY <2>1, <2>2, QuietTyped DEF Attentions
  <1> DEFINE kept == [c2.attention EXCEPT !.recovery = IF c1.owner = c4.id THEN c4.id ELSE @]
             leases == Attention!Leased("retry")
  <1>3. kept \in Attentions
    <2> DEFINE n == IF c1.owner = c4.id THEN c4.id ELSE c2.attention.recovery
    <2>1. n \in Nat
      BY <1>1 DEF Attentions
    <2>2. kept = [c2.attention EXCEPT !.recovery = n]
      OBVIOUS
    <2> HIDE DEF n, kept
    <2> QED
      BY <1>1, <2>1, <2>2 DEF Attentions
  <1>4. leases \in BOOLEAN
    BY DEF Attention!Leased
  <1>5. c4' = IF Attention!Preserved THEN Attention!Planned(kept, FALSE) ELSE Attention!Planned(Attention!Retry, leases)
    BY DEF Attention!ToRetry
  <1> HIDE DEF kept, leases
  <1>6. \A a \in Attentions, issue \in BOOLEAN :
           LET new == Attention!Planned(a, issue) IN
           /\ new.forced = c4.forced /\ new.started = c4.started /\ new.leased = c4.leased /\ new.id = c4.id
           /\ new.claim = c4.claim /\ new.result = c4.result /\ new.stop = c4.stop
    BY <1>1 DEF Attention!Planned, Rounds
  <1>7. Attention!Preserved \in BOOLEAN
    BY DEF Attention!Preserved, Attention!Challenged
  <1>8. CASE Attention!Preserved
    <2>1. c4' = Attention!Planned(kept, FALSE)
      BY <1>5, <1>8
    <2>2. ~c4'.leasing
      BY <1>1, <1>3, <2>1, PlannedTyped, Zenon
    <2>3. c4' \in Rounds /\ c4'.phase = "persist"
      BY <1>1, <1>3, <2>1, PlannedTyped
    <2> QED
      BY <1>3, <1>6, <2>1, <2>2, <2>3, Zenon
  <1>9. CASE ~Attention!Preserved
    <2>1. c4' = Attention!Planned(Attention!Retry, leases)
      BY <1>5, <1>9
    <2>2. c4'.leasing => Attention!Leased("retry")
      <3>1. c4'.leasing => leases
        BY <1>1, <1>2, <1>4, <2>1, PlannedTyped
      <3> QED
        BY <3>1, Zenon DEF leases
    <2>3. c4' \in Rounds /\ c4'.phase = "persist"
      BY <1>1, <1>2, <1>4, <2>1, PlannedTyped
    <2> QED
      BY <1>2, <1>4, <1>6, <2>1, <2>2, <2>3, Zenon
  <1> QED
    BY <1>7, <1>8, <1>9

\* A lease is one forced execution: free, being given out, asked for, or owed by
\* a run that has not started its worker.
Free == IF c2.lease \in {"none", "deferred"} THEN 1 ELSE 0
Taken == IF c4.leasing /\ c4.phase \in {"label", "dispatch"} THEN 1 ELSE 0
Asked == IF c3.leased THEN 1 ELSE 0
Owed == IF c4.leased /\ ~c4.started /\ c4.phase \notin {"idle", "label", "dispatch"} THEN 1 ELSE 0

LeaseKept ==
    /\ c3.leased => c4.phase = "idle"
    /\ c4.leasing => c4.phase \in {"persist", "label", "dispatch"} /\ ~c4.forced
    /\ c4.leasing /\ c4.phase = "persist" => c2.lease \in {"none", "deferred"}
    /\ c4.phase = "working" => ~c4.started
    /\ c4.phase = "pending" => c4.started /\ c4.result = "auth"
    /\ c6.leased + Free + Taken + Asked + Owed <= 1 + c6.amiss

\* What a person who is called finds.
Explained(a) == a.pending \/ (a.disposition = "human" /\ c1.status = "confirmed" /\ c1.boundary = a.boundary)
\* The round that calls repeats the boundary that its claim names, has written
\* the action down before it sets the label, and owns the receipt.  While a
\* person is called every other round only hands on what is written.
CallKept ==
    /\ c4.phase \in {"pending", "call", "confirm"} => c4.plan.pending /\ c4.plan.boundary = c4.claim.boundary
    /\ c4.phase \in {"call", "confirm"} => c2.attention.pending
    /\ c1.owner <= c6.runs
    /\ c4.phase # "idle" => c4.id # 0 /\ c4.id <= c6.runs
    /\ c4.phase # "idle" /\ c1.owner = c4.id => c1.boundary = c4.claim.boundary
    /\ c5.hard = "loop" =>
          /\ Explained(c2.attention)
          /\ c4.phase \notin {"working", "calm", "pending"}
          /\ c4.phase = "summary" => c4.result = "nothing" /\ ~c4.stop
          /\ c4.phase = "persist" => Explained(c4.plan)

AttentionInv == AttentionType /\ LeaseKept /\ CallKept

LEMMA Tokens ==
    /\ Free \in {0, 1} /\ Taken \in {0, 1} /\ Asked \in {0, 1} /\ Owed \in {0, 1}
    /\ Free' \in {0, 1} /\ Taken' \in {0, 1} /\ Asked' \in {0, 1} /\ Owed' \in {0, 1}
  BY DEF Free, Taken, Asked, Owed

\* The fields that the invariant speaks of.
LEMMA AttentionTypes ==
    ASSUME AttentionType
    PROVE  /\ c1 \in Ledgers /\ c2 \in Notes /\ c3 \in Requests /\ c4 \in Rounds /\ c5 \in LabelledPulls /\ c6 \in Tallies
           /\ c2.attention \in Attentions /\ c3.claim \in Claims /\ c4.claim \in Claims
           /\ c4.before \in Attentions /\ c4.plan \in Attentions
           /\ c6.leased \in Nat /\ c6.amiss \in Nat /\ c6.runs \in Nat /\ c1.owner \in Nat /\ c4.id \in Nat
  BY DEF AttentionType, Notes, Requests, Rounds, Tallies, Ledgers

\* The sweep asks for a run; what it replaces is forgotten.
LEMMA AttentionSweeps == AttentionInv /\ Attention!Sweep => AttentionInv'
  <1> SUFFICES ASSUME AttentionInv, Attention!Sweep PROVE AttentionInv'
    OBVIOUS
  <1>1. AttentionType /\ LeaseKept /\ CallKept /\ UNCHANGED <<c1, c2, c4, c5, c6>>
    BY DEF AttentionInv, Attention!Sweep
  <1> DEFINE due == Attention!Due
             claim == IF due THEN Attention!Claim ELSE Attention!NoClaim
  <1>2. due \in BOOLEAN /\ claim \in Claims
    BY <1>1, QuietTyped DEF Attention!Due, Attention!Claim, AttentionType, Ledgers, LabelledPulls, Claims
  <1>3. c3' = [Attention!NoRequest EXCEPT !.waits = TRUE, !.forced = due, !.claim = claim]
    BY DEF Attention!Sweep
  <1> HIDE DEF due, claim
  <1>4. c3' \in Requests /\ ~c3'.leased
    BY <1>2, <1>3, QuietTyped DEF Requests
  <1>5. AttentionType'
    BY <1>1, <1>4 DEF AttentionType
  <1>6. Asked' = 0 /\ Free' = Free /\ Taken' = Taken /\ Owed' = Owed
    BY <1>1, <1>4 DEF Asked, Free, Taken, Owed
  <1>7. LeaseKept'
    <2>1. c6'.leased + Free' + Taken' + Asked' + Owed' <= 1 + c6'.amiss
      BY <1>1, <1>6, Tokens, AttentionTypes DEF LeaseKept
    <2> QED
      BY <1>1, <1>4, <2>1 DEF LeaseKept
  <1>8. CallKept'
    BY <1>1 DEF CallKept, Explained
  <1> QED
    BY <1>5, <1>7, <1>8 DEF AttentionInv

\* The reporter reopens a receipt; the note follows the ledger.
LEMMA AttentionReports == AttentionInv /\ (Attention!Reopen \/ Attention!Project) => AttentionInv'
  <1> SUFFICES ASSUME AttentionInv, Attention!Reopen \/ Attention!Project PROVE AttentionInv'
    OBVIOUS
  <1>1. AttentionType /\ LeaseKept /\ CallKept
    BY DEF AttentionInv
  <1>2. CASE Attention!Reopen
    <2>1. UNCHANGED <<c2, c3, c4, c5, c6>> /\ c5.hard = "none"
      BY <1>2 DEF Attention!Reopen
    <2> DEFINE g == c1.gen + 1
    <2>2. g \in Nat /\ c1.gen \in Nat /\ c1.owner \in Nat
      BY <1>1 DEF AttentionType, Ledgers
    <2>3. c1' = [c1 EXCEPT !.status = "available", !.gen = g, !.from = c1.gen, !.past = FALSE,
                           !.owner = 0, !.recovered = c1.owner]
      BY <1>2 DEF Attention!Reopen
    <2> HIDE DEF g
    <2>4. c1' \in Ledgers /\ c1'.owner = 0
      BY <1>1, <2>2, <2>3 DEF AttentionType, Ledgers
    <2>5. AttentionType'
      BY <1>1, <2>1, <2>4 DEF AttentionType
    <2>6. LeaseKept'
      BY <1>1, <2>1 DEF LeaseKept, Free, Taken, Asked, Owed
    <2>7. CallKept'
      BY <1>1, <2>1, <2>4, AttentionTypes DEF CallKept
    <2> QED
      BY <2>5, <2>6, <2>7 DEF AttentionInv
  <1>3. CASE Attention!Project
    <2>1. UNCHANGED <<c1, c3, c4, c5, c6>> /\ c1.status = "available"
      BY <1>3 DEF Attention!Project
    <2> DEFINE a == [disposition |-> "challenge", gen |-> c1.gen, boundary |-> c1.boundary,
                     pending |-> c2.attention.pending, recovery |-> c1.recovered]
    <2>2. a \in Attentions /\ a.pending = c2.attention.pending
      BY <1>1 DEF AttentionType, Ledgers, Notes, Attentions
    <2>3. c2' = [c2 EXCEPT !.running = 0, !.attention = a]
      BY <1>3 DEF Attention!Project
    <2> HIDE DEF a
    <2>4. c2' \in Notes /\ c2'.attention = a /\ c2'.lease = c2.lease
      BY <1>1, <2>2, <2>3 DEF AttentionType, Notes
    <2>5. AttentionType'
      BY <1>1, <2>1, <2>4 DEF AttentionType
    <2>6. LeaseKept'
      BY <1>1, <2>1, <2>4 DEF LeaseKept, Free, Taken, Asked, Owed
    <2>7. CallKept'
      BY <1>1, <2>1, <2>2, <2>4 DEF CallKept, Explained
    <2> QED
      BY <2>5, <2>6, <2>7 DEF AttentionInv
  <1> QED
    BY <1>2, <1>3

\* Pushes, time, and people who label.
LEMMA AttentionSurrounds ==
    AttentionInv /\ (\/ Attention!Push \/ Attention!Expire
                     \/ \E hard \in {"none", "person"} : Attention!PersonLabels(hard)) => AttentionInv'
  <1> SUFFICES ASSUME AttentionInv,
                      \/ Attention!Push \/ Attention!Expire
                      \/ \E hard \in {"none", "person"} : Attention!PersonLabels(hard)
               PROVE  AttentionInv'
    OBVIOUS
  <1>1. AttentionType /\ LeaseKept /\ CallKept
    BY DEF AttentionInv
  <1>2. UNCHANGED <<c2, c3, c4>> /\ c6' = [c6 EXCEPT !.changes = @ + 1]
    BY DEF Attention!Push, Attention!Expire, Attention!PersonLabels, Attention!Change
  <1>3. c6' \in Tallies /\ c6'.leased = c6.leased /\ c6'.amiss = c6.amiss /\ c6'.runs = c6.runs
    BY <1>1, <1>2 DEF AttentionType, Tallies
  <1>4. /\ c1' \in Ledgers /\ c1'.owner = c1.owner /\ c1'.boundary = c1.boundary /\ c1'.status = c1.status
        /\ c5' \in LabelledPulls /\ (c5'.hard = "loop" => c5.hard = "loop")
    <2>1. CASE Attention!Push
      BY <1>1, <2>1 DEF Attention!Push, AttentionType, Ledgers, LabelledPulls
    <2>2. CASE Attention!Expire
      BY <1>1, <2>2 DEF Attention!Expire, AttentionType, Ledgers, LabelledPulls
    <2>3. CASE \E hard \in {"none", "person"} : Attention!PersonLabels(hard)
      BY <1>1, <2>3 DEF Attention!PersonLabels, AttentionType, Ledgers, LabelledPulls
    <2> QED
      BY <2>1, <2>2, <2>3
  <1>5. AttentionType'
    BY <1>1, <1>2, <1>3, <1>4 DEF AttentionType
  <1>6. LeaseKept'
    BY <1>1, <1>2, <1>3 DEF LeaseKept, Free, Taken, Asked, Owed
  <1>7. CallKept'
    BY <1>1, <1>2, <1>3, <1>4 DEF CallKept, Explained
  <1> QED
    BY <1>5, <1>6, <1>7 DEF AttentionInv

\* A run begins: without a person's label it works, or its claim is refused.
LEMMA AttentionBegins == AttentionInv /\ Attention!Begin => AttentionInv'
  <1> SUFFICES ASSUME AttentionInv, Attention!Begin PROVE AttentionInv'
    OBVIOUS
  <1>1. AttentionType /\ LeaseKept /\ CallKept /\ UNCHANGED c5 /\ c4.phase = "idle" /\ c3' = Attention!NoRequest
    BY DEF AttentionInv, Attention!Begin
  <1> DEFINE id == c6.runs + 1
             run == [Attention!Quiet EXCEPT !.id = id, !.claim = c3.claim, !.forced = c3.forced, !.leased = c3.leased]
  <1>2. id \in Nat /\ id # 0 /\ c6.runs < id /\ c1.owner <= c6.runs /\ id = c6.runs + 1
    BY <1>1, AttentionTypes DEF CallKept
  <1>3. c6' = [c6 EXCEPT !.runs = id]
    BY DEF Attention!Begin
  <1>4. /\ c4' \in {[run EXCEPT !.phase = "working"], [run EXCEPT !.phase = "summary"],
                    [run EXCEPT !.phase = "summary", !.result = "auth", !.seen = c3.claim.boundary]}
        /\ c5.hard # "none" => c4' = [run EXCEPT !.phase = "summary"]
    BY DEF Attention!Begin
  <1>5. \/ c1' = c1
        \/ c1' = [c1 EXCEPT !.status = "consumed", !.owner = id] /\ c3.claim.boundary = c1.boundary
    BY DEF Attention!Begin, Attention!Granted
  <1>6. c2' = c2 \/ c2' = [c2 EXCEPT !.running = id]
    BY DEF Attention!Begin
  <1> HIDE DEF id
  <1>7. run \in Rounds /\ run.id = id /\ run.claim = c3.claim /\ run.result = "nothing" /\ ~run.stop
        /\ ~run.leasing /\ ~run.started /\ (run.leased <=> c3.leased)
    BY <1>1, <1>2, QuietTyped, AttentionTypes DEF Rounds, Requests
  <1> HIDE DEF run
  <1>8. /\ c4' \in Rounds /\ c4'.id = id /\ c4'.claim = c3.claim /\ ~c4'.leasing /\ (c4'.leased <=> c3.leased)
        /\ ~c4'.started /\ c4'.phase \in {"working", "summary"}
        /\ (c5.hard # "none" => c4'.phase = "summary" /\ c4'.result = "nothing" /\ ~c4'.stop)
    <2>1. c3.claim.boundary \in Marks
      BY <1>1, AttentionTypes DEF Claims
    <2>2. CASE c4' = [run EXCEPT !.phase = "working"] \/ c4' = [run EXCEPT !.phase = "summary"]
      BY <1>4, <1>7, <2>2 DEF Rounds, RoundPhases
    <2>3. CASE c4' = [run EXCEPT !.phase = "summary", !.result = "auth", !.seen = c3.claim.boundary] /\ c5.hard = "none"
      BY <1>7, <2>1, <2>3 DEF Rounds, RoundPhases
    <2> QED
      BY <1>4, <2>2, <2>3
  <1>9. /\ c1' \in Ledgers /\ c1'.boundary = c1.boundary
        /\ \/ c1'.owner = c1.owner /\ c1'.status = c1.status
           \/ c1'.owner = id /\ c3.claim.boundary = c1.boundary /\ c1'.status = "consumed"
    BY <1>1, <1>2, <1>5 DEF AttentionType, Ledgers
  <1>10. c2' \in Notes /\ c2'.attention = c2.attention /\ c2'.lease = c2.lease
    BY <1>1, <1>2, <1>6 DEF AttentionType, Notes
  <1>11. c6' \in Tallies /\ c6'.runs = id /\ c6'.leased = c6.leased /\ c6'.amiss = c6.amiss
    BY <1>1, <1>2, <1>3 DEF AttentionType, Tallies
  <1>12. AttentionType'
    BY <1>1, <1>8, <1>9, <1>10, <1>11, QuietTyped DEF AttentionType
  <1>13. LeaseKept'
    <2>1. ~c3'.leased
      BY <1>1, QuietTyped
    <2>2. Free' = Free /\ Taken' = 0 /\ Asked' = 0 /\ Owed' = Asked
      BY <1>8, <1>10, <2>1 DEF Free, Taken, Asked, Owed
    <2>3. c6'.leased + Free' + Taken' + Asked' + Owed' <= 1 + c6'.amiss
      BY <1>1, <1>11, <2>2, Tokens, AttentionTypes DEF LeaseKept
    <2> QED
      BY <1>8, <2>1, <2>3 DEF LeaseKept
  <1>14. CallKept'
    <2>1. /\ c1'.owner <= c6'.runs
          /\ c4'.phase # "idle" => c4'.id # 0 /\ c4'.id <= c6'.runs
          /\ c4'.phase # "idle" /\ c1'.owner = c4'.id => c1'.boundary = c4'.claim.boundary
      BY <1>1, <1>2, <1>8, <1>9, <1>11, AttentionTypes
    <2>2. c5'.hard = "loop" =>
             /\ Explained(c2.attention)'
             /\ c4'.phase \notin {"working", "calm", "pending"}
             /\ c4'.phase = "summary" => c4'.result = "nothing" /\ ~c4'.stop
             /\ c4'.phase = "persist" => Explained(c4.plan)'
      <3> SUFFICES ASSUME c5'.hard = "loop"
                   PROVE  /\ Explained(c2.attention)'
                          /\ c4'.phase = "summary" /\ c4'.result = "nothing" /\ ~c4'.stop
        OBVIOUS
      <3>1. c5.hard = "loop" /\ c1' = c1
        BY <1>1 DEF Attention!Begin
      <3> QED
        BY <1>1, <1>8, <1>10, <3>1 DEF CallKept, Explained
    <2> QED
      BY <1>8, <2>1, <2>2 DEF CallKept
  <1> QED
    BY <1>12, <1>13, <1>14 DEF AttentionInv

\* The tally of a worker that started, or did not.
LEMMA WorkedTyped ==
    ASSUME AttentionType, NEW s \in BOOLEAN
    PROVE  LET new == Attention!Worked(s) IN
           /\ new \in Tallies /\ new.runs = c6.runs /\ new.amiss = c6.amiss
           /\ new.leased = c6.leased + (IF s /\ c4.leased THEN 1 ELSE 0)
  <1> DEFINE n == IF c4.leased THEN c6.leased + 1 ELSE c6.leased
             w == c6.worked \cup {c4.id}
  <1>1. n \in Nat /\ w \in SUBSET Nat /\ n = c6.leased + (IF c4.leased THEN 1 ELSE 0)
    BY AttentionTypes DEF Tallies
  <1>2. Attention!Worked(TRUE) = [c6 EXCEPT !.worked = w, !.leased = n] /\ Attention!Worked(FALSE) = c6
    BY DEF Attention!Worked
  <1> HIDE DEF n, w
  <1>3. LET new == [c6 EXCEPT !.worked = w, !.leased = n] IN
        new \in Tallies /\ new.runs = c6.runs /\ new.amiss = c6.amiss /\ new.leased = n
    BY <1>1, AttentionTypes DEF Tallies
  <1>4. CASE s = TRUE
    BY <1>1, <1>2, <1>3, <1>4
  <1>5. CASE s = FALSE
    <2>1. Attention!Worked(s) = c6 /\ (IF s /\ c4.leased THEN 1 ELSE 0) = 0
      BY <1>2, <1>5
    <2>2. c6 \in Tallies /\ c6.leased = c6.leased + 0
      BY AttentionTypes
    <2> QED
      BY <2>1, <2>2
  <1> QED
    BY <1>4, <1>5

\* The worker works, or is lost.
LEMMA AttentionWorks ==
    ASSUME AttentionInv, NEW s \in BOOLEAN, NEW stop \in BOOLEAN, NEW result \in {"ok", "auth", "other", "nothing"},
           Attention!Work(s, result, stop)
    PROVE  AttentionInv'
  <1>1. AttentionType /\ LeaseKept /\ CallKept /\ UNCHANGED <<c1, c2, c3, c5>> /\ c4.phase = "working"
    BY DEF AttentionInv, Attention!Work
  <1> DEFINE halt == stop /\ result # "ok"
  <1>2. halt \in BOOLEAN
    OBVIOUS
  <1>3. PICK seen \in Marks :
           c4' = [c4 EXCEPT !.phase = "summary", !.started = s, !.stop = halt, !.result = result, !.seen = seen]
    BY DEF Attention!Work, Attention!Nothing, Marks
  <1>4. c6' = Attention!Worked(s)
    BY DEF Attention!Work
  <1> HIDE DEF halt
  <1>5. /\ c4' \in Rounds /\ c4'.phase = "summary" /\ (c4'.started <=> s) /\ (c4'.leased <=> c4.leased)
        /\ (c4'.leasing <=> c4.leasing) /\ c4'.id = c4.id /\ c4'.claim = c4.claim
    BY <1>1, <1>2, <1>3, AttentionTypes DEF Rounds, RoundPhases
  <1>6. c6' \in Tallies /\ c6'.runs = c6.runs /\ c6'.amiss = c6.amiss
        /\ c6'.leased = c6.leased + (IF s /\ c4.leased THEN 1 ELSE 0)
    BY <1>1, <1>4, WorkedTyped
  <1>7. AttentionType'
    BY <1>1, <1>5, <1>6 DEF AttentionType
  <1>8. ~c4.leasing /\ ~c4.started
    BY <1>1 DEF LeaseKept
  <1>9. LeaseKept'
    <2>1. Free' = Free /\ Taken' = 0 /\ Asked' = Asked
          /\ Owed' = (IF ~s /\ c4.leased THEN 1 ELSE 0) /\ Owed = (IF c4.leased THEN 1 ELSE 0)
      BY <1>1, <1>5, <1>8 DEF Free, Taken, Asked, Owed
    <2>2. c6'.leased + Owed' = c6.leased + Owed
      BY <1>6, <2>1, <1>1, AttentionTypes
    <2>3. c6'.leased + Free' + Taken' + Asked' + Owed' <= 1 + c6'.amiss
      BY <1>1, <1>6, <2>1, <2>2, Tokens, AttentionTypes DEF LeaseKept, AttentionType, Tallies
    <2> QED
      BY <1>1, <1>5, <1>8, <2>3 DEF LeaseKept
  <1>10. CallKept'
    BY <1>1, <1>5, <1>6 DEF CallKept
  <1> QED
    BY <1>7, <1>9, <1>10 DEF AttentionInv

LEMMA AttentionDies ==
    ASSUME AttentionInv, NEW s \in BOOLEAN, Attention!Die(s)
    PROVE  AttentionInv'
  <1>1. AttentionType /\ LeaseKept /\ CallKept /\ UNCHANGED <<c1, c2, c3, c5>> /\ c4' = Attention!Quiet
        /\ (s => c4.phase = "working")
    BY DEF AttentionInv, Attention!Die
  <1> DEFINE t == Attention!Worked(s)
             n == t.faults + 1
  <1>2. t \in Tallies /\ t.runs = c6.runs /\ t.amiss = c6.amiss
        /\ t.leased = c6.leased + (IF s /\ c4.leased THEN 1 ELSE 0)
    BY <1>1, WorkedTyped
  <1>3. n \in Nat /\ c6' = [t EXCEPT !.faults = n]
    BY <1>2 DEF Attention!Die, Tallies
  <1> HIDE DEF t, n
  <1>4. c6' \in Tallies /\ c6'.runs = c6.runs /\ c6'.amiss = c6.amiss /\ c6'.leased = t.leased
    BY <1>2, <1>3 DEF Tallies
  <1>5. AttentionType'
    BY <1>1, <1>4, QuietTyped DEF AttentionType
  <1>6. LeaseKept'
    <2>1. Free' = Free /\ Taken' = 0 /\ Asked' = Asked /\ Owed' = 0
      BY <1>1, QuietTyped DEF Free, Taken, Asked, Owed
    <2>2. c6'.leased <= c6.leased + Owed
      <3>1. CASE s /\ c4.leased
        <4>1. Owed = 1
          BY <1>1, <3>1 DEF LeaseKept, Owed
        <4> QED
          BY <1>1, <1>2, <1>4, <3>1, <4>1, AttentionTypes
      <3>2. CASE ~(s /\ c4.leased)
        BY <1>1, <1>2, <1>4, <3>2, Tokens, AttentionTypes
      <3> QED
        BY <3>1, <3>2
    <2>3. c6'.leased + Free' + Taken' + Asked' + Owed' <= 1 + c6'.amiss
      BY <1>1, <1>4, <2>1, <2>2, Tokens, AttentionTypes DEF LeaseKept, Tallies
    <2> QED
      BY <1>1, <2>3, QuietTyped DEF LeaseKept
  <1>7. CallKept'
    BY <1>1, <1>4, QuietTyped DEF CallKept, Explained
  <1> QED
    BY <1>5, <1>6, <1>7 DEF AttentionInv

\* What becomes of a failure is decided; a person is called only for a boundary
\* that was met again under its claim.
LEMMA AttentionDecides == AttentionInv /\ Attention!Decide => AttentionInv'
  <1> SUFFICES ASSUME AttentionInv, Attention!Decide PROVE AttentionInv'
    OBVIOUS
  <1>1. AttentionType /\ LeaseKept /\ CallKept /\ UNCHANGED <<c2, c3, c5>> /\ c4.phase = "summary"
    BY DEF AttentionInv, Attention!Decide
  \* What every branch shares.
  <1>2. ASSUME c1' \in Ledgers, c4' \in Rounds, c6' \in Tallies,
               c6'.leased = c6.leased, c6'.amiss = c6.amiss, c6'.runs = c6.runs,
               c4'.id = c4.id, c4'.claim = c4.claim, c4'.leased = c4.leased, c4'.started = c4.started,
               c4'.forced = c4.forced,
               c4'.leasing => c4'.phase = "persist" /\ Attention!Leased("retry"),
               c4'.phase \in {"persist", "calm", "pending"},
               c4'.phase = "pending" => /\ c4'.started /\ c4'.result = "auth"
                                        /\ c4'.plan.pending /\ c4'.plan.boundary = c4'.claim.boundary,
               c1' = c1 \/ c1'.owner = 0,
               c5.hard = "loop" => c1' = c1 /\ c4'.phase = "persist" /\ c4'.plan = c2.attention
        PROVE  AttentionInv'
    <2>1. AttentionType'
      BY <1>1, <1>2 DEF AttentionType
    <2>2. LeaseKept'
      <3>1. Free' = Free /\ Taken' = 0 /\ Asked' = Asked /\ Owed' = Owed
        BY <1>1, <1>2 DEF Free, Taken, Asked, Owed
      <3>2. c6'.leased + Free' + Taken' + Asked' + Owed' <= 1 + c6'.amiss
        BY <1>1, <1>2, <3>1, Tokens, AttentionTypes DEF LeaseKept
      <3>3. Attention!Leased("retry") => ~c4.forced /\ c2.lease \in {"none", "deferred"}
        BY <1>1 DEF Attention!Leased, Attention!AlreadyIssued, AttentionType, Notes
      <3> QED
        BY <1>1, <1>2, <3>2, <3>3 DEF LeaseKept
    <2>3. CallKept'
      BY <1>1, <1>2, AttentionTypes DEF CallKept, Explained
    <2> QED
      BY <2>1, <2>2, <2>3 DEF AttentionInv
  <1>3. ASSUME NEW a \in Attentions
        PROVE  LET new == Attention!Planned(a, FALSE) IN
               /\ new \in Rounds /\ new.phase = "persist" /\ new.plan = a /\ ~new.leasing
               /\ new.id = c4.id /\ new.claim = c4.claim /\ new.leased = c4.leased /\ new.started = c4.started
               /\ new.forced = c4.forced /\ new.result = c4.result
               /\ \A p \in RoundPhases :
                     LET at == [new EXCEPT !.phase = p] IN
                     /\ at \in Rounds /\ at.phase = p /\ at.plan = a /\ ~at.leasing
                     /\ at.id = c4.id /\ at.claim = c4.claim /\ at.leased = c4.leased /\ at.started = c4.started
                     /\ at.forced = c4.forced /\ at.result = c4.result
    BY <1>1, AttentionTypes DEF Attention!Planned, Rounds, RoundPhases
  <1>4. c5.hard = "loop" => ~Attention!Escalates /\ c4.result # "ok"
    BY <1>1 DEF CallKept, Attention!Escalates
  <1>5. CASE ~Attention!Escalates /\ c4.result # "ok" /\ c4' = Attention!Planned(c2.attention, FALSE) /\ UNCHANGED <<c1, c6>>
    <2>1. c2.attention \in Attentions
      BY <1>1, AttentionTypes
    <2> QED
      BY <1>1, <1>2, <1>3, <1>5, <2>1, AttentionTypes
  <1>6. CASE c4.result = "ok" /\ c4' = [Attention!Planned(c2.attention, FALSE) EXCEPT !.phase = "calm"] /\ UNCHANGED <<c1, c6>>
    <2>1. c2.attention \in Attentions /\ "calm" \in RoundPhases
      BY <1>1, AttentionTypes DEF RoundPhases
    <2> QED
      BY <1>1, <1>2, <1>3, <1>4, <1>6, <2>1, AttentionTypes
  <1>7. CASE /\ Attention!Escalates /\ Attention!Reproduced /\ UNCHANGED <<c1, c6>>
             /\ c4' = [Attention!Planned([c2.attention EXCEPT !.pending = TRUE, !.recovery = 0], FALSE) EXCEPT !.phase = "pending"]
    <2> DEFINE a == [c2.attention EXCEPT !.pending = TRUE, !.recovery = 0]
    <2>1. a \in Attentions /\ a.pending /\ a.boundary = c2.attention.boundary /\ "pending" \in RoundPhases
      BY <1>1, AttentionTypes DEF Attentions, RoundPhases
    <2>2. c4.claim.boundary = c2.attention.boundary /\ c4.started /\ c4.result = "auth"
      BY <1>7 DEF Attention!Reproduced
    <2>3. c4' = [Attention!Planned(a, FALSE) EXCEPT !.phase = "pending"]
      BY <1>7
    <2> HIDE DEF a
    <2>4. /\ c4' \in Rounds /\ c4'.phase = "pending" /\ c4'.plan = a /\ ~c4'.leasing
          /\ c4'.id = c4.id /\ c4'.claim = c4.claim /\ c4'.leased = c4.leased /\ c4'.started = c4.started
          /\ c4'.forced = c4.forced /\ c4'.result = c4.result
      BY <1>3, <2>1, <2>3
    <2>5. c5.hard # "loop" /\ c1 \in Ledgers /\ c6 \in Tallies
      BY <1>1, <1>4, <1>7, AttentionTypes
    <2> QED
      BY <1>2, <1>7, <2>1, <2>2, <2>4, <2>5
  <1>8. ASSUME Attention!Escalates, c4' = Attention!ToRetry, c1' = c1, c6' \in Tallies, c6'.leased = c6.leased,
               c6'.amiss = c6.amiss, c6'.runs = c6.runs
        PROVE  AttentionInv'
    BY <1>1, <1>2, <1>4, <1>8, RetryTyped, AttentionTypes
  <1>9. ASSUME Attention!Escalates, NEW l \in Ledgers, c1' = l, c1' = c1 \/ c1'.owner = 0,
               c4' = Attention!ToChallenge(l), c6' \in Tallies, c6'.leased = c6.leased, c6'.amiss = c6.amiss,
               c6'.runs = c6.runs
        PROVE  AttentionInv'
    <2> DEFINE a == [Attention!Calm EXCEPT !.disposition = "challenge", !.gen = l.gen, !.boundary = l.boundary]
    <2>1. a \in Attentions
      BY QuietTyped DEF Attentions, Ledgers
    <2>2. c4' = Attention!Planned(a, FALSE)
      BY <1>9 DEF Attention!ToChallenge
    <2> HIDE DEF a
    <2>3. /\ c4' \in Rounds /\ c4'.phase = "persist" /\ ~c4'.leasing
          /\ c4'.id = c4.id /\ c4'.claim = c4.claim /\ c4'.leased = c4.leased /\ c4'.started = c4.started
          /\ c4'.forced = c4.forced
      BY <1>3, <2>1, <2>2
    <2>4. c5.hard # "loop" /\ c1' \in Ledgers
      BY <1>4, <1>9
    <2> QED
      BY <1>2, <1>9, <2>3, <2>4
  <1>10. Attention!NewChallenge \in Ledgers /\ Attention!NewChallenge.owner = 0
    <2>1. c1.gen + 1 \in Nat /\ c4.seen \in Marks /\ c5.head \in Nat
      BY <1>1 DEF AttentionType, Ledgers, Rounds, LabelledPulls
    <2> QED
      BY <2>1 DEF Attention!NewChallenge, Ledgers
  <1>11. CASE Attention!Escalates /\ ~Attention!Reproduced /\ (c4.result # "auth" \/ ~c4.started)
              /\ c4' = Attention!ToRetry /\ UNCHANGED <<c1, c6>>
    BY <1>1, <1>8, <1>11, AttentionTypes
  <1>12. ASSUME Attention!Escalates, NEW ok \in BOOLEAN, Attention!Try(ok),
                \/ c4' = Attention!ToRetry /\ UNCHANGED c1
                \/ c4' = Attention!ToChallenge(c1) /\ UNCHANGED c1
                \/ c1' = Attention!NewChallenge /\ c4' = Attention!ToChallenge(Attention!NewChallenge)
         PROVE  AttentionInv'
    <2>1. c6' \in Tallies /\ c6'.leased = c6.leased /\ c6'.amiss = c6.amiss /\ c6'.runs = c6.runs
      BY <1>1, <1>12, TryTyped, AttentionTypes
    <2>2. CASE c4' = Attention!ToRetry /\ UNCHANGED c1
      BY <1>8, <1>12, <2>1, <2>2
    <2>3. CASE c4' = Attention!ToChallenge(c1) /\ UNCHANGED c1
      BY <1>1, <1>9, <1>12, <2>1, <2>3, AttentionTypes
    <2>4. CASE c1' = Attention!NewChallenge /\ c4' = Attention!ToChallenge(Attention!NewChallenge)
      BY <1>9, <1>10, <1>12, <2>1, <2>4
    <2> QED
      BY <1>12, <2>2, <2>3, <2>4
  <1> QED
    BY <1>5, <1>6, <1>7, <1>11, <1>12, Zenon DEF Attention!Decide

\* What is stored is a note, and its lease follows from the round.
LEMMA StoredTyped ==
    ASSUME AttentionType
    PROVE  /\ Attention!Stored \in Notes /\ Attention!Stored.attention = c4.plan
           /\ Attention!Stored.lease = Attention!LeaseAfter(c4.leasing)
  <1>1. Attention!LeaseAfter(c4.leasing) \in {"none", "issued", "consumed", "deferred"}
    BY DEF Attention!LeaseAfter, AttentionType, Notes
  <1> QED
    BY <1>1, AttentionTypes DEF Attention!Stored, Notes

\* A round that went well takes its calls back.
LEMMA AttentionCalms == AttentionInv /\ Attention!Calmed => AttentionInv'
  <1> SUFFICES ASSUME AttentionInv, Attention!Calmed PROVE AttentionInv'
    OBVIOUS
  <1>1. AttentionType /\ LeaseKept /\ CallKept /\ UNCHANGED <<c1, c2, c3>> /\ c4.phase = "calm" /\ c5.hard # "loop"
    BY DEF AttentionInv, Attention!Calmed, CallKept
  <1>2. PICK ok \in BOOLEAN :
           /\ Attention!Try(ok \/ ~Attention!Cleared)
           /\ c5' = IF ok /\ Attention!Cleared THEN [c5 EXCEPT !.soft = FALSE] ELSE c5
           /\ c4' = [c4 EXCEPT !.phase = "persist",
                         !.plan = IF ~Attention!Cleared THEN @ ELSE IF ok THEN Attention!Calm
                                  ELSE IF Attention!Challenged(@) THEN [@ EXCEPT !.pending = TRUE] ELSE @]
    BY DEF Attention!Calmed
  <1> DEFINE plan == IF ~Attention!Cleared THEN c4.plan ELSE IF ok THEN Attention!Calm
                     ELSE IF Attention!Challenged(c4.plan) THEN [c4.plan EXCEPT !.pending = TRUE] ELSE c4.plan
  <1>3. plan \in Attentions
    <2>1. [c4.plan EXCEPT !.pending = TRUE] \in Attentions
      BY <1>1, AttentionTypes DEF Attentions
    <2> QED
      BY <1>1, <2>1, AttentionTypes, QuietTyped
  <1>4. c4' = [c4 EXCEPT !.phase = "persist", !.plan = plan]
    BY <1>2
  <1> HIDE DEF plan
  <1>5. /\ c4' \in Rounds /\ c4'.phase = "persist" /\ c4'.leasing = c4.leasing /\ c4'.leased = c4.leased
        /\ c4'.started = c4.started /\ c4'.id = c4.id /\ c4'.claim = c4.claim
    BY <1>1, <1>3, <1>4, AttentionTypes DEF Rounds, RoundPhases
  <1>6. c5' \in LabelledPulls /\ c5'.hard = c5.hard
    BY <1>1, <1>2 DEF AttentionType, LabelledPulls
  <1>7. c6' \in Tallies /\ c6'.leased = c6.leased /\ c6'.amiss = c6.amiss /\ c6'.runs = c6.runs
    BY <1>1, <1>2, TryTyped DEF AttentionType
  <1>8. AttentionType'
    BY <1>1, <1>5, <1>6, <1>7 DEF AttentionType
  <1>9. LeaseKept'
    <2>1. ~c4.leasing
      BY <1>1 DEF LeaseKept
    <2>2. Free' = Free /\ Taken' = Taken /\ Asked' = Asked /\ Owed' = Owed
      BY <1>1, <1>5, <2>1 DEF Free, Taken, Asked, Owed
    <2>3. c6'.leased + Free' + Taken' + Asked' + Owed' <= 1 + c6'.amiss
      BY <1>1, <1>7, <2>2 DEF LeaseKept
    <2> QED
      BY <1>1, <1>5, <2>1, <2>3 DEF LeaseKept
  <1>10. CallKept'
    BY <1>1, <1>5, <1>6, <1>7 DEF CallKept
  <1> QED
    BY <1>8, <1>9, <1>10 DEF AttentionInv

\* The action is written down, and then the label is set.
LEMMA AttentionCalls == AttentionInv /\ (Attention!PersistPending \/ Attention!Call) => AttentionInv'
  <1> SUFFICES ASSUME AttentionInv, Attention!PersistPending \/ Attention!Call PROVE AttentionInv'
    OBVIOUS
  <1>1. AttentionType /\ LeaseKept /\ CallKept /\ UNCHANGED <<c1, c3>> /\ c4.phase \in {"pending", "call"} /\ ~c4.leasing
    BY DEF AttentionInv, Attention!PersistPending, Attention!Call, LeaseKept
  <1>2. ASSUME NEW p \in RoundPhases
        PROVE  LET new == [c4 EXCEPT !.phase = p] IN
               /\ new \in Rounds /\ new.phase = p /\ new.leasing = c4.leasing /\ new.leased = c4.leased
               /\ new.started = c4.started /\ new.id = c4.id /\ new.claim = c4.claim /\ new.plan = c4.plan
    BY <1>1, AttentionTypes DEF Rounds
  <1>3. CASE Attention!PersistPending
    <2>1. PICK ok \in BOOLEAN :
             /\ Attention!Try(ok) /\ c2' = (IF ok THEN Attention!Stored ELSE c2)
             /\ c4' = IF ok THEN [c4 EXCEPT !.phase = "call"] ELSE Attention!Quiet
      BY <1>3 DEF Attention!PersistPending
    <2>2. c6' \in Tallies /\ c6'.leased = c6.leased /\ c6'.amiss = c6.amiss /\ c6'.runs = c6.runs
      BY <1>1, <2>1, TryTyped DEF AttentionType
    <2>3. c5' = c5 /\ c5.hard # "loop" /\ c4.started /\ c4.result = "auth" /\ c4.plan.pending
          /\ c4.plan.boundary = c4.claim.boundary
      BY <1>1, <1>3 DEF Attention!PersistPending, CallKept, LeaseKept
    <2>4. CASE ok
      <3>1. /\ c4' \in Rounds /\ c4'.phase = "call" /\ ~c4'.leasing /\ c4'.started
            /\ c4'.id = c4.id /\ c4'.claim = c4.claim /\ c4'.plan = c4.plan
        BY <1>1, <1>2, <2>1, <2>3, <2>4 DEF RoundPhases
      <3>2. c2' \in Notes /\ c2'.attention = c4.plan /\ c2'.lease = Attention!LeaseAfter(c4.leasing)
        BY <1>1, <2>1, <2>4, StoredTyped
      <3>3. AttentionType'
        BY <1>1, <2>2, <2>3, <3>1, <3>2 DEF AttentionType
      <3>4. Free' <= Free /\ Taken' = 0 /\ Asked' = Asked /\ Owed' = 0
        <4>1. Attention!LeaseAfter(c4.leasing) = c2.lease \/ Attention!LeaseAfter(c4.leasing) = "consumed"
          BY <1>1, <2>3 DEF Attention!LeaseAfter
        <4> QED
          BY <1>1, <3>1, <3>2, <4>1 DEF Free, Taken, Asked, Owed
      <3>5. c6'.leased + Free' + Taken' + Asked' + Owed' <= 1 + c6'.amiss
        BY <1>1, <2>2, <3>4, Tokens, AttentionTypes DEF LeaseKept
      <3>6. LeaseKept'
        BY <1>1, <3>1, <3>5 DEF LeaseKept
      <3>7. CallKept'
        BY <1>1, <2>2, <2>3, <3>1, <3>2 DEF CallKept
      <3> QED
        BY <3>3, <3>6, <3>7 DEF AttentionInv
    <2>5. CASE ~ok
      <3>1. c2' = c2 /\ c4' = Attention!Quiet
        BY <2>1, <2>5
      <3>2. AttentionType'
        BY <1>1, <2>2, <2>3, <3>1, QuietTyped DEF AttentionType
      <3>3. Free' = Free /\ Taken' = 0 /\ Asked' = Asked /\ Owed' = 0
        BY <1>1, <3>1, QuietTyped DEF Free, Taken, Asked, Owed
      <3>4. c6'.leased + Free' + Taken' + Asked' + Owed' <= 1 + c6'.amiss
        BY <1>1, <2>2, <3>3, Tokens, AttentionTypes DEF LeaseKept
      <3>5. LeaseKept'
        BY <1>1, <3>1, <3>4, QuietTyped DEF LeaseKept
      <3>6. CallKept'
        BY <1>1, <2>2, <2>3, <3>1, QuietTyped DEF CallKept
      <3> QED
        BY <3>2, <3>5, <3>6 DEF AttentionInv
    <2> QED
      BY <2>4, <2>5
  <1>4. CASE Attention!Call
    <2>1. PICK ok \in BOOLEAN :
             /\ Attention!Try(ok)
             /\ c5' = (IF ok /\ c5.hard = "none" THEN [c5 EXCEPT !.hard = "loop"] ELSE c5)
             /\ c4' = [c4 EXCEPT !.phase = IF ok THEN "confirm" ELSE "persist"]
      BY <1>4 DEF Attention!Call
    <2>2. c6' \in Tallies /\ c6'.leased = c6.leased /\ c6'.amiss = c6.amiss /\ c6'.runs = c6.runs
      BY <1>1, <2>1, TryTyped DEF AttentionType
    <2>3. c2' = c2 /\ c4.phase = "call" /\ c2.attention.pending /\ c4.plan.pending
          /\ c4.plan.boundary = c4.claim.boundary
      BY <1>1, <1>4 DEF Attention!Call, CallKept
    <2>4. PICK p \in {"confirm", "persist"} : c4' = [c4 EXCEPT !.phase = p]
      BY <2>1
    <2>5. /\ c4' \in Rounds /\ c4'.phase \in {"confirm", "persist"} /\ ~c4'.leasing /\ c4'.leased = c4.leased
          /\ c4'.started = c4.started /\ c4'.id = c4.id /\ c4'.claim = c4.claim /\ c4'.plan = c4.plan
      BY <1>1, <1>2, <2>4 DEF RoundPhases
    <2>6. c5' \in LabelledPulls
      BY <1>1, <2>1 DEF AttentionType, LabelledPulls
    <2>7. AttentionType'
      BY <1>1, <2>2, <2>3, <2>5, <2>6 DEF AttentionType
    <2>8. Free' = Free /\ Taken' = 0 /\ Asked' = Asked /\ Owed' = Owed
      BY <1>1, <2>3, <2>5 DEF Free, Taken, Asked, Owed
    <2>9. c6'.leased + Free' + Taken' + Asked' + Owed' <= 1 + c6'.amiss
      BY <1>1, <2>2, <2>8, Tokens, AttentionTypes DEF LeaseKept
    <2>10. LeaseKept'
      BY <1>1, <2>3, <2>5, <2>9 DEF LeaseKept
    <2>11. CallKept'
      BY <1>1, <2>2, <2>3, <2>5 DEF CallKept, Explained
    <2> QED
      BY <2>7, <2>10, <2>11 DEF AttentionInv
  <1> QED
    BY <1>3, <1>4

\* The ledger confirms the boundary of the round that calls.
LEMMA AttentionConfirms == AttentionInv /\ Attention!Confirm => AttentionInv'
  <1> SUFFICES ASSUME AttentionInv, Attention!Confirm PROVE AttentionInv'
    OBVIOUS
  <1>1. AttentionType /\ LeaseKept /\ CallKept /\ UNCHANGED <<c2, c3, c5>> /\ c4.phase = "confirm" /\ ~c4.leasing
        /\ c2.attention.pending /\ c4.plan.pending /\ c4.plan.boundary = c4.claim.boundary
    BY DEF AttentionInv, Attention!Confirm, LeaseKept, CallKept
  <1>2. PICK ok \in BOOLEAN :
           /\ Attention!Try(ok)
           /\ c1' = (IF ok /\ Attention!Confirmable THEN [c1 EXCEPT !.status = "confirmed"] ELSE c1)
           /\ c4' = [c4 EXCEPT !.phase = "persist",
                         !.plan = IF Attention!Agreed(ok) THEN [@ EXCEPT !.disposition = "human", !.pending = FALSE] ELSE @]
    BY DEF Attention!Confirm
  <1> DEFINE plan == IF Attention!Agreed(ok) THEN [c4.plan EXCEPT !.disposition = "human", !.pending = FALSE] ELSE c4.plan
  <1>3. plan \in Attentions /\ plan.boundary = c4.plan.boundary
        /\ (~plan.pending => Attention!Agreed(ok) /\ plan.disposition = "human")
    <2>1. CASE Attention!Agreed(ok)
      <3>1. plan = [c4.plan EXCEPT !.disposition = "human", !.pending = FALSE]
        BY <2>1
      <3> HIDE DEF plan
      <3> QED
        BY <1>1, <2>1, <3>1, AttentionTypes DEF Attentions
    <2>2. CASE ~Attention!Agreed(ok)
      <3>1. plan = c4.plan
        BY <2>2
      <3> HIDE DEF plan
      <3> QED
        BY <1>1, <3>1, AttentionTypes
    <2> QED
      BY <2>1, <2>2
  <1>4. c4' = [c4 EXCEPT !.phase = "persist", !.plan = plan]
    BY <1>2
  <1> HIDE DEF plan
  <1>5. /\ c4' \in Rounds /\ c4'.phase = "persist" /\ c4'.leasing = c4.leasing /\ c4'.leased = c4.leased
        /\ c4'.started = c4.started /\ c4'.id = c4.id /\ c4'.claim = c4.claim /\ c4'.plan = plan
    BY <1>1, <1>3, <1>4, AttentionTypes DEF Rounds, RoundPhases
  <1>6. /\ c1' \in Ledgers /\ c1'.owner = c1.owner /\ c1'.boundary = c1.boundary
        /\ c1'.status \in {c1.status, "confirmed"}
    BY <1>1, <1>2, AttentionTypes DEF Ledgers
  <1>7. c6' \in Tallies /\ c6'.leased = c6.leased /\ c6'.amiss = c6.amiss /\ c6'.runs = c6.runs
    BY <1>1, <1>2, TryTyped DEF AttentionType
  <1>8. Explained(c4.plan)'
    <2>1. CASE Attention!Agreed(ok)
      <3>1. c1.owner = c4.id /\ c1'.status = "confirmed"
        BY <1>1, <1>2, <2>1, AttentionTypes DEF Attention!Agreed, Attention!Confirmable, Ledgers
      <3>2. c1.boundary = c4.claim.boundary
        BY <1>1, <3>1 DEF CallKept
      <3> QED
        BY <1>1, <1>3, <1>5, <1>6, <3>1, <3>2 DEF Explained
    <2>2. CASE ~Attention!Agreed(ok)
      BY <1>3, <1>5, <2>2 DEF Explained
    <2> QED
      BY <2>1, <2>2
  <1>9. AttentionType'
    BY <1>1, <1>5, <1>6, <1>7 DEF AttentionType
  <1>10. LeaseKept'
    <2>1. Free' = Free /\ Taken' = Taken /\ Asked' = Asked /\ Owed' = Owed
      BY <1>1, <1>5 DEF Free, Taken, Asked, Owed
    <2>2. c6'.leased + Free' + Taken' + Asked' + Owed' <= 1 + c6'.amiss
      BY <1>1, <1>7, <2>1 DEF LeaseKept
    <2> QED
      BY <1>1, <1>5, <2>2 DEF LeaseKept
  <1>11. CallKept'
    BY <1>1, <1>5, <1>6, <1>7, <1>8 DEF CallKept, Explained
  <1> QED
    BY <1>9, <1>10, <1>11 DEF AttentionInv

\* The summary is stored; what becomes of the lease goes with it.
LEMMA AttentionPersists == AttentionInv /\ Attention!Persist => AttentionInv'
  <1> SUFFICES ASSUME AttentionInv, Attention!Persist PROVE AttentionInv'
    OBVIOUS
  <1>1. AttentionType /\ LeaseKept /\ CallKept /\ UNCHANGED <<c1, c3, c5>> /\ c4.phase = "persist" /\ ~c3.leased
    BY DEF AttentionInv, Attention!Persist, LeaseKept
  <1>2. PICK ok \in BOOLEAN :
           /\ c6' = [c6 EXCEPT !.faults = IF ok THEN @ ELSE @ + 1,
                               !.leased = IF ok /\ Attention!Stored.lease = "none" THEN 0 ELSE @,
                               !.amiss = IF ok /\ Attention!GivesBack /\ ~c4.leased THEN @ + 1 ELSE @]
           /\ c2' = (IF ok THEN Attention!Stored ELSE c2)
           /\ c4' = IF ok /\ Attention!Escalates THEN [c4 EXCEPT !.phase = "label"] ELSE Attention!Quiet
    BY DEF Attention!Persist
  <1> DEFINE f == IF ok THEN c6.faults ELSE c6.faults + 1
             l == IF ok /\ Attention!Stored.lease = "none" THEN 0 ELSE c6.leased
             m == IF ok /\ Attention!GivesBack /\ ~c4.leased THEN c6.amiss + 1 ELSE c6.amiss
  <1>3. f \in Nat /\ l \in Nat /\ m \in Nat /\ l <= c6.leased /\ m >= c6.amiss
    BY <1>1, AttentionTypes DEF Tallies
  <1>4. c6' = [c6 EXCEPT !.faults = f, !.leased = l, !.amiss = m]
    BY <1>2
  <1>5. /\ ok /\ Attention!Stored.lease = "none" => l = 0
        /\ ok /\ Attention!GivesBack /\ ~c4.leased => m = c6.amiss + 1
    OBVIOUS
  <1> HIDE DEF f, l, m
  <1>6. c6' \in Tallies /\ c6'.leased = l /\ c6'.amiss = m /\ c6'.runs = c6.runs
    BY <1>1, <1>3, <1>4, AttentionTypes DEF Tallies
  <1>7. /\ c4' \in Rounds /\ c4'.phase \in {"label", "idle"}
        /\ \/ c4' = Attention!Quiet
           \/ c4'.phase = "label" /\ c4'.leasing = c4.leasing /\ c4'.id = c4.id /\ c4'.claim = c4.claim
              /\ c4'.forced = c4.forced /\ ok
    <2>1. CASE ok /\ Attention!Escalates
      <3>1. c4' = [c4 EXCEPT !.phase = "label"]
        BY <1>2, <2>1
      <3> QED
        BY <1>1, <2>1, <3>1, AttentionTypes DEF Rounds, RoundPhases
    <2>2. CASE ~(ok /\ Attention!Escalates)
      <3>1. c4' = Attention!Quiet
        BY <1>2, <2>2
      <3> QED
        BY <3>1, QuietTyped
    <2> QED
      BY <2>1, <2>2
  <1>8. c2' \in Notes /\ (ok => c2'.attention = c4.plan /\ c2'.lease = Attention!LeaseAfter(c4.leasing))
        /\ (~ok => c2' = c2)
    BY <1>1, <1>2, StoredTyped, AttentionTypes
  <1>9. AttentionType'
    BY <1>1, <1>6, <1>7, <1>8 DEF AttentionType
  <1>10. LeaseKept'
    <2>1. Asked = 0 /\ Asked' = 0 /\ Owed' = 0 /\ Taken = 0
      BY <1>1, <1>7, QuietTyped DEF Asked, Owed, Taken
    <2>2. Taken' \in {0, 1} /\ (Taken' = 1 => c4.leasing /\ ok)
      BY <1>7, QuietTyped, Tokens DEF Taken
    <2>3. c6'.leased + Free' + Taken' <= 1 + c6'.amiss
      <3> DEFINE lease == Attention!LeaseAfter(c4.leasing)
      <3>1. c6.leased + Free + Owed <= 1 + c6.amiss /\ Free \in {0, 1} /\ Owed \in {0, 1} /\ Free' \in {0, 1}
        BY <1>1, <2>1, Tokens, AttentionTypes DEF LeaseKept
      <3>2. CASE ~ok
        <4>1. Free' = Free /\ Taken' = 0
          BY <1>8, <2>2, <3>2 DEF Free
        <4> QED
          BY <1>1, <1>3, <1>6, <3>1, <4>1, AttentionTypes
      <3>3. CASE ok /\ Attention!GivesBack
        <4>1. lease = "deferred" /\ ~c4.leasing /\ Free = 0
          BY <1>1, <3>3 DEF Attention!GivesBack, Attention!LeaseAfter, LeaseKept, Free
        <4>2. Taken' = 0
          BY <2>2, <4>1
        <4>3. CASE c4.leased
          <5>1. Owed = 1
            BY <1>1, <3>3, <4>3 DEF Owed, Attention!GivesBack
          <5> QED
            BY <1>1, <1>3, <1>6, <3>1, <4>1, <4>2, <5>1, AttentionTypes DEF Free, Taken
        <4>4. CASE ~c4.leased
          <5>1. m = c6.amiss + 1
            BY <1>5, <3>3, <4>4
          <5> QED
            BY <1>1, <1>3, <1>6, <3>1, <4>1, <4>2, <5>1, AttentionTypes DEF Free, Taken
        <4> QED
          BY <4>3, <4>4
      <3>4. CASE ok /\ ~Attention!GivesBack /\ lease = "none"
        <4>1. l = 0
          BY <1>1, <1>5, <3>4, StoredTyped
        <4>2. ~c4.leasing
          BY <1>1, <3>4 DEF Attention!LeaseAfter, LeaseKept
        <4>3. Taken' = 0
          BY <2>2, <4>2
        <4> QED
          BY <1>1, <1>3, <1>6, <3>1, <4>1, <4>3, AttentionTypes DEF Free, Taken
      <3>5. CASE ok /\ ~Attention!GivesBack /\ lease # "none"
        <4>1. Free' + Taken' <= Free
          <5>1. CASE c4.leasing
            <6>1. Free = 1 /\ lease = "issued"
              BY <1>1, <5>1 DEF Free, LeaseKept, Attention!LeaseAfter
            <6> QED
              BY <1>8, <2>2, <3>5, <6>1 DEF Free, Taken
          <5>2. CASE ~c4.leasing
            <6>1. lease = c2.lease \/ lease = "consumed"
              BY <3>5, <5>2 DEF Attention!LeaseAfter, Attention!GivesBack
            <6>2. Free' <= Free
              BY <1>8, <3>5, <6>1 DEF Free
            <6>3. Taken' = 0
              BY <2>2, <5>2
            <6> QED
              BY <3>1, <6>2, <6>3 DEF Free, Taken
          <5> QED
            BY <5>1, <5>2
        <4> QED
          BY <1>1, <1>3, <1>6, <2>2, <3>1, <4>1, AttentionTypes DEF Free, Taken
      <3> HIDE DEF lease
      <3> QED
        BY <3>2, <3>3, <3>4, <3>5
    <2>4. c6'.leased + Free' + Taken' + Asked' + Owed' <= 1 + c6'.amiss
      BY <1>3, <1>6, <2>1, <2>3, Tokens DEF Free, Taken, Asked, Owed
    <2>5. c4'.leasing => c4'.phase \in {"persist", "label", "dispatch"} /\ ~c4'.forced
      BY <1>1, <1>7, QuietTyped DEF LeaseKept
    <2> QED
      BY <1>1, <1>7, <2>4, <2>5 DEF LeaseKept
  <1>11. CallKept'
    <2>1. c5'.hard = "loop" => Explained(c2.attention)'
      BY <1>1, <1>8 DEF CallKept, Explained
    <2>2. c4'.phase # "idle" => c4'.id = c4.id /\ c4'.claim = c4.claim
      BY <1>7, QuietTyped
    <2> QED
      BY <1>1, <1>6, <1>7, <2>1, <2>2 DEF CallKept
  <1> QED
    BY <1>9, <1>10, <1>11 DEF AttentionInv

\* The last label, and the forced retry.
LEMMA AttentionEnds ==
    AttentionInv /\ (\/ Attention!Label
                     \/ \E delivered, answered \in BOOLEAN : Attention!Dispatch(delivered, answered)) => AttentionInv'
  <1> SUFFICES ASSUME AttentionInv,
                      \/ Attention!Label
                      \/ \E delivered, answered \in BOOLEAN : Attention!Dispatch(delivered, answered)
               PROVE  AttentionInv'
    OBVIOUS
  <1>1. AttentionType /\ LeaseKept /\ CallKept /\ UNCHANGED c1 /\ c4.phase \in {"label", "dispatch"} /\ ~c3.leased
    BY DEF AttentionInv, Attention!Label, Attention!Dispatch, LeaseKept
  <1>2. CASE Attention!Label
    <2>1. PICK ok \in BOOLEAN :
             /\ Attention!Try(ok)
             /\ c5' = [c5 EXCEPT !.soft = IF ok /\ Attention!Challenged(c4.plan) THEN TRUE
                                          ELSE IF ok /\ Attention!Cleared THEN FALSE ELSE @]
      BY <1>2 DEF Attention!Label
    <2>2. UNCHANGED <<c2, c3>> /\ (c4' = [c4 EXCEPT !.phase = "dispatch"] \/ c4' = Attention!Quiet)
      BY <1>2 DEF Attention!Label
    <2>3. c6' \in Tallies /\ c6'.leased = c6.leased /\ c6'.amiss = c6.amiss /\ c6'.runs = c6.runs
      BY <1>1, <2>1, TryTyped DEF AttentionType
    <2>4. c5' \in LabelledPulls /\ c5'.hard = c5.hard
      <3> DEFINE s == IF ok /\ Attention!Challenged(c4.plan) THEN TRUE
                      ELSE IF ok /\ Attention!Cleared THEN FALSE ELSE c5.soft
      <3>1. s \in BOOLEAN
        BY <1>1 DEF AttentionType, LabelledPulls
      <3>2. c5' = [c5 EXCEPT !.soft = s]
        BY <2>1
      <3> HIDE DEF s
      <3> QED
        BY <1>1, <3>1, <3>2 DEF AttentionType, LabelledPulls
    <2>5. /\ c4' \in Rounds /\ c4'.phase \in {"dispatch", "idle"}
          /\ \/ c4' = Attention!Quiet
             \/ c4'.phase = "dispatch" /\ c4'.leasing = c4.leasing /\ c4'.id = c4.id /\ c4'.claim = c4.claim
                /\ c4'.forced = c4.forced
      <3>1. CASE c4' = [c4 EXCEPT !.phase = "dispatch"]
        BY <1>1, <3>1, AttentionTypes DEF Rounds, RoundPhases
      <3>2. CASE c4' = Attention!Quiet
        BY <3>2, QuietTyped
      <3> QED
        BY <2>2, <3>1, <3>2
    <2>6. AttentionType'
      BY <1>1, <2>2, <2>3, <2>4, <2>5 DEF AttentionType
    <2>7. LeaseKept'
      <3>1. Free' = Free /\ Taken' <= Taken /\ Asked' = Asked /\ Owed' = 0
        BY <1>1, <2>2, <2>5, QuietTyped DEF Free, Taken, Asked, Owed
      <3>2. c6'.leased + Free' + Taken' + Asked' + Owed' <= 1 + c6'.amiss
        BY <1>1, <2>3, <3>1, Tokens, AttentionTypes DEF LeaseKept
      <3>3. c4'.leasing => c4'.phase \in {"persist", "label", "dispatch"} /\ ~c4'.forced
        BY <1>1, <2>5, QuietTyped DEF LeaseKept
      <3> QED
        BY <1>1, <2>2, <2>5, <3>2, <3>3 DEF LeaseKept
    <2>8. CallKept'
      <3>1. c4'.phase # "idle" => c4'.id = c4.id /\ c4'.claim = c4.claim
        BY <2>5, QuietTyped
      <3> QED
        BY <1>1, <2>2, <2>3, <2>4, <2>5, <3>1 DEF CallKept, Explained
    <2> QED
      BY <2>6, <2>7, <2>8 DEF AttentionInv
  <1>3. ASSUME NEW delivered \in BOOLEAN, NEW answered \in BOOLEAN, Attention!Dispatch(delivered, answered)
        PROVE  AttentionInv'
    <2> DEFINE back == ~answered /\ c2.lease = "issued"
               f == IF answered THEN c6.faults ELSE c6.faults + 1
               m == IF back /\ (delivered \/ ~c4.leasing) THEN c6.amiss + 1 ELSE c6.amiss
    <2>1. c4.phase = "dispatch" /\ c4' = Attention!Quiet /\ c5' = c5 /\ (answered => delivered)
      BY <1>3 DEF Attention!Dispatch
    <2>2. c6' = [c6 EXCEPT !.faults = f, !.amiss = m]
      BY <1>3 DEF Attention!Dispatch
    <2>3. f \in Nat /\ m \in Nat /\ m >= c6.amiss
          /\ (back /\ (delivered \/ ~c4.leasing) => m = c6.amiss + 1)
      BY <1>1, AttentionTypes DEF Tallies
    <2> HIDE DEF f, m
    <2>4. c6' \in Tallies /\ c6'.leased = c6.leased /\ c6'.amiss = m /\ c6'.runs = c6.runs
      BY <1>1, <2>2, <2>3, AttentionTypes DEF Tallies
    <2>5. /\ c2' \in Notes /\ c2'.attention = c2.attention
          /\ c2'.lease = IF back THEN "deferred" ELSE c2.lease
      BY <1>1, <1>3 DEF Attention!Dispatch, AttentionType, Notes
    <2>6. /\ c3' \in Requests /\ (~delivered => c3' = c3)
          /\ (delivered => (c3'.leased <=> c4.leasing))
      <3>1. c4.leasing \in BOOLEAN /\ c3 \in Requests
        BY <1>1, AttentionTypes DEF Rounds
      <3>2. CASE delivered
        <4>1. c3' = [waits |-> TRUE, forced |-> TRUE, leased |-> c4.leasing, claim |-> Attention!NoClaim]
          BY <1>3, <3>2 DEF Attention!Dispatch
        <4> QED
          BY <3>1, <3>2, <4>1, QuietTyped DEF Requests
      <3>3. CASE ~delivered
        BY <1>3, <3>1, <3>3 DEF Attention!Dispatch
      <3> QED
        BY <3>2, <3>3
    <2>7. AttentionType'
      BY <1>1, <2>1, <2>4, <2>5, <2>6, QuietTyped DEF AttentionType
    <2>8. LeaseKept'
      <3>1. Asked = 0 /\ Owed = 0 /\ Owed' = 0 /\ Taken' = 0 /\ Taken = (IF c4.leasing THEN 1 ELSE 0)
        BY <1>1, <2>1, QuietTyped DEF Asked, Owed, Taken
      <3>2. Asked' = IF delivered THEN Taken ELSE 0
        BY <1>1, <2>6, <3>1 DEF Asked
      <3>3. Free' = IF back THEN Free + 1 ELSE Free
        BY <2>5, Tokens DEF Free
      <3>4. Free' + Asked' + c6.amiss <= Free + Taken + c6'.amiss
        <4>1. CASE ~back
          BY <1>1, <2>3, <2>4, <3>1, <3>2, <3>3, <4>1, Tokens, AttentionTypes
        <4>2. CASE back /\ (delivered \/ ~c4.leasing)
          <5>1. c6'.amiss = c6.amiss + 1
            BY <2>3, <2>4, <4>2
          <5> QED
            BY <1>1, <3>1, <3>2, <3>3, <4>2, <5>1, Tokens, AttentionTypes
        <4>3. CASE back /\ ~delivered /\ c4.leasing
          BY <1>1, <2>3, <2>4, <3>1, <3>2, <3>3, <4>3, Tokens, AttentionTypes
        <4> HIDE DEF back
        <4> QED
          BY <4>1, <4>2, <4>3
      <3>5. c6'.leased + Free' + Taken' + Asked' + Owed' <= 1 + c6'.amiss
        BY <1>1, <2>3, <2>4, <3>1, <3>4, Tokens, AttentionTypes DEF LeaseKept
      <3> QED
        BY <1>1, <2>1, <3>5, QuietTyped DEF LeaseKept
    <2>9. CallKept'
      BY <1>1, <2>1, <2>4, <2>5, QuietTyped DEF CallKept, Explained
    <2> QED
      BY <2>7, <2>8, <2>9 DEF AttentionInv
  <1> QED
    BY <1>2, <1>3

\* Each step around a failure keeps the invariant.
LEMMA AttentionStep == AttentionInv /\ [Attention!Next]_Attention!attentionVars => AttentionInv'
  <1> SUFFICES ASSUME AttentionInv, [Attention!Next]_Attention!attentionVars
               PROVE  AttentionInv'
    OBVIOUS
  <1>1. CASE UNCHANGED Attention!attentionVars
    BY <1>1 DEF Attention!attentionVars, AttentionInv, AttentionType, LeaseKept, CallKept, Explained,
           Free, Taken, Asked, Owed
  <1>2. ASSUME NEW s \in BOOLEAN, Attention!Die(s) PROVE AttentionInv'
    BY <1>2, AttentionDies
  <1>3. ASSUME NEW s \in BOOLEAN, NEW stop \in BOOLEAN, NEW result \in {"ok", "auth", "other", Attention!Nothing},
               Attention!Work(s, result, stop)
        PROVE  AttentionInv'
    BY <1>3, AttentionWorks DEF Attention!Nothing
  <1>4. CASE \/ Attention!Sweep \/ Attention!Begin \/ Attention!Decide \/ Attention!Calmed
             \/ Attention!PersistPending \/ Attention!Call \/ Attention!Confirm \/ Attention!Persist
             \/ Attention!Label \/ Attention!Reopen \/ Attention!Project \/ Attention!Push \/ Attention!Expire
    BY <1>4, AttentionSweeps, AttentionBegins, AttentionDecides, AttentionCalms, AttentionCalls,
       AttentionConfirms, AttentionPersists, AttentionEnds, AttentionReports, AttentionSurrounds
  <1>5. CASE \E delivered, answered \in BOOLEAN : Attention!Dispatch(delivered, answered)
    BY <1>5, AttentionEnds
  <1>6. CASE \E hard \in {"none", "person"} : Attention!PersonLabels(hard)
    BY <1>6, AttentionSurrounds
  <1> QED
    BY <1>1, <1>2, <1>3, <1>4, <1>5, <1>6, Zenon DEF Attention!Next

\* The first round is still to come.
LEMMA AttentionStart == Attention!Init => AttentionInv
  <1> SUFFICES ASSUME Attention!Init PROVE AttentionInv
    OBVIOUS
  <1>1. /\ c1 \in Ledgers /\ c1.owner = 0 /\ c2 \in Notes /\ c2.lease = "none"
        /\ c5 \in LabelledPulls /\ c5.hard = "none"
        /\ c6 \in Tallies /\ c6.leased = 0 /\ c6.amiss = 0 /\ c6.runs = 0
    BY QuietTyped DEF Attention!Init, Attention!Nothing, Ledgers, Notes, LabelledPulls, Tallies, Marks
  <1>2. c3 = Attention!NoRequest /\ c4 = Attention!Quiet
    BY DEF Attention!Init
  <1>3. AttentionType
    BY <1>1, <1>2, QuietTyped DEF AttentionType
  <1>4. LeaseKept
    BY <1>1, <1>2, QuietTyped DEF LeaseKept, Free, Taken, Asked, Owed
  <1>5. CallKept
    BY <1>1, <1>2, QuietTyped DEF CallKept
  <1> QED
    BY <1>3, <1>4, <1>5 DEF AttentionInv

LEMMA AttentionInvariance == Spec => [](Calling => AttentionInv)
  <1>1. Init /\ Calling => Attention!Init
    BY DEF Init, Calling
  <1>2. [Next]_<<part, cells>> => (Calling <=> Calling')
    BY DEF Next, Calling, cells
  <1>3. [Next]_<<part, cells>> /\ Calling => [Attention!Next]_Attention!attentionVars
    BY DEF Next, Calling, cells, Attention!attentionVars
  <1> QED
    BY <1>1, <1>2, <1>3, AttentionStart, AttentionStep, PTL DEF Spec

\* While the label that the loop set calls for a person, the note names the
\* action, and it is the person's only once the ledger confirmed that boundary
\* (updateKeepaliveLoopSummary, confirmChallenge).
THEOREM CallExplainedAlways == Spec => []CallExplained
  <1>1. (Calling => AttentionInv) => CallExplained
    BY DEF AttentionInv, CallKept, Explained, Calling, CallExplained, Attention!CallExplained
  <1> QED
    BY <1>1, AttentionInvariance, PTL

\* A terminal stop is followed by at most one forced execution under a lease,
\* and one more for each lease that was given back amiss
\* (updateKeepaliveLoopSummary).
THEOREM LeaseUsedOnceAlways == Spec => []LeaseUsedOnce
  <1>1. AttentionInv => c6.leased <= 1 + c6.amiss
    BY Tokens, AttentionTypes DEF AttentionInv, LeaseKept
  <1>2. (Calling => AttentionInv) => LeaseUsedOnce
    BY <1>1 DEF Calling, LeaseUsedOnce, Attention!LeaseUsedOnce
  <1> QED
    BY <1>2, AttentionInvariance, PTL

-----------------------------------------------------------------------------
(* Delegation: c1 holds the record of each agent, c2 the labels, c3 what    *)
(* the state comment remembers, c4 the round, c6 who can run, and bounds.   *)

Delegating == part = "agents"

Team == Agents!Agents
AgentReasons == {"none", "pending", "progressed", "quiet", "limited", "install"}
AgentRecord == [reason : AgentReasons, at : Nat, old : BOOLEAN]
AgentRecords == [Team -> AgentRecord]
AgentSupply == [able : SUBSET Team, clock : Nat, faults : Nat, changes : Nat]
\* The fields of a round, whatever they hold.
Turn(t) ==
    t = [phase |-> t.phase, agent |-> t.agent, from |-> t.from, fallback |-> t.fallback,
         auto |-> t.auto, switch |-> t.switch, chosen |-> t.chosen, result |-> t.result]
DelegationInv ==
    /\ c1 \in AgentRecords /\ c6 \in AgentSupply /\ Turn(c4)
    /\ Agents!ChoiceStands

\* There is a least of some numbers.
LEMMA LeastOf ==
    ASSUME NEW S, S \subseteq Nat, S # {}
    PROVE  \E m \in S : \A x \in S : m <= x
  <1> DEFINE R == OpToRel(<, Nat)
  <1>1. PICK m \in S : \A y \in S : ~(<<y, m>> \in R)
    BY WFMin, NatLessThanWellFounded
  <1>2. ASSUME NEW y \in S PROVE m <= y
    <2>1. y \in Nat /\ m \in Nat
      OBVIOUS
    <2>2. ~(y < m)
      BY <1>1, <2>1 DEF OpToRel
    <2> QED
      BY <2>1, <2>2
  <1> QED
    BY <1>2

\* The first of some agents is one of them.
LEMMA FirstAgent ==
    ASSUME NEW S, S \subseteq Team, S # {}
    PROVE  Agents!FirstOf(S) \in S
  <1> DEFINE place(x) == CHOOSE i \in DOMAIN AgentOrder : AgentOrder[i] = x
             places == {place(x) : x \in S}
  <1>1. \A x \in S : place(x) \in Nat
    BY HandlersAssumption DEF Team, Agents!Agents
  <1> HIDE DEF place
  <1>2. places \subseteq Nat /\ places # {}
    BY <1>1
  <1>3. PICK m \in places : \A n \in places : m <= n
    BY <1>2, LeastOf
  <1>4. PICK x \in S : m = place(x)
    OBVIOUS
  <1>5. \A y \in S : place(x) <= place(y)
    BY <1>3, <1>4
  <1> QED
    BY <1>5 DEF Agents!FirstOf, place

\* A ranking chooses among those it is given, or nobody.
LEMMA RankedAgent ==
    ASSUME NEW w, w.ranking \in Seq(STRING), NEW S, NEW explore
    PROVE  Agents!Weighted(w, S, explore) \in S \cup {Agents!Nobody}
  <1> DEFINE fit == S \ w.reserve
             ranked == {i \in DOMAIN w.ranking : w.ranking[i] \in fit}
             least == CHOOSE i \in ranked : \A j \in ranked : i <= j
  <1>1. ranked # {} => least \in ranked
    <2>1. ranked \subseteq Nat
      OBVIOUS
    <2> QED
      BY <2>1, LeastOf
  <1>2. ranked # {} => w.ranking[least] \in S
    BY <1>1
  <1> QED
    BY <1>2 DEF Agents!Weighted

\* decideNextAgent names an agent that is available, or none.
LEMMA DecidedAgent ==
    ASSUME c6 \in AgentSupply, NEW w \in RouteExports \cup {Agents!NoExport}, NEW c, NEW tried, NEW explore
    PROVE  LET d == Agents!Decision(w, c, tried, explore) IN
           d.agent \in Agents!Available(w, c, Agents!Current(c)) \/ (d.agent = Agents!Nobody /\ ~d.switch)
  <1> DEFINE current == Agents!Current(c)
             S == Agents!Available(w, c, current)
             limited == c.reason = "limited" /\ c.agent = current
             d == Agents!Decision(w, c, tried, explore)
             Good(x) == x.agent \in S \/ (x.agent = Agents!Nobody /\ ~x.switch)
  <1>1. w.ranking \in Seq(STRING)
    <2>1. Agents!NoExport.ranking = <<>> /\ <<>> \in Seq(STRING)
      BY DEF Agents!NoExport
    <2> QED
      BY <2>1, HandlersAssumption
  <1>2. S \subseteq Team
    BY DEF Agents!Available, AgentSupply
  <1>3. \A T \in SUBSET Team : T # {} => Agents!FirstOf(T) \in T
    BY FirstAgent
  <1>4. \A T, e : Agents!Weighted(w, T, e) \in T \cup {Agents!Nobody}
    BY <1>1, RankedAgent
  <1>5. S # {} => Agents!Static(S) \in S
    BY <1>2, <1>3 DEF Agents!Static
  <1> HIDE DEF S, current, limited
  <1>6. \A why : Good(Agents!Nothing(why))
    BY DEF Agents!Nothing
  <1>7. \A a \in S : Good(Agents!Stay(a)) /\ Good(Agents!Turn(a))
                     /\ \A s : Good([Agents!Stay(a) EXCEPT !.switch = s])
    BY DEF Agents!Stay, Agents!Turn
  <1>8. S # {} => Agents!Initial(w, S, explore) \in S
    BY <1>4, <1>5 DEF Agents!Initial
  <1>9. limited \/ current \in S => Good(Agents!Rotate(w, current, S \ tried, limited, explore))
    <2> SUFFICES ASSUME limited \/ current \in S
                 PROVE  Good(Agents!Rotate(w, current, S \ tried, limited, explore))
      OBVIOUS
    <2> DEFINE others == {a \in (S \ tried) \ {current} : limited => a \in w.ok}
               weighted == Agents!Weighted(w, others, explore /\ ~limited)
               plain == IF w.evidence THEN others \ w.reserve ELSE others
    <2>1. others \subseteq S /\ plain \subseteq S
      OBVIOUS
    <2>2. weighted \in others \cup {Agents!Nobody}
      BY <1>4
    <2>3. plain # {} => Agents!FirstOf(plain) \in plain
      BY <1>2, <1>3, <2>1
    <2>4. Agents!Rotate(w, current, S \ tried, limited, explore)
            = IF weighted # Agents!Nobody THEN Agents!Turn(weighted)
              ELSE IF plain # {} THEN Agents!Turn(Agents!FirstOf(plain))
              ELSE IF limited THEN Agents!Nothing("limits") ELSE Agents!Stay(current)
      BY DEF Agents!Rotate
    <2> HIDE DEF others, weighted, plain, Good
    <2> QED
      BY <2>1, <2>2, <2>3, <2>4, <1>6, <1>7
  <1>10. d = IF Agents!Cardinality(c2.route) > 1 THEN Agents!Nothing("labels")
             ELSE IF S = {} THEN Agents!Nothing(IF current \in c.failures THEN "installs"
                                                ELSE IF limited THEN "limits" ELSE "none")
             ELSE IF c.reason = "expired" /\ c.agent \in S
                  THEN [Agents!Stay(c.agent) EXCEPT !.switch = current # c.agent]
             ELSE IF current = Agents!Nobody THEN Agents!Stay(Agents!Initial(w, S, explore))
             ELSE IF ~limited /\ current \notin S THEN Agents!Turn(Agents!Static(S))
             ELSE IF ~limited /\ (Agents!Effective \/ c3.iteration < c3.switched + SwitchCooldown \/ ~Agents!Stalled)
                  THEN Agents!Stay(current)
             ELSE Agents!Rotate(w, current, S \ tried, limited, explore)
    BY DEF Agents!Decision, S, current, limited
  <1>11. Good(d)
    <2> HIDE DEF d, Good
    <2> QED
      BY <1>5, <1>6, <1>7, <1>8, <1>9, <1>10
  <1> QED
    BY <1>11 DEF S, current

\* A choice is said to be one only after a completion was read, and is then of
\* the agent that was decided on.
LEMMA ChosenAgent ==
    ASSUME NEW d, NEW c
    PROVE  LET t == Agents!Choice(d, c) IN
           /\ Turn(t)
           /\ t.chosen => c # Agents!Unread /\ t.agent = d.agent /\ (d.agent = Agents!Nobody => d.switch)
  <1>1. CASE d.switch
    BY <1>1, Zenon DEF Agents!Choice, Agents!Sent, Agents!Idle, Turn
  <1>2. CASE ~d.switch /\ d.agent # Agents!Nobody
    BY <1>2 DEF Agents!Choice, Agents!Sent, Agents!Idle, Turn
  <1>3. CASE ~d.switch /\ d.agent = Agents!Nobody
    BY <1>3 DEF Agents!Choice, Agents!Sent, Agents!Stopped, Agents!Idle, Turn
  <1> QED
    BY <1>1, <1>2, <1>3

\* What stands against an agent, in the words of a completion that was read.
LEMMA ReadBlocks == Agents!Blocked = Agents!Read.limits \cup Agents!Read.failures
  BY DEF Agents!Blocked, Agents!Read, Agents!Expired

\* A failed call counts, and changes nothing else of the supply.
LEMMA SupplyFaults ==
    ASSUME c6 \in AgentSupply, NEW wrong, Agents!Fault(wrong)
    PROVE  c6' \in AgentSupply
  BY DEF Agents!Fault, AgentSupply

\* evaluateKeepaliveLoop: the choice is made among the agents that nothing
\* stands against.
LEMMA DelegationEvaluates ==
    ASSUME DelegationInv, NEW w \in RouteExports \cup {Agents!NoExport}, NEW explore \in BOOLEAN,
           Agents!Evaluate(w, explore)
    PROVE  DelegationInv'
  <1>1. PICK read \in BOOLEAN, settles \in BOOLEAN :
           LET c == IF read /\ Agents!Legible THEN Agents!Read ELSE Agents!Unread
               kept == IF settles /\ c # Agents!Unread THEN Agents!Settled(c) ELSE c2
           IN /\ Agents!Fault(~read \/ ~settles)
              /\ c4' = IF c2.auto \/ Agents!Failing(c)
                       THEN Agents!Choice(Agents!Decision(w, c, kept.tried, explore), c)
                       ELSE Agents!Sent(Agents!RouteAgent)
    BY Zenon DEF Agents!Evaluate
  <1> DEFINE c == IF read /\ Agents!Legible THEN Agents!Read ELSE Agents!Unread
             kept == IF settles /\ c # Agents!Unread THEN Agents!Settled(c) ELSE c2
             d == Agents!Decision(w, c, kept.tried, explore)
  <1>2. c1' = c1 /\ c6' \in AgentSupply
    BY <1>1, SupplyFaults, Zenon DEF DelegationInv, Agents!Evaluate
  <1>3. c # Agents!Unread => c = Agents!Read
    OBVIOUS
  <1>4. d.agent \in Agents!Available(w, c, Agents!Current(c)) \/ (d.agent = Agents!Nobody /\ ~d.switch)
    BY DecidedAgent, Zenon DEF DelegationInv
  <1>5. Agents!Available(w, c, Agents!Current(c)) \cap (c.limits \cup c.failures) = {}
    BY DEF Agents!Available
  <1>6. Agents!Blocked' = Agents!Blocked
    BY <1>2 DEF Agents!Blocked, Agents!Limits, Agents!Failures
  <1>7. /\ Turn(c4')
        /\ c4'.chosen => c # Agents!Unread /\ c4'.agent = d.agent /\ (d.agent = Agents!Nobody => d.switch)
    <2>1. CASE c2.auto \/ Agents!Failing(c)
      <3>1. c4' = Agents!Choice(d, c)
        BY <1>1, <2>1
      <3> HIDE DEF c, d
      <3> QED
        BY <3>1, ChosenAgent
    <2>2. CASE ~(c2.auto \/ Agents!Failing(c))
      <3>1. c4' = Agents!Sent(Agents!RouteAgent)
        BY <1>1, <2>2
      <3>2. Turn(c4') /\ c4'.chosen = FALSE
        BY <3>1 DEF Agents!Sent, Agents!Idle, Turn
      <3> QED
        BY <3>2
    <2> QED
      BY <2>1, <2>2
  <1>8. c4'.chosen => c4'.agent \notin Agents!Blocked
    <2> SUFFICES ASSUME c4'.chosen PROVE c4'.agent \notin Agents!Blocked
      OBVIOUS
    <2> HIDE DEF c, d
    <2>1. c = Agents!Read /\ c4'.agent = d.agent /\ d.agent \in Agents!Available(w, c, Agents!Current(c))
      BY <1>3, <1>4, <1>7
    <2> QED
      BY <2>1, <1>5, ReadBlocks
  <1> QED
    BY <1>2, <1>6, <1>7, <1>8 DEF DelegationInv, Agents!ChoiceStands

\* The label calls, the runner and the state comment: a round that is past its
\* choice rests on none.
LEMMA DelegationWorks ==
    ASSUME DelegationInv,
           \/ Agents!Relabel \/ Agents!Send \/ Agents!Crash \/ Agents!Close
           \/ \E reason \in {"progressed", "quiet", "limited", "install"},
                 result \in {"task", "green", "commit", "pass", "none", "failed"} : Agents!Finish(reason, result)
    PROVE  DelegationInv'
  <1>1. c1 \in AgentRecords /\ c6 \in AgentSupply /\ Turn(c4) /\ Agents!ChoiceStands
    BY DEF DelegationInv
  <1>2. CASE Agents!Relabel
    <2>1. PICK calls \in 0..3 :
            /\ Agents!Fault(calls < 3)
            /\ c4' = IF calls = 3 THEN [c4 EXCEPT !.phase = "send", !.auto = TRUE]
                     ELSE IF c4.fallback # Agents!Nobody THEN [Agents!Sent(c4.fallback) EXCEPT !.auto = TRUE]
                     ELSE [Agents!Stopped EXCEPT !.auto = TRUE]
      BY <1>2, Zenon DEF Agents!Relabel
    <2>2. c1' = c1 /\ c6' \in AgentSupply /\ c4.phase = "relabel"
      BY <1>1, <1>2, <2>1, SupplyFaults, Zenon DEF Agents!Relabel
    <2>3. Agents!Blocked' = Agents!Blocked
      BY <2>2 DEF Agents!Blocked, Agents!Limits, Agents!Failures
    <2>4. Turn(c4') /\ (c4'.chosen => c4.chosen /\ c4'.agent = c4.agent)
      BY <1>1, <2>1 DEF Turn, Agents!Sent, Agents!Stopped, Agents!Idle
    <2> QED
      BY <1>1, <2>2, <2>3, <2>4 DEF DelegationInv, Agents!ChoiceStands
  <1>3. CASE Agents!Send
    <2>1. c4' = [c4 EXCEPT !.phase = "running"] /\ c6' = [c6 EXCEPT !.clock = @ + 1]
          /\ c1' = [c1 EXCEPT ![c4.agent] = [reason |-> "pending", at |-> c6.clock + 1, old |-> FALSE]]
      BY <1>3 DEF Agents!Send
    <2>2. Turn(c4') /\ c4'.phase = "running"
      BY <1>1, <2>1 DEF Turn
    <2>3. c6.clock + 1 \in Nat /\ c6' \in AgentSupply
      BY <1>1, <2>1 DEF AgentSupply
    <2>4. [reason |-> "pending", at |-> c6.clock + 1, old |-> FALSE] \in AgentRecord
      BY <2>3 DEF AgentRecord, AgentReasons
    <2>5. c1' \in AgentRecords
      BY <1>1, <2>1, <2>4 DEF AgentRecords
    <2> QED
      BY <2>2, <2>3, <2>5 DEF DelegationInv, Agents!ChoiceStands
  <1>4. CASE \E reason \in {"progressed", "quiet", "limited", "install"},
               result \in {"task", "green", "commit", "pass", "none", "failed"} : Agents!Finish(reason, result)
    <2>1. PICK reason \in {"progressed", "quiet", "limited", "install"},
               result \in {"task", "green", "commit", "pass", "none", "failed"} :
            /\ c1' = [c1 EXCEPT ![c4.agent].reason = reason]
            /\ c4' = [c4 EXCEPT !.phase = "closing", !.result = result] /\ c6' = c6
      BY <1>4 DEF Agents!Finish
    <2>2. Turn(c4') /\ c4'.phase = "closing"
      BY <1>1, <2>1 DEF Turn
    <2>3. c1' \in AgentRecords
      BY <1>1, <2>1 DEF AgentRecords, AgentRecord, AgentReasons
    <2> QED
      BY <1>1, <2>1, <2>2, <2>3 DEF DelegationInv, Agents!ChoiceStands
  <1>5. CASE Agents!Crash
    <2>1. c1' = c1 /\ c4' = [c4 EXCEPT !.phase = "closing", !.result = "failed"] /\ Agents!Fault(TRUE)
      BY <1>5 DEF Agents!Crash
    <2>2. Turn(c4') /\ c4'.phase = "closing"
      BY <1>1, <2>1 DEF Turn
    <2> QED
      BY <1>1, <2>1, <2>2, SupplyFaults DEF DelegationInv, Agents!ChoiceStands
  <1>6. CASE Agents!Close
    <2>1. PICK saved \in BOOLEAN : Agents!Fault(~saved)
      BY <1>6, Zenon DEF Agents!Close
    <2>2. c1' = c1 /\ c4' = Agents!Idle
      BY <1>6 DEF Agents!Close
    <2>3. Turn(c4') /\ c4'.phase = "idle"
      BY <2>2 DEF Turn, Agents!Idle
    <2> QED
      BY <1>1, <2>1, <2>2, <2>3, SupplyFaults DEF DelegationInv, Agents!ChoiceStands
  <1> QED
    BY <1>2, <1>3, <1>4, <1>5, <1>6

\* Auto-pilot, and the world: a limit or a failure may end, which lifts what
\* stands against its agent and adds nothing.
LEMMA DelegationSurrounds ==
    ASSUME DelegationInv,
           \/ \E current \in Agents!Held : Agents!Rotation(current)
           \/ Agents!Stall
           \/ \E a \in Team : Agents!Expire(a)
           \/ \E able \in SUBSET Team : \E relabelled : Agents!Change(able, relabelled)
    PROVE  DelegationInv'
  <1>1. c1 \in AgentRecords /\ c6 \in AgentSupply /\ Turn(c4) /\ Agents!ChoiceStands
    BY DEF DelegationInv
  <1>2. CASE \E a \in Team : Agents!Expire(a)
    <2>1. PICK a \in Team : c1' = [c1 EXCEPT ![a].old = TRUE] /\ c4' = c4 /\ c6' = c6
      BY <1>2 DEF Agents!Expire
    <2>2. c1' \in AgentRecords
      BY <1>1, <2>1 DEF AgentRecords, AgentRecord
    <2>3. \A b \in Team : c1'[b].reason = c1[b].reason /\ c1'[b].at = c1[b].at /\ (c1[b].old => c1'[b].old)
      BY <1>1, <2>1 DEF AgentRecords, AgentRecord
    <2>4. Agents!Limits' = Agents!Limits /\ Agents!Failures' \subseteq Agents!Failures
      BY <2>3 DEF Agents!Limits, Agents!Failures, Team
    <2>5. \A b \in Agents!Limits : b \in Team
      BY DEF Agents!Limits, Team
    <2>6. Agents!Blocked' \subseteq Agents!Blocked
      BY <2>3, <2>4, <2>5 DEF Agents!Blocked
    <2> QED
      BY <1>1, <2>1, <2>2, <2>6 DEF DelegationInv, Agents!ChoiceStands
  <1>3. CASE ~\E a \in Team : Agents!Expire(a)
    <2>1. c1' = c1 /\ c4' = c4
      BY <1>3 DEF Agents!Rotation, Agents!Stall, Agents!Change
    <2>2. c6' \in AgentSupply
      <3>1. CASE \E current \in Agents!Held : Agents!Rotation(current)
        <4>1. \E wrong \in BOOLEAN : Agents!Fault(wrong)
          BY <3>1, Zenon DEF Agents!Rotation
        <4> QED
          BY <1>1, <4>1, SupplyFaults
      <3>2. CASE Agents!Stall
        BY <1>1, <3>2 DEF Agents!Stall
      <3>3. CASE \E able \in SUBSET Team : \E relabelled : Agents!Change(able, relabelled)
        <4>1. PICK able \in SUBSET Team : c6' = [c6 EXCEPT !.able = able, !.changes = @ + 1]
          BY <3>3 DEF Agents!Change
        <4>2. c6.changes + 1 \in Nat /\ able \in SUBSET Team
          BY <1>1, <4>1 DEF AgentSupply
        <4> DEFINE more == c6.changes + 1
        <4>3. more \in Nat /\ c6' = [c6 EXCEPT !.able = able, !.changes = more]
          BY <4>1, <4>2
        <4> HIDE DEF more
        <4> QED
          BY <1>1, <4>2, <4>3 DEF AgentSupply
      <3> QED
        BY <1>3, <3>1, <3>2, <3>3
    <2>3. Agents!Blocked' = Agents!Blocked
      BY <2>1 DEF Agents!Blocked, Agents!Limits, Agents!Failures
    <2> QED
      BY <1>1, <2>1, <2>2, <2>3 DEF DelegationInv, Agents!ChoiceStands
  <1> QED
    BY <1>2, <1>3

LEMMA DelegationStep == DelegationInv /\ [Agents!Next]_Agents!delegationVars => DelegationInv'
  <1> SUFFICES ASSUME DelegationInv, [Agents!Next]_Agents!delegationVars PROVE DelegationInv'
    OBVIOUS
  <1>1. CASE UNCHANGED Agents!delegationVars
    BY <1>1 DEF Agents!delegationVars, DelegationInv, Agents!ChoiceStands, Agents!Blocked, Agents!Limits,
                Agents!Failures
  <1>2. CASE \E w \in RouteExports \cup {Agents!NoExport}, explore \in BOOLEAN : Agents!Evaluate(w, explore)
    BY <1>2, DelegationEvaluates
  <1>3. CASE Agents!Relabel \/ Agents!Send \/ Agents!Crash \/ Agents!Close
    BY <1>3, DelegationWorks
  <1>4. CASE \/ \E result \in {"task", "green", "commit"} : Agents!Finish("progressed", result)
             \/ \E result \in {"pass", "none"} : Agents!Finish("quiet", result)
             \/ \E reason \in {"limited", "install"} : Agents!Finish(reason, "failed")
    <2>1. \E reason \in {"progressed", "quiet", "limited", "install"},
             result \in {"task", "green", "commit", "pass", "none", "failed"} : Agents!Finish(reason, result)
      BY <1>4
    <2> QED
      BY <2>1, DelegationWorks
  <1>5. CASE \/ \E current \in Agents!Held : Agents!Rotation(current)
             \/ Agents!Stall
             \/ \E a \in Team : Agents!Expire(a)
    BY <1>5, DelegationSurrounds
  <1>6. CASE \/ \E a \in Team : Agents!Change(IF a \in c6.able THEN c6.able \ {a} ELSE c6.able \cup {a}, c2)
             \/ \E a \in Team, auto \in BOOLEAN : Agents!Change(c6.able, [c2 EXCEPT !.auto = auto, !.route = {a}])
    <2>1. c6.able \subseteq Team
      BY DEF DelegationInv, AgentSupply
    <2>2. \E able \in SUBSET Team : \E relabelled : Agents!Change(able, relabelled)
      BY <1>6, <2>1
    <2> QED
      BY <2>2, DelegationSurrounds
  <1> QED
    BY <1>1, <1>2, <1>3, <1>4, <1>5, <1>6, Zenon DEF Agents!Next, Team

LEMMA DelegationStart == Agents!Init => DelegationInv
  <1> SUFFICES ASSUME Agents!Init PROVE DelegationInv
    OBVIOUS
  <1>1. c1 \in AgentRecords /\ c6 \in AgentSupply
    BY DEF Agents!Init, AgentRecords, AgentRecord, AgentReasons, AgentSupply, Team
  <1>2. Turn(c4) /\ c4.phase = "idle"
    BY DEF Agents!Init, Agents!Idle, Turn
  <1> QED
    BY <1>1, <1>2 DEF DelegationInv, Agents!ChoiceStands

\* An agent the policy chose has no limit and no failed startup that still
\* stands when its run is sent, whichever way it was chosen (decideNextAgent,
\* evaluateKeepaliveLoop).
THEOREM ChoiceStandsAlways == Spec => []ChoiceStands
  <1>1. Init /\ Delegating => Agents!Init
    BY DEF Init, Delegating
  <1>2. [Next]_<<part, cells>> => (Delegating <=> Delegating')
    BY DEF Next, Delegating, cells
  <1>3. [Next]_<<part, cells>> /\ Delegating => [Agents!Next]_Agents!delegationVars
    BY DEF Next, Delegating, cells, Agents!delegationVars
  <1>4. (Delegating => DelegationInv) => ChoiceStands
    BY DEF ChoiceStands, Delegating, DelegationInv
  <1> QED
    BY <1>1, <1>2, <1>3, <1>4, DelegationStart, DelegationStep, PTL DEF Spec

=============================================================================
