-------------------------- MODULE MCServicesProofs --------------------------
(* What is proved of the services, each followed beside the others, for     *)
(* every bound.  The cells c1 to c8 hold the variables of the service that  *)
(* is followed, in the order of its module.                                 *)
EXTENDS MCServices, Sequences, FiniteSets, FiniteSetTheorems, WellFoundedInduction, TLAPS

-----------------------------------------------------------------------------
(* SourceClosure: c1 is the issue, c2 the CI, c3 the runs, c4 the past.     *)

Closing == part = "closure"

CiStates == {"none", "running", "success", "failure"}
ClosurePhases == {"start", "linked", "read", "judging", "gate", "queued", "queried", "decided",
                  "receipted", "failed", "over"}
ClosureTexts == {0, 1, 2}
ClosureRuns ==
    [phase : ClosurePhases, text : ClosureTexts, failed : BOOLEAN,
     verdict : {"none", "PASS", "CONCERNS", "UNVERIFIABLE_INPUT"}, plan : ClosureTexts,
     gate : BOOLEAN, green : BOOLEAN, read : ClosureTexts, edited : BOOLEAN, rerun : BOOLEAN]
ClosureIssue ==
    [text : {0, 1}, open : BOOLEAN, link : {"closing", "source"}, receipts : SUBSET Nat]
ClosurePast ==
    [events : Nat, faults : Nat,
     closed : SUBSET [run : Nat, judged : ClosureTexts, text : {0, 1}, ci : CiStates,
                      edited : BOOLEAN, rerun : BOOLEAN]]

\* What was closed, as it must be.
ClosedRight(c, receipts) ==
    /\ c.run \in receipts
    /\ c.edited \/ c.text = c.judged
    /\ c.rerun \/ c.ci = "success"

\* What a run knows between its readings and its closing: a plan is for the text
\* that was judged; what was read since, and the CI, are as they were unless
\* that is marked.
ClosureRunOK(run, r, issue, ci) ==
    /\ run.plan \in {run.text, Closure!Unread}
    /\ run.phase \in {"start", "linked", "read"} => run.plan = Closure!Unread
    /\ run.phase \in {"decided", "receipted"} => run.edited \/ run.read = issue.text
    /\ run.phase \in {"queried", "decided", "receipted"} /\ run.green => run.rerun \/ ci = "success"
    /\ run.phase = "receipted" => /\ r \in issue.receipts /\ run.green
                                  /\ run.plan # Closure!Unread /\ run.plan = run.read

ClosureType ==
    /\ c1 \in ClosureIssue /\ c2 \in [merge : CiStates, head : CiStates]
    /\ c3 \in Seq(ClosureRuns) /\ c4 \in ClosurePast

ClosureInv ==
    /\ ClosureType
    /\ \A r \in 1..Len(c3) : ClosureRunOK(c3[r], r, c1, c2.merge)
    /\ \A c \in c4.closed : ClosedRight(c, c1.receipts)

\* One run goes on; the text and the CI stay.
LEMMA ClosureRunStep ==
    ASSUME ClosureInv, NEW r \in 1..Len(c3), NEW new \in ClosureRuns, c3' = [c3 EXCEPT ![r] = new],
           c1' \in ClosureIssue, c1'.text = c1.text, c1.receipts \subseteq c1'.receipts, c2' = c2,
           c4' \in ClosurePast, ClosureRunOK(new, r, c1', c2.merge),
           \A c \in c4'.closed : c \in c4.closed \/ ClosedRight(c, c1'.receipts)
    PROVE  ClosureInv'
  <1>1. c3' \in Seq(ClosureRuns) /\ Len(c3') = Len(c3)
    BY DEF ClosureInv, ClosureType
  <1>2. \A q \in 1..Len(c3) : c3'[q] = IF q = r THEN new ELSE c3[q]
    BY DEF ClosureInv, ClosureType
  <1>3. \A q \in 1..Len(c3) : ClosureRunOK(c3[q], q, c1, c2.merge) => ClosureRunOK(c3[q], q, c1', c2.merge)
    BY DEF ClosureRunOK
  <1>4. \A q \in 1..Len(c3) : ClosureRunOK(c3'[q], q, c1', c2'.merge)
    BY <1>2, <1>3 DEF ClosureInv
  <1>5. \A c \in c4'.closed : ClosedRight(c, c1'.receipts)
    BY DEF ClosureInv, ClosedRight
  <1> QED
    BY <1>1, <1>4, <1>5 DEF ClosureInv, ClosureType

\* So it does when it only reads.
LEMMA ClosureQuietStep ==
    ASSUME ClosureInv, NEW r \in 1..Len(c3), NEW new \in ClosureRuns, c3' = [c3 EXCEPT ![r] = new],
           c1' = c1, c2' = c2, c4' = c4 \/ Closure!Fault \/ Closure!More,
           ClosureRunOK(new, r, c1, c2.merge)
    PROVE  ClosureInv'
  <1>1. c4' \in ClosurePast /\ c4'.closed = c4.closed
    BY DEF ClosureInv, ClosureType, ClosurePast, Closure!Fault, Closure!More
  <1>2. c1' \in ClosureIssue
    BY DEF ClosureInv, ClosureType
  <1> QED
    BY <1>1, <1>2, ClosureRunStep

\* A run has the fields of a run and knows what it may rely on.
LEMMA ClosureRunType ==
    ASSUME ClosureInv, NEW r \in 1..Len(c3)
    PROVE  c3[r] \in ClosureRuns /\ ClosureRunOK(c3[r], r, c1, c2.merge)
  BY DEF ClosureInv, ClosureType

\* A run whose fields are replaced is a run.
LEMMA ClosureOver ==
    ASSUME ClosureInv, NEW r \in 1..Len(c3), Closure!End(r)
    PROVE  \E new \in ClosureRuns : /\ c3' = [c3 EXCEPT ![r] = new]
                                    /\ ClosureRunOK(new, r, c1, c2.merge)
  <1> DEFINE new == [Closure!Idle EXCEPT !.phase = "over"]
  <1>1. c3' = [c3 EXCEPT ![r] = new]
    BY DEF Closure!End, Closure!Put
  <1>2. new \in ClosureRuns
    BY DEF Closure!Idle, Closure!Unread, ClosureRuns, ClosurePhases, ClosureTexts
  <1>3. ClosureRunOK(new, r, c1, c2.merge)
    BY DEF Closure!Idle, Closure!Unread, ClosureRunOK
  <1> QED
    BY <1>1, <1>2, <1>3

\* The run reads and judges.
LEMMA ClosureJudges ==
    ASSUME ClosureInv, NEW r \in 1..Len(c3),
           \/ Closure!MissPullRequest(r) \/ Closure!FetchClosingIssues(r)
           \/ Closure!FetchAcceptanceIssues(r) \/ Closure!ReadCi(r) \/ Closure!Judge(r)
           \/ Closure!AcceptanceGates(r)
    PROVE  ClosureInv'
  <1> DEFINE now == c3[r]
             Right(new) == /\ c3' = [c3 EXCEPT ![r] = new] /\ new \in ClosureRuns
                           /\ ClosureRunOK(new, r, c1, c2.merge)
  <1>1. c1' = c1 /\ c2' = c2 /\ (c4' = c4 \/ Closure!Fault)
    BY DEF Closure!MissPullRequest, Closure!FetchClosingIssues, Closure!FetchAcceptanceIssues,
           Closure!ReadCi, Closure!QueryCi, Closure!Judge, Closure!AcceptanceGates
  <1>2. /\ now \in ClosureRuns /\ ClosureRunOK(now, r, c1, c2.merge) /\ c1.text \in {0, 1}
    BY ClosureRunType DEF ClosureInv, ClosureType, ClosureIssue
  <1> HIDE DEF now
  <1>3. CASE Closure!MissPullRequest(r)
    BY <1>1, <1>3, ClosureOver, ClosureQuietStep DEF Closure!MissPullRequest
  <1>4. CASE Closure!FetchClosingIssues(r) \/ Closure!FetchAcceptanceIssues(r)
    <2>1. now.phase \in {"start", "linked"}
      BY <1>4 DEF Closure!FetchClosingIssues, Closure!FetchAcceptanceIssues, now
    <2>2. PICK phase \in {"linked", "read"}, text \in ClosureTexts :
            c3' = [c3 EXCEPT ![r] = [now EXCEPT !.phase = phase, !.text = text]]
      <3>1. now.text \in ClosureTexts /\ now = [now EXCEPT !.text = now.text]
        BY <1>2 DEF ClosureRuns
      <3>2. /\ c1.text \in ClosureTexts /\ Closure!Unread \in ClosureTexts
        BY <1>2 DEF ClosureTexts, Closure!Unread
      <3>3. \A p : [now EXCEPT !.phase = p] = [now EXCEPT !.phase = p, !.text = now.text]
        BY <1>2 DEF ClosureRuns
      <3>6. \A p : [now EXCEPT !.phase = p].text = now.text
        BY <1>2 DEF ClosureRuns
      <3>4. CASE Closure!FetchClosingIssues(r)
        <4>1. \/ \E t \in {c1.text, Closure!Unread} :
                    c3' = [c3 EXCEPT ![r] = [[now EXCEPT !.phase = "linked"] EXCEPT !.text = t]]
              \/ c3' = [c3 EXCEPT ![r] = [now EXCEPT !.phase = "linked"]]
          BY <3>4 DEF Closure!FetchClosingIssues, Closure!Put, Closure!Now, now
        <4> QED
          BY <3>1, <3>2, <3>3, <4>1
      <3>5. CASE Closure!FetchAcceptanceIssues(r)
        <4>1. \/ \E t \in {c1.text, now.text} :
                    c3' = [c3 EXCEPT ![r] = [[now EXCEPT !.phase = "read"] EXCEPT !.text = t]]
              \/ c3' = [c3 EXCEPT ![r] = [now EXCEPT !.phase = "read"]]
          BY <3>5, <3>6 DEF Closure!FetchAcceptanceIssues, Closure!Put, Closure!Now, now
        <4> QED
          BY <3>1, <3>2, <3>3, <4>1
      <3> QED
        BY <1>4, <3>4, <3>5
    <2> DEFINE new == [now EXCEPT !.phase = phase, !.text = text]
    <2>3. new \in ClosureRuns
      BY <1>2 DEF ClosureRuns, ClosurePhases
    <2>4. ClosureRunOK(new, r, c1, c2.merge)
      BY <1>2, <2>1 DEF ClosureRuns, ClosureRunOK
    <2> QED
      BY <1>1, <2>2, <2>3, <2>4, ClosureQuietStep
  <1>5. CASE Closure!ReadCi(r)
    <2>1. now.phase = "read"
      BY <1>5 DEF Closure!ReadCi, now
    <2>2. PICK failed \in BOOLEAN :
            c3' = [c3 EXCEPT ![r] = [now EXCEPT !.phase = "judging", !.failed = failed]]
      BY <1>5 DEF Closure!ReadCi, Closure!Put, Closure!Now, now
    <2> DEFINE new == [now EXCEPT !.phase = "judging", !.failed = failed]
    <2>3. new \in ClosureRuns
      BY <1>2 DEF ClosureRuns, ClosurePhases
    <2>4. ClosureRunOK(new, r, c1, c2.merge)
      BY <1>2, <2>1 DEF ClosureRuns, ClosureRunOK
    <2> QED
      BY <1>1, <2>2, <2>3, <2>4, ClosureQuietStep
  <1>6. CASE Closure!Judge(r)
    <2>2. PICK phase \in {"gate", "queued"}, verdict \in {"PASS", "CONCERNS", "UNVERIFIABLE_INPUT"},
               plan \in {now.text, Closure!Unread} :
            c3' = [c3 EXCEPT ![r] = [now EXCEPT !.phase = phase, !.verdict = verdict, !.plan = plan]]
      BY <1>6 DEF Closure!Judge, Closure!Put, Closure!Now, Closure!SourceHashes, now
    <2> DEFINE new == [now EXCEPT !.phase = phase, !.verdict = verdict, !.plan = plan]
    <2>3. new \in ClosureRuns
      BY <1>2 DEF ClosureRuns, ClosurePhases, ClosureTexts, Closure!Unread
    <2>4. ClosureRunOK(new, r, c1, c2.merge)
      BY <1>2 DEF ClosureRuns, ClosureRunOK
    <2> QED
      BY <1>1, <2>2, <2>3, <2>4, ClosureQuietStep
  <1>7. CASE Closure!AcceptanceGates(r)
    <2>2. PICK gate \in BOOLEAN :
            c3' = [c3 EXCEPT ![r] = [now EXCEPT !.phase = "queued", !.gate = gate]]
      BY <1>7 DEF Closure!AcceptanceGates, Closure!Put, Closure!Now, now
    <2> DEFINE new == [now EXCEPT !.phase = "queued", !.gate = gate]
    <2>3. new \in ClosureRuns
      BY <1>2 DEF ClosureRuns, ClosurePhases
    <2>4. ClosureRunOK(new, r, c1, c2.merge)
      BY <1>2 DEF ClosureRuns, ClosureRunOK
    <2> QED
      BY <1>1, <2>2, <2>3, <2>4, ClosureQuietStep
  <1> QED
    BY <1>3, <1>4, <1>5, <1>6, <1>7

\* The CI on the merge is what is asked for, and nothing else.
LEMMA MergeAlone ==
    ASSUME ClosureInv, Closure!QueryCi(<<"merge">>, "success")
    PROVE  c2.merge = "success"
  <1> DEFINE ran == {k \in DOMAIN <<"merge">> : c2[<<"merge">>[k]] # "none"}
  <1>1. DOMAIN <<"merge">> = {1} /\ <<"merge">>[1] = "merge"
    OBVIOUS
  <1>2. Closure!FetchWorkflowRun(<<"merge">>) = "success"
    BY DEF Closure!QueryCi
  <1>3. ran # {} /\ c2[<<"merge">>[CHOOSE k \in ran : \A j \in ran : k <= j]] = "success"
    BY <1>2 DEF Closure!FetchWorkflowRun, Closure!Conclusion
  <1>4. ran \subseteq {1}
    BY <1>1
  <1> HIDE DEF ran
  <1>5. ran = {1}
    BY <1>3, <1>4
  <1>6. 1 <= 1
    OBVIOUS
  <1>7. (CHOOSE k \in ran : \A j \in ran : k <= j) = 1
    BY <1>5, <1>6
  <1> QED
    BY <1>1, <1>3, <1>7

\* The closing job asks, reads and decides.
LEMMA ClosureReads ==
    ASSUME ClosureInv, NEW r \in 1..Len(c3),
           \/ Closure!QueryMerge(r) \/ Closure!ReadIssue(r) \/ Closure!Keep(r) \/ Closure!TryAgain(r)
    PROVE  ClosureInv'
  <1> DEFINE now == c3[r]
  <1>1. c1' = c1 /\ c2' = c2 /\ (c4' = c4 \/ Closure!Fault \/ Closure!More)
    BY DEF Closure!QueryMerge, Closure!QueryCi, Closure!ReadIssue, Closure!Keep, Closure!TryAgain,
           Closure!Fail
  <1>2. /\ now \in ClosureRuns /\ ClosureRunOK(now, r, c1, c2.merge) /\ c1.text \in {0, 1}
    BY ClosureRunType DEF ClosureInv, ClosureType, ClosureIssue
  <1>3. CASE Closure!End(r)
    BY <1>1, <1>3, ClosureOver, ClosureQuietStep
  <1>4. CASE Closure!QueryMerge(r)
    <2>1. PICK green \in BOOLEAN :
            /\ c3' = [c3 EXCEPT ![r] = [now EXCEPT !.phase = "queried", !.green = green]]
            /\ green => c2.merge = "success"
      BY <1>4, MergeAlone DEF Closure!QueryMerge, Closure!Put, Closure!Now
    <2> DEFINE new == [now EXCEPT !.phase = "queried", !.green = green]
    <2> HIDE DEF now
    <2>2. new \in ClosureRuns
      BY <1>2 DEF ClosureRuns, ClosurePhases
    <2>3. ClosureRunOK(new, r, c1, c2.merge)
      BY <1>2, <2>1 DEF ClosureRuns, ClosureRunOK
    <2> QED
      BY <1>1, <2>1, <2>2, <2>3, ClosureQuietStep
  <1>5. CASE Closure!Fail(r)
    <2> DEFINE new == [now EXCEPT !.phase = "failed"]
    <2>1. c3' = [c3 EXCEPT ![r] = new]
      BY <1>5 DEF Closure!Fail, Closure!Put, Closure!Now
    <2> HIDE DEF now
    <2>2. new \in ClosureRuns
      BY <1>2 DEF ClosureRuns, ClosurePhases
    <2>3. ClosureRunOK(new, r, c1, c2.merge)
      BY <1>2 DEF ClosureRuns, ClosureRunOK
    <2> QED
      BY <1>1, <2>1, <2>2, <2>3, ClosureQuietStep
  <1>6. CASE Closure!ReadIssue(r) /\ ~Closure!End(r) /\ ~Closure!Fail(r)
    <2> DEFINE new == [now EXCEPT !.phase = "decided", !.read = c1.text, !.edited = FALSE]
    <2>1. c3' = [c3 EXCEPT ![r] = new] /\ now.phase = "queried"
      BY <1>6 DEF Closure!ReadIssue, Closure!Put, Closure!Now
    <2> HIDE DEF now
    <2>2. new \in ClosureRuns
      BY <1>2 DEF ClosureRuns, ClosurePhases, ClosureTexts
    <2>3. ClosureRunOK(new, r, c1, c2.merge)
      BY <1>2, <2>1 DEF ClosureRuns, ClosureRunOK
    <2> QED
      BY <1>1, <2>1, <2>2, <2>3, ClosureQuietStep
  <1>7. CASE Closure!TryAgain(r)
    <2> DEFINE new == [now EXCEPT !.phase = "queued", !.green = FALSE, !.read = Closure!Unread,
                                  !.edited = FALSE, !.rerun = FALSE]
    <2>1. c3' = [c3 EXCEPT ![r] = new]
      BY <1>7 DEF Closure!TryAgain, Closure!Put, Closure!Now
    <2> HIDE DEF now
    <2>2. new \in ClosureRuns
      BY <1>2 DEF ClosureRuns, ClosurePhases, ClosureTexts, Closure!Unread
    <2>3. ClosureRunOK(new, r, c1, c2.merge)
      BY <1>2, <2>1 DEF ClosureRuns, ClosureRunOK
    <2> QED
      BY <1>1, <2>1, <2>2, <2>3, ClosureQuietStep
  <1> QED
    BY <1>3, <1>4, <1>5, <1>6, <1>7 DEF Closure!Keep

\* A receipt is written for a plan of the text that was read, with the CI green.
LEMMA ClosureReceipts ==
    ASSUME ClosureInv, NEW r \in 1..Len(c3), Closure!Receipt(r)
    PROVE  ClosureInv'
  <1> DEFINE now == c3[r]
  <1>1. /\ now \in ClosureRuns /\ ClosureRunOK(now, r, c1, c2.merge)
        /\ c1 \in ClosureIssue /\ c4 \in ClosurePast /\ r \in Nat
    BY ClosureRunType DEF ClosureInv, ClosureType
  <1>2. /\ now.phase = "decided" /\ now.plan # Closure!Unread /\ now.plan = now.read /\ now.green
        /\ c2' = c2
    BY DEF Closure!Receipt, Closure!ClosureDecision
  <1>3. PICK phase \in {"receipted", "failed"} :
          /\ c3' = [c3 EXCEPT ![r] = [now EXCEPT !.phase = phase]]
          /\ c1' = c1 \/ c1' = [c1 EXCEPT !.receipts = @ \cup {r}]
          /\ phase = "receipted" => c1' = [c1 EXCEPT !.receipts = @ \cup {r}]
          /\ c4' = c4 \/ Closure!Fault
    BY DEF Closure!Receipt, Closure!Fail, Closure!Put, Closure!Now
  <1> DEFINE new == [now EXCEPT !.phase = phase]
  <1>4. /\ c1' \in ClosureIssue /\ c1'.text = c1.text /\ c1.receipts \subseteq c1'.receipts
        /\ phase = "receipted" => r \in c1'.receipts
    BY <1>1, <1>3 DEF ClosureIssue
  <1>5. c4' \in ClosurePast /\ c4'.closed = c4.closed
    BY <1>1, <1>3 DEF ClosurePast, Closure!Fault
  <1> HIDE DEF now
  <1>6. new \in ClosureRuns
    BY <1>1 DEF ClosureRuns, ClosurePhases
  <1>7. ClosureRunOK(new, r, c1', c2.merge)
    BY <1>1, <1>2, <1>4 DEF ClosureRuns, ClosureRunOK
  <1> QED
    BY <1>2, <1>3, <1>4, <1>5, <1>6, <1>7, ClosureRunStep

\* What it then closes has the text and the CI it has read, or that is marked.
LEMMA ClosureCloses ==
    ASSUME ClosureInv, NEW r \in 1..Len(c3), Closure!CloseVerifiedSources(r)
    PROVE  ClosureInv'
  <1> DEFINE now == c3[r]
             closed == Closure!Closed(r)
  <1>1. /\ now \in ClosureRuns /\ ClosureRunOK(now, r, c1, c2.merge)
        /\ c1 \in ClosureIssue /\ c4 \in ClosurePast /\ r \in Nat /\ c2.merge \in CiStates
    BY ClosureRunType DEF ClosureInv, ClosureType
  <1>2. now.phase = "receipted" /\ c2' = c2
    BY DEF Closure!CloseVerifiedSources
  <1>3. /\ closed.run = r /\ closed.judged = now.text /\ closed.text = c1.text /\ closed.ci = c2.merge
        /\ closed.edited = now.edited /\ closed.rerun = now.rerun
    BY DEF Closure!Closed
  <1>4. closed \in [run : Nat, judged : ClosureTexts, text : {0, 1}, ci : CiStates,
                    edited : BOOLEAN, rerun : BOOLEAN]
    BY <1>1 DEF Closure!Closed, ClosureRuns, ClosureIssue
  <1>5. /\ c1' \in ClosureIssue /\ c1'.text = c1.text /\ c1'.receipts = c1.receipts
    BY <1>1 DEF Closure!CloseVerifiedSources, ClosureIssue
  <1>6. ClosedRight(closed, c1'.receipts)
    <2> HIDE DEF now, closed
    <2> QED
      BY <1>1, <1>2, <1>3, <1>5 DEF ClosedRight, ClosureRunOK, ClosureRuns, Closure!Unread
  <1>7. c4' \in ClosurePast /\ c4'.closed \subseteq c4.closed \cup {closed}
    <2> HIDE DEF closed
    <2>1. \/ c4' = [c4 EXCEPT !.closed = @ \cup {closed}]
          \/ c4' = [c4 EXCEPT !.faults = @ + 1]
          \/ c4' = [c4 EXCEPT !.faults = @ + 1, !.closed = @ \cup {closed}]
      BY DEF Closure!CloseVerifiedSources, Closure!Fail, Closure!Fault, closed
    <2>2. c4.faults + 1 \in Nat /\ c4.closed \cup {closed} \subseteq
            [run : Nat, judged : ClosureTexts, text : {0, 1}, ci : CiStates, edited : BOOLEAN, rerun : BOOLEAN]
      BY <1>1, <1>4 DEF ClosurePast
    <2> DEFINE more == c4.closed \cup {closed}
    <2> HIDE DEF more
    <2>3. CASE c4' = [c4 EXCEPT !.closed = more]
      BY <1>1, <2>2, <2>3 DEF ClosurePast, more
    <2>4. CASE c4' = [c4 EXCEPT !.faults = c4.faults + 1]
      BY <1>1, <2>2, <2>4 DEF ClosurePast
    <2>5. CASE c4' = [c4 EXCEPT !.faults = c4.faults + 1, !.closed = more]
      BY <1>1, <2>2, <2>5 DEF ClosurePast, more
    <2> QED
      BY <2>1, <2>3, <2>4, <2>5 DEF more
  <1>8. \A c \in c4'.closed : c \in c4.closed \/ ClosedRight(c, c1'.receipts)
    BY <1>6, <1>7
  <1>9. CASE Closure!End(r)
    <2>1. PICK new \in ClosureRuns : c3' = [c3 EXCEPT ![r] = new] /\ ClosureRunOK(new, r, c1, c2.merge)
      BY <1>9, ClosureOver
    <2>2. ClosureRunOK(new, r, c1', c2.merge)
      BY <1>5, <2>1 DEF ClosureRunOK
    <2> QED
      BY <1>2, <1>5, <1>7, <1>8, <2>1, <2>2, ClosureRunStep
  <1>10. CASE c3' = [c3 EXCEPT ![r] = [now EXCEPT !.phase = "failed"]]
    <2> DEFINE new == [now EXCEPT !.phase = "failed"]
    <2> HIDE DEF now
    <2>1. new \in ClosureRuns
      BY <1>1 DEF ClosureRuns, ClosurePhases
    <2>2. ClosureRunOK(new, r, c1', c2.merge)
      BY <1>1 DEF ClosureRuns, ClosureRunOK
    <2> QED
      BY <1>2, <1>5, <1>7, <1>8, <1>10, <2>1, <2>2, ClosureRunStep DEF now
  <1> QED
    BY <1>9, <1>10 DEF Closure!CloseVerifiedSources, Closure!Fail, Closure!Put, Closure!Now

\* An edit, or a run of the CI, is marked in whoever is between its reading and
\* its closing.
LEMMA ClosureMarks ==
    ASSUME ClosureInv, Closure!Edit \/ Closure!RunCi
    PROVE  ClosureInv'
  <1> DEFINE late(r) == c3[r].phase \in {"queried", "decided", "receipted"}
  <1>1. /\ c1 \in ClosureIssue /\ c2 \in [merge : CiStates, head : CiStates]
        /\ c3 \in Seq(ClosureRuns) /\ c4 \in ClosurePast
    BY DEF ClosureInv, ClosureType
  <1>2. /\ c4' \in ClosurePast /\ c4'.closed = c4.closed /\ c1' \in ClosureIssue
        /\ c1'.receipts = c1.receipts /\ c2' \in [merge : CiStates, head : CiStates]
    <2>1. c4' = c4 \/ c4' = [c4 EXCEPT !.events = @ + 1]
      BY DEF Closure!Edit, Closure!RunCi, Closure!More
    <2>2. c4' \in ClosurePast /\ c4'.closed = c4.closed
      BY <1>1, <2>1 DEF ClosurePast
    <2>3. c1' = c1 \/ c1' = [c1 EXCEPT !.text = 1 - @] \/ c1' = [c1 EXCEPT !.open = ~@]
      BY DEF Closure!Edit, Closure!RunCi
    <2>7. c1.text \in {0, 1} /\ 1 - c1.text \in {0, 1} /\ (~c1.open) \in BOOLEAN
      BY <1>1 DEF ClosureIssue
    <2>8. \A x \in {0, 1} : [c1 EXCEPT !.text = x] \in ClosureIssue
                          /\ [c1 EXCEPT !.text = x].receipts = c1.receipts
      BY <1>1 DEF ClosureIssue
    <2>9. \A x \in BOOLEAN : [c1 EXCEPT !.open = x] \in ClosureIssue
                           /\ [c1 EXCEPT !.open = x].receipts = c1.receipts
      BY <1>1 DEF ClosureIssue
    <2>4. c1' \in ClosureIssue /\ c1'.receipts = c1.receipts
      BY <1>1, <2>3, <2>7, <2>8, <2>9
    <2>5. c2' = c2 \/ \E s \in {"merge", "head"}, c \in CiStates : c2' = [c2 EXCEPT ![s] = c]
      BY DEF Closure!Edit, Closure!RunCi, Closure!Shas, CiStates
    <2>6. c2' \in [merge : CiStates, head : CiStates]
      BY <1>1, <2>5
    <2> QED
      BY <2>2, <2>4, <2>6
  <1>3. CASE c3' = c3 /\ c1'.text = c1.text /\ c2' = c2
    <2>1. \A r \in 1..Len(c3) : ClosureRunOK(c3'[r], r, c1', c2'.merge)
      BY <1>2, <1>3 DEF ClosureInv, ClosureRunOK
    <2> QED
      BY <1>1, <1>2, <1>3, <2>1 DEF ClosureInv, ClosureType
  <1>4. ASSUME NEW field \in {"edited", "rerun"}, Closure!Mark(field),
               c1'.text = c1.text \/ field = "edited", c2' = c2 \/ field = "rerun"
        PROVE  ClosureInv'
    <2> DEFINE new(r) == IF late(r) THEN [c3[r] EXCEPT ![field] = TRUE] ELSE c3[r]
    <2>1. c3' = [r \in 1..Len(c3) |-> new(r)] /\ Len(c3) \in Nat
      BY <1>1, <1>4 DEF Closure!Mark
    <2>2. ASSUME NEW r \in 1..Len(c3)
          PROVE  new(r) \in ClosureRuns /\ ClosureRunOK(new(r), r, c1', c2'.merge)
      <3>1. c3[r] \in ClosureRuns /\ ClosureRunOK(c3[r], r, c1, c2.merge)
        BY <2>2, ClosureRunType
      <3> DEFINE now == c3[r]
      <3> HIDE DEF now
      <3>2. CASE ~late(r)
        BY <1>2, <3>1, <3>2 DEF ClosureRunOK
      <3>3. CASE late(r)
        <4>1. new(r) = [now EXCEPT ![field] = TRUE] /\ now.phase \in {"queried", "decided", "receipted"}
              /\ now \in ClosureRuns /\ ClosureRunOK(now, r, c1, c2.merge)
          BY <3>1, <3>3 DEF now
        <4> HIDE DEF new
        <4>2. CASE field = "edited"
          <5>1. /\ new(r) = [now EXCEPT !.edited = TRUE] /\ c2' = c2
            BY <1>4, <4>1, <4>2
          <5> QED
            BY <1>2, <4>1, <5>1 DEF ClosureRunOK, ClosureRuns
        <4>3. CASE field = "rerun"
          <5>1. /\ new(r) = [now EXCEPT !.rerun = TRUE] /\ c1'.text = c1.text
            BY <1>4, <4>1, <4>3
          <5> QED
            BY <1>2, <4>1, <5>1 DEF ClosureRunOK, ClosureRuns
        <4> QED
          BY <1>4, <4>2, <4>3
      <3> QED
        BY <3>2, <3>3
    <2> HIDE DEF new
    <2>3. c3' \in Seq(ClosureRuns) /\ Len(c3') = Len(c3)
      BY <2>1, <2>2
    <2>4. \A r \in 1..Len(c3') : ClosureRunOK(c3'[r], r, c1', c2'.merge)
      BY <2>1, <2>2, <2>3
    <2> QED
      BY <1>2, <2>3, <2>4 DEF ClosureInv, ClosureType
  <1>5. CASE Closure!Edit
    BY <1>1, <1>3, <1>4, <1>5 DEF Closure!Edit, ClosureIssue
  <1>6. CASE Closure!RunCi
    BY <1>4, <1>6 DEF Closure!RunCi
  <1> QED
    BY <1>5, <1>6

\* A run that starts knows nothing yet.
LEMMA ClosureStarts ==
    ASSUME ClosureInv, Closure!Start
    PROVE  ClosureInv'
  <1>1. /\ c3' = Append(c3, Closure!Idle) /\ UNCHANGED <<c1, c2, c4>> /\ c3 \in Seq(ClosureRuns)
    BY DEF Closure!Start, ClosureInv, ClosureType
  <1>2. Closure!Idle \in ClosureRuns
    BY DEF Closure!Idle, Closure!Unread, ClosureRuns, ClosurePhases, ClosureTexts
  <1>3. \A r : ClosureRunOK(Closure!Idle, r, c1, c2.merge)
    BY DEF Closure!Idle, Closure!Unread, ClosureRunOK
  <1>4. c3' \in Seq(ClosureRuns) /\ \A r \in 1..Len(c3') : c3'[r] = Closure!Idle \/ (r \in 1..Len(c3) /\ c3'[r] = c3[r])
    BY <1>1, <1>2
  <1> QED
    BY <1>1, <1>3, <1>4 DEF ClosureInv, ClosureType

\* Every step of the closing jobs, and of those around them, keeps the invariant.
LEMMA ClosureStep ==
    ASSUME ClosureInv, [Closure!Next]_Closure!vars
    PROVE  ClosureInv'
  <1>1. c3 \in Seq(ClosureRuns) /\ DOMAIN c3 = 1..Len(c3)
    BY DEF ClosureInv, ClosureType
  <1>2. CASE UNCHANGED Closure!vars
    BY <1>2 DEF Closure!vars, ClosureInv, ClosureType
  <1>3. CASE Closure!Next
    BY <1>1, <1>3, ClosureStarts, ClosureMarks, ClosureJudges, ClosureReads, ClosureReceipts,
       ClosureCloses DEF Closure!Next
  <1> QED
    BY <1>2, <1>3

\* An issue is closed only for a verdict on the text it has and with the CI on
\* the merge green, but for what changed between the job's reading and its
\* closing; and what is closed has its receipt (verifier_closure.js).
THEOREM ClosedAsJudgedAlways == Spec => []ClosedAsJudged
  <1>1. Init /\ Closing => ClosureInv
    <2>1. Init /\ Closing => Closure!Init
      BY DEF Init, Closing
    <2>2. Closure!Init => ClosureInv
      <3> SUFFICES ASSUME Closure!Init PROVE ClosureInv
        OBVIOUS
      <3>1. c1 \in ClosureIssue /\ c2 \in [merge : CiStates, head : CiStates]
        BY DEF Closure!Init, ClosureIssue, CiStates
      <3>2. c3 = <<>> /\ c4 \in ClosurePast /\ c4.closed = {}
        BY DEF Closure!Init, ClosurePast
      <3> QED
        BY <3>1, <3>2 DEF ClosureInv, ClosureType
    <2> QED
      BY <2>1, <2>2
  <1>2. [Next]_<<part, cells>> => (Closing <=> Closing')
    BY DEF Next, Closing, cells
  <1>3. [Next]_<<part, cells>> /\ Closing => [Closure!Next]_Closure!vars
    BY DEF Next, Closing, cells, Closure!vars
  <1>4. (Closing => ClosureInv) /\ [Next]_<<part, cells>> => (Closing => ClosureInv)'
    BY <1>2, <1>3, ClosureStep
  <1>5. (Closing => ClosureInv) => ClosedAsJudged
    BY DEF ClosedAsJudged, Closure!ClosedAsJudged, Closing, ClosureInv, ClosedRight
  <1>6. Init => (Closing => ClosureInv)
    BY <1>1
  <1> QED
    BY <1>4, <1>5, <1>6, PTL DEF Spec

-----------------------------------------------------------------------------
(* GateComments: c1 holds the comments, c2 the run, c3 the requests of      *)
(* cancelled runs, c4 the past.                                             *)

Gating == part = "comments"

GateTexts == Comments!Reasons \cup Nat
GateComment == [id : Nat \ {0}, kind : {"marker", "legacy", "summary"}, text : GateTexts]
GateRequest == [op : {"create", "update", "delete"}, id : Nat, kind : {"marker", "summary"}, text : GateTexts]
GateRun ==
    [phase : {"none", "docs", "write", "delete", "summary", "upsert", "over"}, head : Nat,
     reason : Comments!Reasons, target : Nat, rest : SUBSET Nat, clean : BOOLEAN]
GatePast == [runs : Nat, faults : Nat, ids : Nat, late : Nat, agent : BOOLEAN]

IdsOf(s) == {c.id : c \in s}
DocsOf(s) == {c \in s : c.kind # "summary"}
SummariesOf(s) == {c \in s : c.kind = "summary"}

\* n is the newest identifier.
Sane(s, n) ==
    /\ s \subseteq GateComment /\ IsFiniteSet(s) /\ n \in Nat
    /\ \A c \in s : c.id <= n
    /\ \A c, d \in s : c.id = d.id => c = d

\* What i names, if it is still there, is a summary exactly if k is.
Names(i, k, s, n) ==
    /\ i \in 0..n
    /\ \A c \in s : c.id = i => (c.kind = "summary" <=> k = "summary")

Fitting(q, s, n) ==
    /\ q \in GateRequest /\ Names(q.id, q.kind, s, n)
    /\ q.op = "create" <=> q.id = 0

\* The comments after a request.
Created(q) == q.op = "create"
NewestId(q, n) == IF Created(q) THEN n + 1 ELSE n
After(q, s, n) ==
    LET others == {c \in s : c.id # q.id}
    IN  IF q.op = "delete" THEN others
        ELSE others \cup {[id |-> IF Created(q) THEN n + 1 ELSE q.id, kind |-> q.kind, text |-> q.text]}

\* A request changes one comment, and what identifiers name stays.
LEMMA AfterOK ==
    ASSUME NEW s, NEW n, Sane(s, n), NEW q, Fitting(q, s, n), Created(q) \/ q.id \in IdsOf(s)
    PROVE  LET d == After(q, s, n)
               m == NewestId(q, n)
           IN  /\ Sane(d, m)
               /\ \A i, k : Names(i, k, s, n) => Names(i, k, d, m)
               /\ Cardinality(SummariesOf(d)) <=
                    Cardinality(SummariesOf(s)) + (IF Created(q) /\ q.kind = "summary" THEN 1 ELSE 0)
               /\ q.kind = "summary" => DocsOf(d) = DocsOf(s)
  <1> DEFINE others == {c \in s : c.id # q.id}
             new == [id |-> IF Created(q) THEN n + 1 ELSE q.id, kind |-> q.kind, text |-> q.text]
             d == After(q, s, n)
             m == NewestId(q, n)
  <1>1. /\ s \subseteq GateComment /\ IsFiniteSet(s) /\ n \in Nat /\ q \in GateRequest
        /\ q.id \in 0..n /\ m \in Nat /\ n <= m
        /\ \A c \in s : c.id \in Nat /\ c.id # 0 /\ c.id <= n
        /\ \A c, e \in s : c.id = e.id => c = e
        /\ \A c \in s : c.id = q.id => (c.kind = "summary" <=> q.kind = "summary")
    BY DEF Sane, Fitting, Names, NewestId, GateComment
  <1>2. /\ new \in GateComment /\ new.id <= m /\ new.kind = q.kind
        /\ new.id = IF Created(q) THEN n + 1 ELSE q.id
    BY <1>1 DEF GateComment, GateRequest, NewestId, Fitting, Created
  <1>3. d = IF q.op = "delete" THEN others ELSE others \cup {new}
    BY DEF After
  <1>4. Created(q) => others = s /\ q.op # "delete"
    BY <1>1 DEF Fitting, Created
  <1> HIDE DEF new, d, m
  <1>5. /\ IsFiniteSet(others) /\ others \subseteq s
    BY <1>1, FS_Subset
  <1>6. IsFiniteSet(d)
    BY <1>3, <1>5, FS_AddElement
  <1>7. \A c \in others : c.id # new.id
    BY <1>1, <1>2, <1>4
  <1>8. Sane(d, m)
    <2>1. d \subseteq GateComment
      BY <1>1, <1>2, <1>3, <1>5
    <2>2. \A c \in d : c \in s \/ c = new
      BY <1>3, <1>5
    <2>3. \A c \in d : c.id <= m
      BY <1>1, <1>2, <2>2
    <2>4. \A c, e \in d : c.id = e.id => c = e
      BY <1>1, <1>3, <1>7
    <2> QED
      BY <1>1, <1>6, <2>1, <2>3, <2>4 DEF Sane
  <1>9. ASSUME NEW i, NEW k, Names(i, k, s, n) PROVE Names(i, k, d, m)
    <2>1. i \in 0..m /\ i # n + 1
      BY <1>1, <1>9 DEF Names
    <2>2. new.id = i => (q.kind = "summary" <=> k = "summary")
      <3>1. CASE Created(q)
        BY <1>2, <2>1, <3>1
      <3>2. CASE ~Created(q)
        <4>1. PICK c \in s : c.id = q.id
          BY <3>2 DEF IdsOf
        <4> QED
          BY <1>1, <1>2, <1>9, <3>2, <4>1 DEF Names
      <3> QED
        BY <3>1, <3>2
    <2> QED
      BY <1>2, <1>3, <1>5, <1>9, <2>1, <2>2 DEF Names
  <1>10. q.kind = "summary" => DocsOf(d) = DocsOf(s)
    BY <1>1, <1>2, <1>3 DEF DocsOf
  <1>11. Cardinality(SummariesOf(d)) <=
           Cardinality(SummariesOf(s)) + (IF Created(q) /\ q.kind = "summary" THEN 1 ELSE 0)
    <2> DEFINE S == SummariesOf(s)
               R == SummariesOf(others)
    <2>1. /\ IsFiniteSet(S) /\ IsFiniteSet(R) /\ R \subseteq S
          /\ Cardinality(S) \in Nat /\ Cardinality(R) \in Nat /\ Cardinality(R) <= Cardinality(S)
      BY <1>1, <1>5, FS_Subset, FS_CardinalityType DEF SummariesOf
    <2>2. CASE q.kind # "summary" \/ q.op = "delete"
      <3>1. SummariesOf(d) = R
        BY <1>2, <1>3, <2>2 DEF SummariesOf
      <3>2. Created(q) /\ q.kind = "summary" => FALSE
        BY <1>4, <2>2
      <3> QED
        BY <2>1, <3>1, <3>2
    <2>3. CASE q.kind = "summary" /\ q.op # "delete"
      <3>1. SummariesOf(d) = R \cup {new} /\ new \notin R
        BY <1>2, <1>3, <1>7, <2>3 DEF SummariesOf
      <3>2. Cardinality(SummariesOf(d)) = Cardinality(R) + 1
        BY <2>1, <3>1, FS_AddElement
      <3>3. CASE Created(q)
        BY <2>1, <2>3, <3>2, <3>3
      <3>4. CASE ~Created(q)
        <4>1. PICK c \in s : c.id = q.id
          BY <3>4 DEF IdsOf
        <4>2. c \in S /\ c \notin R
          BY <1>1, <2>3, <4>1 DEF SummariesOf
        <4>3. R \subseteq S \ {c} /\ IsFiniteSet(S \ {c}) /\ Cardinality(S \ {c}) = Cardinality(S) - 1
          BY <2>1, <4>2, FS_RemoveElement
        <4>4. Cardinality(R) <= Cardinality(S) - 1
          BY <4>3, FS_Subset
        <4> QED
          BY <2>1, <3>2, <3>4, <4>4
      <3> QED
        BY <3>3, <3>4
    <2> QED
      BY <2>2, <2>3
  <1> QED
    BY <1>8, <1>9, <1>10, <1>11 DEF d, m

\* The comments on skipped checks are those of rest, and one more that says
\* why, unless the checks ran.
Says(s, i, reason) == \E c \in s : c.id = i /\ c.kind = "marker" /\ c.text = reason
SaysWhy(s, rest, reason) ==
    IF reason = "heavy" THEN IdsOf(DocsOf(s)) = rest
    ELSE \E i \in Nat : i \notin rest /\ Says(s, i, reason) /\ IdsOf(DocsOf(s)) = rest \cup {i}

\* What an undisturbed run has reached.
ReachedBy(run, s, agent) ==
    /\ run.phase = "write" =>
          /\ run.reason # "heavy" /\ run.target \notin run.rest
          /\ run.target = 0 => run.rest = {}
          /\ IdsOf(DocsOf(s)) = run.rest \cup ({run.target} \ {0})
    /\ run.phase = "delete" => SaysWhy(s, run.rest, run.reason)
    /\ run.phase \in {"summary", "upsert", "over"} => SaysWhy(s, {}, run.reason)
    /\ run.phase = "over" /\ ~agent => \E c \in SummariesOf(s) : c.text = run.head

\* What the run holds is still what it took it for; and when it found no
\* summary, those there are now are late ones.
HeldBy(run, s, n, late) ==
    /\ run.phase = "write" => Names(run.target, "marker", s, n)
    /\ run.phase \in {"write", "delete"} => \A i \in run.rest : i # 0 /\ Names(i, "marker", s, n)
    /\ run.phase = "upsert" => /\ Names(run.target, "summary", s, n)
                               /\ run.target = 0 => Cardinality(SummariesOf(s)) <= late

GateInv ==
    /\ Sane(c1, c4.ids) /\ c2 \in GateRun /\ c4 \in GatePast
    /\ \A q \in c3 : Fitting(q, c1, c4.ids)
    /\ HeldBy(c2, c1, c4.ids, c4.late)
    /\ c2.clean => ReachedBy(c2, c1, c4.agent)
    /\ Cardinality(SummariesOf(c1)) <= 1 + c4.late

\* The operators of the module, in the words of the invariant.
LEMMA GateDefs ==
    ASSUME Sane(c1, c4.ids)
    PROVE  /\ Comments!Of({"marker", "legacy"}) = DocsOf(c1)
           /\ Comments!Of({"summary"}) = SummariesOf(c1)
           /\ \A i : Comments!Current(i) <=> Says(c1, i, c2.reason)
           /\ Comments!Ids = IdsOf(c1) /\ Comments!Nobody = 0
  <1>1. \A c \in c1 : c.kind \in {"marker", "legacy", "summary"}
    BY DEF Sane, GateComment
  <1>2. Comments!Of({"marker", "legacy"}) = DocsOf(c1)
    BY <1>1 DEF Comments!Of, DocsOf
  <1>3. Comments!Of({"summary"}) = SummariesOf(c1)
    BY <1>1 DEF Comments!Of, SummariesOf
  <1> QED
    BY <1>2, <1>3 DEF Comments!Current, Comments!Ids, Comments!Nobody, Says, IdsOf

\* There is a first of some comments, and a least of some numbers.
LEMMA Least ==
    ASSUME NEW S, S \subseteq Nat, S # {}
    PROVE  \E m \in S : \A x \in S : m <= x
  <1> DEFINE R == OpToRel(<, Nat)
  <1>1. PICK m \in S : \A y \in S : ~(<<y, m>> \in R)
    BY WFMin, NatLessThanWellFounded
  <1>2. ASSUME NEW y \in S PROVE m <= y
    <2>1. y \in Nat /\ m \in Nat
      OBVIOUS
    <2>2. ~(y < m)
      BY <1>1, <2>1 DEF OpToRel
    <2> QED
      BY <2>1, <2>2
  <1> QED
    BY <1>2

\* The first of some comments is one of them.
LEMMA FirstOne ==
    ASSUME NEW S, S \subseteq GateComment, S # {}
    PROVE  Comments!First(S) \in S
  <1> DEFINE I == {c.id : c \in S}
  <1>1. I \subseteq Nat /\ I # {}
    BY DEF GateComment
  <1>2. PICK m \in I : \A x \in I : m <= x
    BY <1>1, Least
  <1>3. PICK c \in S : m = c.id
    OBVIOUS
  <1>4. \A d \in S : c.id <= d.id
    BY <1>2, <1>3
  <1> QED
    BY <1>4 DEF Comments!First

\* The request a run is about to send fits, so it still does when it arrives.
LEMMA RequestFits ==
    ASSUME GateInv, NEW q \in Comments!Request
    PROVE  /\ Fitting(q, c1, c4.ids)
           /\ c2.phase = "write" => /\ q.kind = "marker" /\ q.op # "delete" /\ q.id = c2.target
                                    /\ q.text = c2.reason
           /\ c2.phase = "delete" => q.op = "delete" /\ q.id \in c2.rest
           /\ c2.phase = "upsert" => /\ q.kind = "summary" /\ q.op # "delete" /\ q.id = c2.target
                                     /\ q.text = c2.head
           /\ c2.phase \in {"write", "delete", "upsert"}
  <1>1. c2 \in GateRun /\ HeldBy(c2, c1, c4.ids, c4.late)
    BY DEF GateInv
  <1>2. /\ c2.reason \in GateTexts /\ c2.head \in GateTexts /\ c2.target \in Nat /\ c2.rest \subseteq Nat
        /\ "heavy" \in GateTexts
    BY <1>1 DEF GateRun, GateTexts, Comments!Reasons
  <1>3. CASE c2.phase = "write"
    <2>1. q = [op |-> IF c2.target = 0 THEN "create" ELSE "update", id |-> c2.target,
               kind |-> "marker", text |-> c2.reason]
      BY <1>3 DEF Comments!Request, Comments!Nobody
    <2> QED
      BY <1>1, <1>2, <1>3, <2>1 DEF Fitting, GateRequest, HeldBy
  <1>4. CASE c2.phase = "upsert"
    <2>1. q = [op |-> IF c2.target = 0 THEN "create" ELSE "update", id |-> c2.target,
               kind |-> "summary", text |-> c2.head]
      BY <1>4 DEF Comments!Request, Comments!Nobody
    <2> QED
      BY <1>1, <1>2, <1>4, <2>1 DEF Fitting, GateRequest, HeldBy
  <1>5. CASE c2.phase = "delete"
    <2> DEFINE i == CHOOSE x \in c2.rest : \A y \in c2.rest : x <= y
    <2>1. /\ c2.rest # {}
          /\ q = [op |-> "delete", id |-> i, kind |-> "marker", text |-> "heavy"]
      BY <1>5 DEF Comments!Request
    <2>2. i \in c2.rest
      BY <1>2, <2>1, Least
    <2> HIDE DEF i
    <2> QED
      BY <1>1, <1>2, <1>5, <2>1, <2>2 DEF Fitting, GateRequest, HeldBy
  <1>6. c2.phase \in {"write", "delete", "upsert"}
    BY DEF Comments!Request
  <1> QED
    BY <1>3, <1>4, <1>5, <1>6

\* A request is carried out: what the others name stays, and there is a summary
\* more only if one is created.
LEMMA GateEffect ==
    ASSUME GateInv, NEW q, Fitting(q, c1, c4.ids), ~Comments!Missing(q), Comments!Effect(q)
    PROVE  LET n == NewestId(q, c4.ids)
           IN  /\ c1' = After(q, c1, c4.ids) /\ Sane(c1', n) /\ n \in Nat /\ Comments!NextId(q) = n
               /\ \A i, k : Names(i, k, c1, c4.ids) => Names(i, k, c1', n)
               /\ \A p : Fitting(p, c1, c4.ids) => Fitting(p, c1', n)
               /\ Cardinality(SummariesOf(c1')) \in Nat /\ Cardinality(SummariesOf(c1)) \in Nat
               /\ Cardinality(SummariesOf(c1')) <=
                    Cardinality(SummariesOf(c1)) + (IF Created(q) /\ q.kind = "summary" THEN 1 ELSE 0)
               /\ q.kind = "summary" => DocsOf(c1') = DocsOf(c1)
  <1>1. c1' = After(q, c1, c4.ids)
    BY DEF Comments!Effect, After, Created
  <1>2. Created(q) \/ q.id \in IdsOf(c1)
    BY DEF Comments!Missing, Comments!Ids, IdsOf, Created
  <1>3. Comments!NextId(q) = NewestId(q, c4.ids)
    BY DEF Comments!NextId, NewestId, Created
  <1>4. Sane(c1, c4.ids)
    BY DEF GateInv
  <1> DEFINE n == NewestId(q, c4.ids)
  <1>5. /\ Sane(c1', n) /\ \A i, k : Names(i, k, c1, c4.ids) => Names(i, k, c1', n)
        /\ Cardinality(SummariesOf(c1')) <=
             Cardinality(SummariesOf(c1)) + (IF Created(q) /\ q.kind = "summary" THEN 1 ELSE 0)
        /\ q.kind = "summary" => DocsOf(c1') = DocsOf(c1)
    BY <1>1, <1>2, <1>4, AfterOK
  <1> HIDE DEF n
  <1>6. \A p : Fitting(p, c1, c4.ids) => Fitting(p, c1', n)
    BY <1>5 DEF Fitting
  <1>7. Cardinality(SummariesOf(c1')) \in Nat /\ Cardinality(SummariesOf(c1)) \in Nat
    BY <1>4, <1>5, FS_Subset, FS_CardinalityType DEF Sane, SummariesOf
  <1>8. n \in Nat
    BY <1>5 DEF Sane
  <1> QED
    BY <1>1, <1>3, <1>5, <1>6, <1>7, <1>8 DEF n

\* The comments stay, and the run goes on.
LEMMA GateQuietStep ==
    ASSUME GateInv, c1' = c1, c3' = c3, c4' = c4 \/ Comments!Fault, c2' \in GateRun,
           HeldBy(c2', c1, c4.ids, c4.late), c2'.clean => ReachedBy(c2', c1, c4.agent)
    PROVE  GateInv'
  <1>1. c4' \in GatePast /\ c4'.ids = c4.ids /\ c4'.late = c4.late /\ c4'.agent = c4.agent
    BY DEF GateInv, GatePast, Comments!Fault
  <1> QED
    BY <1>1 DEF GateInv

\* Where a run gives up nothing more is said of it.
LEMMA GateGives ==
    ASSUME GateInv, c1' = c1, c3' = c3, c4' = c4 \/ Comments!Fault,
           NEW phase \in {"summary", "over"}, Comments!Give(phase)
    PROVE  GateInv'
  <1>1. c2 \in GateRun
    BY DEF GateInv
  <1>2. /\ c2' \in GateRun /\ c2'.phase \in {"summary", "over"} /\ ~c2'.clean
    BY <1>1 DEF Comments!Give, GateRun
  <1>3. HeldBy(c2', c1, c4.ids, c4.late)
    BY <1>2 DEF HeldBy
  <1> QED
    BY <1>2, <1>3, GateQuietStep

\* A new run has all still to do; a request of the run it cancels may stay on its way.
LEMMA GateTriggers ==
    ASSUME GateInv, Comments!Trigger
    PROVE  GateInv'
  <1>1. /\ c1' = c1 /\ c4' = [c4 EXCEPT !.runs = @ + 1] /\ c2 \in GateRun /\ c4 \in GatePast
    BY DEF Comments!Trigger, GateInv
  <1>2. c4' \in GatePast /\ c4'.ids = c4.ids /\ c4'.late = c4.late
    BY <1>1 DEF GatePast
  <1>3. PICK h \in Nat, reason \in Comments!Reasons :
          c2' = [phase |-> "docs", head |-> h, reason |-> reason, target |-> 0, rest |-> {}, clean |-> TRUE]
    <2>1. PICK h \in {c2.head, c2.head + 1} \ {0}, reason \in Comments!Reasons :
            c2' = [phase |-> "docs", head |-> h, reason |-> reason, target |-> 0, rest |-> {},
                   clean |-> TRUE]
      BY DEF Comments!Trigger, Comments!Nobody
    <2>2. h \in Nat
      BY <1>1 DEF GateRun
    <2> QED
      BY <2>1, <2>2
  <1>4. c2' \in GateRun /\ c2'.phase = "docs"
    BY <1>3 DEF GateRun
  <1>5. \A q \in c3' : Fitting(q, c1, c4.ids)
    BY RequestFits DEF Comments!Trigger, GateInv
  <1>6. HeldBy(c2', c1, c4.ids, c4.late) /\ ReachedBy(c2', c1, c4'.agent)
    BY <1>4 DEF HeldBy, ReachedBy
  <1> QED
    BY <1>1, <1>2, <1>4, <1>5, <1>6 DEF GateInv

\* The job finds what is there.
LEMMA GateLists ==
    ASSUME GateInv, Comments!ListDocsComments
    PROVE  GateInv'
  <1> DEFINE all == IdsOf(DocsOf(c1))
             target == IF c2.reason = "heavy" THEN Comments!Nobody ELSE Comments!SelectMarkerComment
             kept == c2.reason = "heavy" \/ Comments!Current(target)
             new == [c2 EXCEPT !.phase = IF kept THEN "delete" ELSE "write", !.target = target,
                               !.rest = all \ {target}]
  <1>1. CASE Comments!Fault /\ Comments!Give("summary")
    BY <1>1, GateGives DEF Comments!ListDocsComments
  <1>2. CASE c2' = new /\ c4' = c4
    <2>1. /\ c1' = c1 /\ c3' = c3 /\ c2 \in GateRun /\ Sane(c1, c4.ids)
      BY DEF Comments!ListDocsComments, GateInv
    <2>2. /\ DocsOf(c1) \subseteq GateComment /\ all \subseteq Nat \ {0} /\ all \subseteq 0..c4.ids
          /\ \A i \in all : Names(i, "marker", c1, c4.ids)
      BY <2>1 DEF Sane, DocsOf, IdsOf, GateComment, Names
    <2>3. Names(0, "marker", c1, c4.ids)
      BY <2>1 DEF Sane, GateComment, Names
    <2>4. target \in all \/ (target = 0 /\ (c2.reason = "heavy" \/ all = {}))
      <3> DEFINE M == Comments!Of({"marker"})
      <3>1. M \subseteq DocsOf(c1)
        BY DEF Comments!Of, DocsOf
      <3>2. Comments!First(M) \in M \/ M = {}
        BY <2>2, <3>1, FirstOne
      <3>3. Comments!First(DocsOf(c1)) \in DocsOf(c1) \/ DocsOf(c1) = {}
        BY <2>2, FirstOne
      <3>4. Comments!SelectMarkerComment \in all \/ (Comments!SelectMarkerComment = 0 /\ DocsOf(c1) = {})
        <4>1. Comments!SelectMarkerComment =
                IF DocsOf(c1) = {} THEN 0
                ELSE IF M # {} THEN Comments!First(M).id ELSE Comments!First(DocsOf(c1)).id
          BY <2>1, GateDefs DEF Comments!SelectMarkerComment
        <4> QED
          BY <3>1, <3>2, <3>3, <4>1 DEF IdsOf
      <3> QED
        BY <3>4 DEF Comments!Nobody, IdsOf
    <2>5. kept <=> c2.reason = "heavy" \/ Says(c1, target, c2.reason)
      BY <2>1, GateDefs
    <2> DEFINE phase == IF kept THEN "delete" ELSE "write"
               rest == all \ {target}
    <2>6. target \in Nat /\ target \notin rest /\ rest \subseteq all /\ all \subseteq Nat
      BY <2>2, <2>4
    <2> HIDE DEF all, target, kept
    <2>7. /\ new \in GateRun /\ new.phase = phase /\ new.target = target /\ new.rest = rest
          /\ new.reason = c2.reason
      BY <2>1, <2>6 DEF GateRun
    <2>8. Names(target, "marker", c1, c4.ids)
      BY <2>2, <2>3, <2>4
    <2>9. \A i \in rest : i # 0 /\ Names(i, "marker", c1, c4.ids)
      BY <2>2
    <2>10. CASE kept
      <3>1. SaysWhy(c1, rest, c2.reason)
        <4>1. CASE c2.reason = "heavy"
          <5>1. target = 0
            BY <4>1 DEF target, Comments!Nobody
          <5> QED
            BY <2>2, <4>1, <5>1 DEF SaysWhy, all
        <4>2. CASE c2.reason # "heavy" /\ Says(c1, target, c2.reason)
          <5>1. target \in all
            BY <2>1, <4>2 DEF Says, all, IdsOf, DocsOf
          <5>2. all = rest \cup {target}
            BY <5>1
          <5> QED
            BY <2>6, <4>2, <5>2 DEF SaysWhy, all
        <4> QED
          BY <2>5, <2>10, <4>1, <4>2
      <3>2. new.phase = "delete"
        BY <2>7, <2>10
      <3> HIDE DEF new, rest
      <3>3. HeldBy(new, c1, c4.ids, c4.late) /\ ReachedBy(new, c1, c4.agent)
        BY <2>7, <2>9, <3>1, <3>2 DEF HeldBy, ReachedBy
      <3> QED
        BY <1>2, <2>1, <2>7, <3>3, GateQuietStep
    <2>11. CASE ~kept
      <3>1. new.phase = "write" /\ c2.reason # "heavy"
        BY <2>5, <2>7, <2>11
      <3>2. target = 0 => rest = {}
        BY <2>2, <2>4, <3>1
      <3>3. all = rest \cup ({target} \ {0})
        BY <2>2, <2>4, <3>1
      <3> HIDE DEF new, rest
      <3>4. HeldBy(new, c1, c4.ids, c4.late) /\ ReachedBy(new, c1, c4.agent)
        BY <2>6, <2>7, <2>8, <2>9, <3>1, <3>2, <3>3 DEF HeldBy, ReachedBy, all
      <3> QED
        BY <1>2, <2>1, <2>7, <3>4, GateQuietStep
    <2> QED
      BY <2>10, <2>11
  <1>3. Sane(c1, c4.ids) /\ all = {c.id : c \in Comments!Of({"marker", "legacy"})}
    BY GateDefs DEF GateInv, IdsOf
  <1> HIDE DEF all
  <1> QED
    BY <1>1, <1>2, <1>3 DEF Comments!ListDocsComments

\* What the job writes is what the next step counts on.
LEMMA GateWrites ==
    ASSUME GateInv, Comments!WriteDocsComment
    PROVE  GateInv'
  <1>1. /\ c2.phase = "write" /\ c3' = c3 /\ c2 \in GateRun /\ c4 \in GatePast /\ Sane(c1, c4.ids)
    BY DEF Comments!WriteDocsComment, GateInv
  <1>2. PICK q \in Comments!Request :
          \/ /\ ~Comments!Missing(q) /\ Comments!Effect(q) /\ Comments!Go("delete")
             /\ c4' = [c4 EXCEPT !.ids = Comments!NextId(q)]
          \/ Comments!Give("summary") /\ c1' = c1 /\ (c4' = c4 \/ Comments!Fault)
    BY DEF Comments!WriteDocsComment
  <1>3. /\ Fitting(q, c1, c4.ids) /\ q.kind = "marker" /\ q.op # "delete" /\ q.id = c2.target
        /\ q.text = c2.reason
    BY <1>1, RequestFits
  <1>4. CASE Comments!Give("summary") /\ c1' = c1 /\ (c4' = c4 \/ Comments!Fault)
    BY <1>1, <1>4, GateGives
  <1>5. CASE /\ ~Comments!Missing(q) /\ Comments!Effect(q) /\ Comments!Go("delete")
             /\ c4' = [c4 EXCEPT !.ids = Comments!NextId(q)]
    <2> DEFINE n == NewestId(q, c4.ids)
    <2>1. /\ c1' = After(q, c1, c4.ids) /\ Sane(c1', n) /\ n \in Nat /\ Comments!NextId(q) = n
          /\ \A i, k : Names(i, k, c1, c4.ids) => Names(i, k, c1', n)
          /\ \A p : Fitting(p, c1, c4.ids) => Fitting(p, c1', n)
          /\ Cardinality(SummariesOf(c1')) \in Nat /\ Cardinality(SummariesOf(c1)) \in Nat
          /\ Cardinality(SummariesOf(c1')) <= Cardinality(SummariesOf(c1))
      BY <1>3, <1>5, GateEffect
    <2> HIDE DEF n
    <2>2. /\ c4' \in GatePast /\ c4'.ids = n /\ c4'.late = c4.late /\ c4'.agent = c4.agent
      BY <1>1, <1>5, <2>1 DEF GatePast
    <2>3. /\ c2' \in GateRun /\ c2'.phase = "delete" /\ c2'.rest = c2.rest /\ c2'.reason = c2.reason
          /\ c2'.clean = c2.clean
      BY <1>1, <1>5 DEF Comments!Go, GateRun
    <2>4. c2.clean => SaysWhy(c1', c2.rest, c2.reason)
      <3> SUFFICES ASSUME c2.clean PROVE SaysWhy(c1', c2.rest, c2.reason)
        OBVIOUS
      <3>1. /\ c2.reason # "heavy" /\ c2.target \notin c2.rest
            /\ c2.target = 0 => c2.rest = {}
            /\ IdsOf(DocsOf(c1)) = c2.rest \cup ({c2.target} \ {0})
        BY <1>1 DEF GateInv, ReachedBy
      <3> DEFINE i == IF Created(q) THEN c4.ids + 1 ELSE q.id
                 new == [id |-> i, kind |-> q.kind, text |-> q.text]
      <3>2. c1' = {c \in c1 : c.id # q.id} \cup {new}
        BY <1>3, <2>1 DEF After
      <3>3. new.id = i /\ new.kind = "marker" /\ new.text = c2.reason
        BY <1>3
      <3>4. Created(q) <=> c2.target = 0
        BY <1>3 DEF Fitting, Created
      <3>5. i \in Nat /\ i \notin c2.rest
        <4>1. CASE Created(q)
          BY <1>1, <3>1, <3>4, <4>1 DEF GatePast
        <4>2. CASE ~Created(q)
          BY <1>1, <1>3, <3>1, <4>2 DEF GateRun
        <4> QED
          BY <4>1, <4>2
      <3> HIDE DEF new
      <3>6. Says(c1', i, c2.reason)
        BY <3>2, <3>3 DEF Says
      <3>7. DocsOf(c1') = {c \in DocsOf(c1) : c.id # q.id} \cup {new}
        BY <3>2, <3>3 DEF DocsOf
      <3>8. IdsOf(DocsOf(c1')) = (IdsOf(DocsOf(c1)) \ {q.id}) \cup {i}
        <4> DEFINE D == DocsOf(c1)
        <4> HIDE DEF D
        <4>1. IdsOf({c \in D : c.id # q.id} \cup {new}) = (IdsOf(D) \ {q.id}) \cup {i}
          BY <3>3 DEF IdsOf
        <4> QED
          BY <3>7, <4>1 DEF D
      <3>9. IdsOf(DocsOf(c1')) = c2.rest \cup {i}
        BY <1>3, <3>1, <3>4, <3>8
      <3> QED
        BY <3>1, <3>5, <3>6, <3>9 DEF SaysWhy
    <2>5. HeldBy(c2', c1', n, c4.late)
      <3>1. \A j \in c2.rest : j # 0 /\ Names(j, "marker", c1, c4.ids)
        BY <1>1 DEF GateInv, HeldBy
      <3> QED
        BY <2>1, <2>3, <3>1 DEF HeldBy
    <2>6. c2'.clean => ReachedBy(c2', c1', c4.agent)
      BY <2>3, <2>4 DEF ReachedBy
    <2> QED
      BY <1>1, <2>1, <2>2, <2>3, <2>5, <2>6 DEF GateInv, GatePast
  <1> QED
    BY <1>2, <1>4, <1>5

\* Of the rest one after the other goes.
LEMMA GateDeletes ==
    ASSUME GateInv, Comments!DeleteDuplicate
    PROVE  GateInv'
  <1>1. /\ c2.phase = "delete" /\ c3' = c3 /\ c2 \in GateRun /\ c4 \in GatePast /\ Sane(c1, c4.ids)
        /\ HeldBy(c2, c1, c4.ids, c4.late)
    BY DEF Comments!DeleteDuplicate, GateInv
  <1>2. CASE c2.rest = {} /\ Comments!Go("summary") /\ c1' = c1 /\ c4' = c4
    <2>1. /\ c2' \in GateRun /\ c2'.phase = "summary" /\ c2'.reason = c2.reason /\ c2'.clean = c2.clean
      BY <1>1, <1>2 DEF Comments!Go, GateRun
    <2>2. HeldBy(c2', c1, c4.ids, c4.late)
      BY <2>1 DEF HeldBy
    <2>3. c2'.clean => ReachedBy(c2', c1, c4.agent)
      BY <1>1, <1>2, <2>1 DEF GateInv, ReachedBy
    <2> QED
      BY <1>1, <1>2, <2>1, <2>2, <2>3, GateQuietStep
  <1>3. CASE Comments!Give("summary") /\ c1' = c1 /\ (c4' = c4 \/ Comments!Fault)
    BY <1>1, <1>3, GateGives
  <1>4. ASSUME NEW q \in Comments!Request, ~Comments!Missing(q), Comments!Effect(q), c4' = c4,
               c2' = [c2 EXCEPT !.rest = @ \ {q.id}]
        PROVE  GateInv'
    <2>1. Fitting(q, c1, c4.ids) /\ q.op = "delete" /\ q.id \in c2.rest
      BY <1>1, <1>4, RequestFits
    <2>2. NewestId(q, c4.ids) = c4.ids /\ ~Created(q)
      BY <2>1 DEF NewestId, Created
    <2>3. /\ c1' = After(q, c1, c4.ids) /\ Sane(c1', c4.ids)
          /\ \A i, k : Names(i, k, c1, c4.ids) => Names(i, k, c1', c4.ids)
          /\ \A p : Fitting(p, c1, c4.ids) => Fitting(p, c1', c4.ids)
          /\ Cardinality(SummariesOf(c1')) \in Nat /\ Cardinality(SummariesOf(c1)) \in Nat
          /\ Cardinality(SummariesOf(c1')) <= Cardinality(SummariesOf(c1))
      BY <1>4, <2>1, <2>2, GateEffect
    <2>4. /\ c2' \in GateRun /\ c2'.phase = "delete" /\ c2'.rest = c2.rest \ {q.id}
          /\ c2'.reason = c2.reason /\ c2'.clean = c2.clean
      BY <1>1, <1>4 DEF GateRun
    <2>5. HeldBy(c2', c1', c4.ids, c4.late)
      BY <1>1, <2>3, <2>4 DEF HeldBy
    <2>6. ASSUME c2.clean PROVE SaysWhy(c1', c2'.rest, c2.reason)
      <3>1. SaysWhy(c1, c2.rest, c2.reason)
        BY <1>1, <2>6 DEF GateInv, ReachedBy
      <3>2. c1' = {c \in c1 : c.id # q.id}
        BY <2>1, <2>3 DEF After
      <3>3. IdsOf(DocsOf(c1')) = IdsOf(DocsOf(c1)) \ {q.id}
        BY <3>2 DEF IdsOf, DocsOf
      <3>4. CASE c2.reason = "heavy"
        BY <2>4, <3>1, <3>3, <3>4 DEF SaysWhy
      <3>5. CASE c2.reason # "heavy"
        <4>1. PICK i \in Nat : /\ i \notin c2.rest /\ Says(c1, i, c2.reason)
                               /\ IdsOf(DocsOf(c1)) = c2.rest \cup {i}
          BY <3>1, <3>5 DEF SaysWhy
        <4>2. i # q.id
          BY <2>1, <4>1
        <4>3. Says(c1', i, c2.reason)
          BY <3>2, <4>1, <4>2 DEF Says
        <4>4. i \notin c2'.rest /\ IdsOf(DocsOf(c1')) = c2'.rest \cup {i}
          BY <2>4, <3>3, <4>1, <4>2
        <4> QED
          BY <3>5, <4>3, <4>4 DEF SaysWhy
      <3> QED
        BY <3>4, <3>5
    <2>7. c2'.clean => ReachedBy(c2', c1', c4.agent)
      BY <2>4, <2>6 DEF ReachedBy
    <2> QED
      BY <1>1, <1>4, <2>3, <2>4, <2>5, <2>7 DEF GateInv, GatePast
  <1> QED
    BY <1>2, <1>3, <1>4 DEF Comments!DeleteDuplicate

\* The summary of a head takes the place of any other.
LEMMA GateFindsSummary ==
    ASSUME GateInv
    PROVE  LET i == Comments!FindAnchoredComment(c2.head)
           IN  /\ i \in Nat /\ Names(i, "summary", c1, c4.ids)
               /\ i = 0 => Cardinality(SummariesOf(c1)) <= c4.late
  <1> DEFINE S == SummariesOf(c1)
             anchored == {c \in S : c.text = c2.head}
             i == Comments!FindAnchoredComment(c2.head)
  <1>1. Sane(c1, c4.ids) /\ S \subseteq GateComment /\ anchored \subseteq S /\ c4.late \in Nat
    BY DEF GateInv, Sane, SummariesOf, GatePast
  <1>2. i = IF anchored # {} THEN Comments!First(anchored).id
            ELSE IF S # {} THEN Comments!First(S).id ELSE 0
    BY <1>1, GateDefs DEF Comments!FindAnchoredComment, Comments!Nobody
  <1>3. Comments!First(anchored) \in S \/ anchored = {}
    BY <1>1, FirstOne
  <1>4. Comments!First(S) \in S \/ S = {}
    BY <1>1, FirstOne
  <1>5. (\E c \in S : i = c.id) \/ (i = 0 /\ S = {})
    BY <1>2, <1>3, <1>4
  <1> HIDE DEF i
  <1>6. CASE \E c \in S : i = c.id
    <2>1. PICK c \in S : i = c.id
      BY <1>6
    <2>2. i \in 0..c4.ids /\ i # 0
      BY <1>1, <2>1 DEF Sane, SummariesOf, GateComment
    <2>3. Names(i, "summary", c1, c4.ids)
      BY <1>1, <2>1, <2>2 DEF Names, Sane, SummariesOf
    <2> QED
      BY <2>2, <2>3 DEF i
  <1>7. CASE i = 0 /\ S = {}
    <2>1. Cardinality(S) = 0
      BY <1>7, FS_EmptySet
    <2>2. Names(i, "summary", c1, c4.ids)
      BY <1>1, <1>7 DEF Names, Sane, GateComment
    <2> QED
      BY <1>1, <1>7, <2>1, <2>2 DEF i
  <1> QED
    BY <1>5, <1>6, <1>7

\* A run that lists the summaries holds the first, or none if there is none.
LEMMA GateListsSummaries ==
    ASSUME GateInv, Comments!ListSummaries
    PROVE  GateInv'
  <1>1. /\ c2.phase = "summary" /\ c1' = c1 /\ c3' = c3 /\ c2 \in GateRun
        /\ c2.clean => ReachedBy(c2, c1, c4.agent)
    BY DEF Comments!ListSummaries, GateInv
  <1>2. CASE c4.agent /\ Comments!Go("over") /\ c4' = c4
    <2>1. /\ c2' \in GateRun /\ c2'.phase = "over" /\ c2'.reason = c2.reason /\ c2'.clean = c2.clean
      BY <1>1, <1>2 DEF Comments!Go, GateRun
    <2>2. HeldBy(c2', c1, c4.ids, c4.late)
      BY <2>1 DEF HeldBy
    <2>3. c2'.clean => ReachedBy(c2', c1, c4.agent)
      BY <1>1, <1>2, <2>1 DEF ReachedBy
    <2> QED
      BY <1>1, <1>2, <2>1, <2>2, <2>3, GateQuietStep
  <1>3. CASE Comments!Give("over") /\ Comments!Fault
    BY <1>1, <1>3, GateGives
  <1>4. CASE /\ c2' = [c2 EXCEPT !.phase = "upsert", !.target = Comments!FindAnchoredComment(c2.head)]
             /\ c4' = c4 \/ Comments!Fault
    <2> DEFINE i == Comments!FindAnchoredComment(c2.head)
    <2>1. /\ i \in Nat /\ Names(i, "summary", c1, c4.ids)
          /\ i = 0 => Cardinality(SummariesOf(c1)) <= c4.late
      BY GateFindsSummary
    <2> HIDE DEF i
    <2>2. c2' = [c2 EXCEPT !.phase = "upsert", !.target = i]
      BY <1>4 DEF i
    <2>3. /\ c2' \in GateRun /\ c2'.phase = "upsert" /\ c2'.reason = c2.reason /\ c2'.clean = c2.clean
          /\ c2'.target = i
      BY <1>1, <2>1, <2>2 DEF GateRun
    <2>4. HeldBy(c2', c1, c4.ids, c4.late)
      BY <2>1, <2>3 DEF HeldBy
    <2>5. c2'.clean => ReachedBy(c2', c1, c4.agent)
      BY <1>1, <2>3 DEF ReachedBy
    <2> QED
      BY <1>1, <1>4, <2>3, <2>4, <2>5, GateQuietStep
  <1> QED
    BY <1>2, <1>3, <1>4 DEF Comments!ListSummaries

\* A run posts a summary only if it held none, so the others are late ones.
LEMMA GateUpserts ==
    ASSUME GateInv, Comments!UpsertAnchoredComment
    PROVE  GateInv'
  <1>1. /\ c2.phase = "upsert" /\ c3' = c3 /\ c2 \in GateRun /\ c4 \in GatePast /\ Sane(c1, c4.ids)
        /\ HeldBy(c2, c1, c4.ids, c4.late) /\ (c2.clean => ReachedBy(c2, c1, c4.agent))
    BY DEF Comments!UpsertAnchoredComment, GateInv
  <1>2. PICK q \in Comments!Request :
          \/ /\ ~Comments!Missing(q) /\ Comments!Effect(q) /\ Comments!Go("over")
             /\ c4' = [c4 EXCEPT !.ids = Comments!NextId(q)]
          \/ Comments!Give("over") /\ c1' = c1 /\ (c4' = c4 \/ Comments!Fault)
    BY DEF Comments!UpsertAnchoredComment
  <1>3. /\ Fitting(q, c1, c4.ids) /\ q.kind = "summary" /\ q.op # "delete" /\ q.id = c2.target
        /\ q.text = c2.head
    BY <1>1, RequestFits
  <1>4. CASE Comments!Give("over") /\ c1' = c1 /\ (c4' = c4 \/ Comments!Fault)
    BY <1>1, <1>4, GateGives
  <1>5. CASE /\ ~Comments!Missing(q) /\ Comments!Effect(q) /\ Comments!Go("over")
             /\ c4' = [c4 EXCEPT !.ids = Comments!NextId(q)]
    <2> DEFINE n == NewestId(q, c4.ids)
    <2>1. /\ c1' = After(q, c1, c4.ids) /\ Sane(c1', n) /\ n \in Nat /\ Comments!NextId(q) = n
          /\ \A p : Fitting(p, c1, c4.ids) => Fitting(p, c1', n)
          /\ Cardinality(SummariesOf(c1')) \in Nat /\ Cardinality(SummariesOf(c1)) \in Nat
          /\ Cardinality(SummariesOf(c1')) <=
               Cardinality(SummariesOf(c1)) + (IF Created(q) /\ q.kind = "summary" THEN 1 ELSE 0)
          /\ DocsOf(c1') = DocsOf(c1)
      BY <1>3, <1>5, GateEffect
    <2> HIDE DEF n
    <2>2. /\ c4' \in GatePast /\ c4'.ids = n /\ c4'.late = c4.late /\ c4'.agent = c4.agent
          /\ c4.late \in Nat
      BY <1>1, <1>5, <2>1 DEF GatePast
    <2>3. /\ c2' \in GateRun /\ c2'.phase = "over" /\ c2'.reason = c2.reason /\ c2'.head = c2.head
          /\ c2'.clean = c2.clean
      BY <1>1, <1>5 DEF Comments!Go, GateRun
    <2>4. Cardinality(SummariesOf(c1')) <= 1 + c4.late
      <3>1. CASE Created(q)
        <4>1. Cardinality(SummariesOf(c1)) <= c4.late
          BY <1>1, <1>3, <3>1 DEF HeldBy, Fitting, Created
        <4> QED
          BY <1>3, <2>1, <2>2, <3>1, <4>1
      <3>2. CASE ~Created(q)
        BY <2>1, <2>2, <3>2 DEF GateInv
      <3> QED
        BY <3>1, <3>2
    <2>5. \E c \in SummariesOf(c1') : c.text = c2.head
      <3> DEFINE new == [id |-> IF Created(q) THEN c4.ids + 1 ELSE q.id, kind |-> q.kind, text |-> q.text]
      <3>1. new \in c1' /\ new.kind = "summary" /\ new.text = c2.head
        BY <1>3, <2>1 DEF After
      <3> HIDE DEF new
      <3> QED
        BY <3>1 DEF SummariesOf
    <2>6. \A i : Says(c1, i, c2.reason) => Says(c1', i, c2.reason)
      <3>1. \A s, i : Says(s, i, c2.reason) <=> \E c \in DocsOf(s) : /\ c.id = i /\ c.kind = "marker"
                                                                       /\ c.text = c2.reason
        BY DEF Says, DocsOf
      <3> QED
        BY <2>1, <3>1
    <2>7. c2'.clean => ReachedBy(c2', c1', c4'.agent)
      BY <1>1, <2>1, <2>3, <2>5, <2>6 DEF ReachedBy, SaysWhy
    <2>8. HeldBy(c2', c1', n, c4.late)
      BY <2>3 DEF HeldBy
    <2> QED
      BY <1>1, <2>1, <2>2, <2>3, <2>4, <2>7, <2>8 DEF GateInv
  <1> QED
    BY <1>2, <1>4, <1>5

\* What comes late, or is removed, disturbs only a run that has begun to look.
LEMMA GateDisturbs ==
    ASSUME GateInv, Comments!Arrive \/ Comments!Remove
    PROVE  GateInv'
  <1>1. /\ c2 \in GateRun /\ c4 \in GatePast /\ Sane(c1, c4.ids) /\ HeldBy(c2, c1, c4.ids, c4.late)
        /\ Cardinality(SummariesOf(c1)) <= 1 + c4.late
    BY DEF GateInv
  <1>2. /\ c2' = [c2 EXCEPT !.clean = @ /\ c2.phase = "docs"]
    BY DEF Comments!Arrive, Comments!Remove
  <1>3. /\ c2' \in GateRun /\ c2'.phase = c2.phase /\ c2'.target = c2.target /\ c2'.rest = c2.rest
        /\ c2'.clean => c2.phase = "docs"
    BY <1>1, <1>2 DEF GateRun
  <1>4. \A s, g : c2'.clean => ReachedBy(c2', s, g)
    BY <1>3 DEF ReachedBy
  <1>5. CASE Comments!Remove
    <2>1. PICK c \in c1 : c1' = c1 \ {c}
      BY <1>5 DEF Comments!Remove
    <2>2. /\ c4' \in GatePast /\ c4'.ids = c4.ids /\ c4'.late = c4.late /\ c3' = c3
      BY <1>1, <1>5 DEF Comments!Remove, Comments!Fault, GatePast
    <2>3. Sane(c1', c4.ids)
      BY <1>1, <2>1, FS_RemoveElement DEF Sane
    <2>4. \A i, k : Names(i, k, c1, c4.ids) => Names(i, k, c1', c4.ids)
      BY <2>1 DEF Names
    <2>5. \A q : Fitting(q, c1, c4.ids) => Fitting(q, c1', c4.ids)
      BY <2>4 DEF Fitting
    <2>6. /\ Cardinality(SummariesOf(c1')) <= Cardinality(SummariesOf(c1))
          /\ Cardinality(SummariesOf(c1')) \in Nat /\ Cardinality(SummariesOf(c1)) \in Nat
      <3>1. SummariesOf(c1') \subseteq SummariesOf(c1) /\ IsFiniteSet(SummariesOf(c1))
        BY <1>1, <2>1, FS_Subset DEF Sane, SummariesOf
      <3> QED
        BY <3>1, FS_Subset, FS_CardinalityType
    <2>7. HeldBy(c2', c1', c4.ids, c4.late) /\ Cardinality(SummariesOf(c1')) <= 1 + c4.late
      BY <1>1, <1>3, <2>4, <2>6 DEF HeldBy, GatePast
    <2> QED
      BY <1>3, <1>4, <2>2, <2>3, <2>5, <2>7 DEF GateInv
  <1>6. ASSUME NEW q \in c3, c3' = c3 \ {q}, c1' = c1, c4' = c4 PROVE GateInv'
    BY <1>1, <1>3, <1>4, <1>6 DEF GateInv, HeldBy
  <1>7. ASSUME NEW q \in c3, c3' = c3 \ {q}, ~Comments!Missing(q), Comments!Effect(q),
               c4' = [c4 EXCEPT !.ids = Comments!NextId(q),
                                !.late = @ + (IF q.op = "create" /\ q.kind = "summary" THEN 1 ELSE 0)]
        PROVE  GateInv'
    <2> DEFINE n == NewestId(q, c4.ids)
               more == IF Created(q) /\ q.kind = "summary" THEN 1 ELSE 0
    <2>0. Fitting(q, c1, c4.ids)
      BY <1>7 DEF GateInv
    <2>1. /\ Sane(c1', n) /\ n \in Nat /\ Comments!NextId(q) = n
          /\ \A i, k : Names(i, k, c1, c4.ids) => Names(i, k, c1', n)
          /\ \A p : Fitting(p, c1, c4.ids) => Fitting(p, c1', n)
          /\ Cardinality(SummariesOf(c1')) \in Nat /\ Cardinality(SummariesOf(c1)) \in Nat
          /\ Cardinality(SummariesOf(c1')) <= Cardinality(SummariesOf(c1)) + more
      BY <1>7, <2>0, GateEffect
    <2>2. c4' = [c4 EXCEPT !.ids = n, !.late = c4.late + more]
      BY <1>7, <2>1 DEF Created
    <2>3. more \in Nat
      OBVIOUS
    <2> HIDE DEF n, more
    <2>4. c4' \in GatePast /\ c4'.ids = n /\ c4'.late = c4.late + more /\ c4.late \in Nat
      <3> DEFINE late == c4.late + more
      <3>1. c4.late \in Nat /\ late \in Nat
        BY <1>1, <2>3 DEF GatePast
      <3> HIDE DEF late
      <3>2. c4' = [c4 EXCEPT !.ids = n, !.late = late]
        BY <2>2 DEF late
      <3>3. c4' \in GatePast /\ c4'.ids = n /\ c4'.late = late
        BY <1>1, <2>1, <3>1, <3>2 DEF GatePast
      <3> QED
        BY <3>1, <3>3 DEF late
    <2>5. HeldBy(c2', c1', n, c4'.late) /\ Cardinality(SummariesOf(c1')) <= 1 + c4'.late
      BY <1>1, <1>3, <2>1, <2>3, <2>4 DEF HeldBy
    <2>6. \A p \in c3' : Fitting(p, c1', n)
      BY <1>7, <2>1 DEF GateInv
    <2> QED
      BY <1>3, <1>4, <2>1, <2>4, <2>5, <2>6 DEF GateInv
  <1> QED
    BY <1>5, <1>6, <1>7 DEF Comments!Arrive

\* Every step of a Gate, and of those around it, keeps the invariant.
LEMMA GateStep ==
    ASSUME GateInv, [Comments!Next]_Comments!vars
    PROVE  GateInv'
  <1>1. CASE UNCHANGED Comments!vars
    BY <1>1 DEF Comments!vars, GateInv
  <1>2. CASE Comments!Next
    BY <1>2, GateTriggers, GateLists, GateWrites, GateDeletes, GateListsSummaries, GateUpserts,
       GateDisturbs DEF Comments!Next
  <1> QED
    BY <1>1, <1>2

\* What the comments say is true after every run that nobody disturbed, and
\* there is one summary besides those whose posting outlived its run, for any
\* number of runs, refusals and late requests (comment-dedupe.js).
THEOREM CommentsTrueAlways == Spec => []CommentsTrue
  <1>1. Init /\ Gating => GateInv
    <2> SUFFICES ASSUME Comments!Init PROVE GateInv
      BY DEF Init, Gating
    <2>1. c2 \in GateRun /\ c2.phase = "none" /\ c4 \in GatePast /\ c4.ids = 1 /\ c4.late = 0 /\ c3 = {}
      BY DEF Comments!Init, Comments!Nobody, Comments!Reasons, GateRun, GatePast
    <2>2. c1 = {} \/ \E x \in GateComment : c1 = {x} /\ x.id = 1 /\ x.kind = "legacy"
      BY DEF Comments!Init, Comments!Reasons, GateComment, GateTexts
    <2>3. Sane(c1, 1)
      BY <2>2, FS_EmptySet, FS_Singleton DEF Sane
    <2>4. SummariesOf(c1) = {}
      BY <2>2 DEF SummariesOf
    <2> QED
      BY <2>1, <2>3, <2>4, FS_EmptySet DEF GateInv, HeldBy, ReachedBy
  <1>2. [Next]_<<part, cells>> => (Gating <=> Gating')
    BY DEF Next, Gating, cells
  <1>3. [Next]_<<part, cells>> /\ Gating => [Comments!Next]_Comments!vars
    BY DEF Next, Gating, cells, Comments!vars
  <1>4. (Gating => GateInv) /\ [Next]_<<part, cells>> => (Gating => GateInv)'
    BY <1>2, <1>3, GateStep
  <1>5. GateInv => Comments!CommentsTrue
    <2> SUFFICES ASSUME GateInv PROVE Comments!CommentsTrue
      OBVIOUS
    <2>1. /\ Comments!Of({"marker", "legacy"}) = DocsOf(c1) /\ Comments!Of({"summary"}) = SummariesOf(c1)
          /\ \A i : Comments!Current(i) <=> Says(c1, i, c2.reason)
          /\ Comments!Ids = IdsOf(c1)
      BY GateDefs DEF GateInv
    <2>2. Cardinality(Comments!Of({"summary"})) <= 1 + c4.late
      BY <2>1 DEF GateInv
    <2>3. ASSUME c2.phase = "over", c2.clean
          PROVE  /\ IF c2.reason = "heavy" THEN DocsOf(c1) = {}
                    ELSE \E id \in Comments!Ids : /\ Comments!Current(id)
                                                  /\ {c.id : c \in DocsOf(c1)} = {id}
                 /\ ~c4.agent => \E c \in c1 : c.kind = "summary" /\ c.text = c2.head
      <3>1. ReachedBy(c2, c1, c4.agent)
        BY <2>3 DEF GateInv
      <3>2. CASE c2.reason = "heavy"
        BY <2>3, <3>1, <3>2 DEF ReachedBy, SaysWhy, IdsOf, SummariesOf
      <3>3. CASE c2.reason # "heavy"
        <4>1. PICK i \in Nat : Says(c1, i, c2.reason) /\ IdsOf(DocsOf(c1)) = {i}
          BY <2>3, <3>1, <3>3 DEF ReachedBy, SaysWhy
        <4>2. i \in IdsOf(c1)
          BY <4>1 DEF Says, IdsOf
        <4>3. {c.id : c \in DocsOf(c1)} = {i}
          BY <4>1 DEF IdsOf
        <4> QED
          BY <2>1, <2>3, <3>1, <3>3, <4>1, <4>2, <4>3 DEF ReachedBy, SummariesOf
      <3> QED
        BY <3>2, <3>3
    <2> DEFINE docs == Comments!Of({"marker", "legacy"})
    <2>4. ASSUME c2.phase = "over", c2.clean
          PROVE  /\ IF c2.reason = "heavy" THEN docs = {}
                    ELSE \E id \in Comments!Ids : Comments!Current(id) /\ {c.id : c \in docs} = {id}
                 /\ ~c4.agent => \E c \in c1 : c.kind = "summary" /\ c.text = c2.head
      <3>1. docs = DocsOf(c1)
        BY <2>1
      <3> HIDE DEF docs
      <3> QED
        BY <2>3, <2>4, <3>1
    <2> HIDE DEF docs
    <2>5. Comments!Cardinality(Comments!Of({"summary"})) = Cardinality(Comments!Of({"summary"}))
      BY DEF Comments!Cardinality, Cardinality
    <2> QED
      BY <2>2, <2>4, <2>5 DEF Comments!CommentsTrue, docs
  <1>6. (Gating => GateInv) => CommentsTrue
    BY <1>5 DEF CommentsTrue, Gating
  <1>7. Init => (Gating => GateInv)
    BY <1>1
  <1> QED
    BY <1>4, <1>6, <1>7, PTL DEF Spec

-----------------------------------------------------------------------------
(* ApiClient: c1 is what each token has left, c2 the registry, c3 the call  *)
(* in progress, c4 what was spent.                                          *)

Serving == part = "client"

CallPhases == {"none", "ready", "send", "caught", "failed"}
CallErrors == {"none", "primary", "secondary", "transient", "fatal"}
ClientCalls ==
    [phase : CallPhases, token : Client!Clients, own : BOOLEAN, way : Client!Ways, method : Client!Methods,
     tries : Nat, applied : Nat, blurred : Nat, refused : SUBSET Client!Clients, error : CallErrors,
     noted : BOOLEAN]
Registries ==
    [known : [Credentials -> Nat], drift : [Credentials -> Nat], minted : SUBSET AppTokens, fresh : BOOLEAN]

\* The registry believes in no more than there is, but for what it may have missed.
RegistryOK(budget, registry) ==
    /\ budget \in [Client!Clients -> Nat] /\ registry \in Registries
    /\ \A t \in Client!Clients : budget[t] <= CallLimit
    /\ \A t \in Credentials : /\ registry.known[t] <= CallLimit
                              /\ registry.known[t] <= budget[t] + registry.drift[t]
\* While it is fresh, a token that refused the call is known to have nothing
\* left; the call is not sent with it.
RefusalsKnown(call, registry) ==
    call.phase \in {"send", "caught"} =>
        /\ registry.fresh => \A t \in call.refused \cap Credentials : registry.known[t] = 0
        /\ call.phase = "send" \/ call.error # "primary" \/ call.way # "registry"
             => call.token \notin call.refused
\* A write that may be sent again was not carried out, unless that is blurred.
WriteSpent(call) ==
    IF call.phase \in {"ready", "failed"} \/ (call.phase = "caught" /\ call.error = "transient") THEN 1 ELSE 0
WriteKept(call) ==
    call.way # "category" /\ call.method = "write" => call.applied <= call.blurred + WriteSpent(call)
FailureNoted(call) ==
    call.phase = "failed" /\ call.way = "registry" /\ call.error \in {"primary", "secondary"}
        => call.noted \/ (call.error = "primary" /\ call.tries > CallRetries)

CallOK(call, registry) ==
    call \in ClientCalls /\ RefusalsKnown(call, registry) /\ WriteKept(call) /\ FailureNoted(call)
ClientInv == RegistryOK(c1, c2) /\ CallOK(c3, c2)

\* Tokens are clients.
LEMMA TokensAreClients == Credentials \subseteq Client!Clients /\ "given" \in Client!Clients
  BY DEF Client!Clients, Client!Given

\* A choice leaves a registry that is right, and finds a token that has enough.
LEMMA ClientChooses ==
    ASSUME RegistryOK(c1, c2), NEW own, NEW excluded, NEW t, Client!Choose(own, excluded, t)
    PROVE  /\ RegistryOK(c1, c2') /\ t \in Client!Clients
           /\ t \in Credentials => t \notin excluded /\ c2'.known[t] >= EnoughCalls
           /\ c2.fresh => c2'.known = c2.known
  <1>1. PICK m \in Client!Mishaps :
          LET r == IF c2.fresh THEN c2 ELSE IF m.guess THEN Client!Guessed ELSE Client!Refreshed(m.failed)
          IN /\ t \in Client!Chosen(r, own, excluded, m.unminted)
             /\ c2' = Client!Minted(r, t)
    BY DEF Client!Choose
  <1> DEFINE r == IF c2.fresh THEN c2 ELSE IF m.guess THEN Client!Guessed ELSE Client!Refreshed(m.failed)
  <1>2. RegistryOK(c1, r)
    <2>1. RegistryOK(c1, Client!Guessed)
      <3>1. /\ EnoughCalls \in Nat /\ EnoughCalls <= CallLimit /\ CallLimit \in Nat
        BY ServicesAssumption
      <3> DEFINE known == [x \in Credentials |-> EnoughCalls]
                 drift == [x \in Credentials |-> CallLimit]
      <3>2. Client!Guessed = [c2 EXCEPT !.known = known, !.drift = drift, !.fresh = TRUE]
        BY Zenon DEF Client!Guessed
      <3>3. /\ known \in [Credentials -> Nat] /\ drift \in [Credentials -> Nat]
            /\ \A x \in Credentials : known[x] = EnoughCalls /\ drift[x] = CallLimit
        BY <3>1
      <3> HIDE DEF known, drift
      <3>4. Client!Guessed \in Registries /\ Client!Guessed.known = known /\ Client!Guessed.drift = drift
        BY <3>2, <3>3 DEF RegistryOK, Registries
      <3>5. \A x \in Credentials : EnoughCalls <= c1[x] + CallLimit
        BY <3>1, TokensAreClients DEF RegistryOK
      <3> QED
        BY <3>1, <3>3, <3>4, <3>5 DEF RegistryOK
    <2>2. RegistryOK(c1, Client!Refreshed(m.failed))
      <3> DEFINE known == [x \in Credentials |-> IF x \in m.failed THEN c2.known[x] ELSE c1[x]]
                 drift == [x \in Credentials |-> IF x \in m.failed THEN CallLimit ELSE 0]
                 minted == c2.minted \cup (AppTokens \ m.failed)
      <3>1. Client!Refreshed(m.failed)
              = [c2 EXCEPT !.known = known, !.drift = drift, !.minted = minted, !.fresh = TRUE]
        BY Zenon DEF Client!Refreshed
      <3>2. /\ known \in [Credentials -> Nat] /\ drift \in [Credentials -> Nat] /\ minted \subseteq AppTokens
        BY ServicesAssumption, TokensAreClients DEF RegistryOK, Registries
      <3>3. \A x \in Credentials : known[x] <= CallLimit /\ known[x] <= c1[x] + drift[x]
        BY ServicesAssumption, TokensAreClients DEF RegistryOK, Registries
      <3> HIDE DEF known, drift, minted
      <3> QED
        BY <3>1, <3>2, <3>3 DEF RegistryOK, Registries
    <2> QED
      BY <2>1, <2>2
  <1>3. c2.fresh => r = c2
    OBVIOUS
  <1>4. t \in Client!Chosen(r, own, excluded, m.unminted) /\ c2' = Client!Minted(r, t)
    BY <1>1
  <1> HIDE DEF r
  <1>5. t = "given" \/ (t \in Credentials \ excluded /\ r.known[t] >= EnoughCalls)
    BY <1>4 DEF Client!Chosen, Client!Choices, Client!HasEnough, Client!Given
  <1>6. RegistryOK(c1, c2') /\ c2'.known = r.known
    BY <1>2, <1>4 DEF Client!Minted, RegistryOK, Registries
  <1> QED
    BY <1>3, <1>5, <1>6, TokensAreClients, ServicesAssumption

\* A client is created, or a call is begun.
LEMMA ClientBegins ==
    ASSUME ClientInv, Client!CreateClient \/ Client!Start
    PROVE  ClientInv'
  <1>1. CASE Client!CreateClient
    <2>1. PICK own \in BOOLEAN, t \in Client!Clients :
            Client!Choose(own, {}, t) /\ c3' = [c3 EXCEPT !.phase = "ready", !.token = t, !.own = own]
      BY <1>1 DEF Client!CreateClient
    <2>2. c3.phase = "none" /\ c1' = c1
      BY <1>1 DEF Client!CreateClient
    <2>3. RegistryOK(c1, c2')
      BY <2>1, ClientChooses DEF ClientInv
    <2>4. CallOK(c3', c2')
      <3>1. c3 \in ClientCalls /\ WriteKept(c3)
        BY DEF ClientInv, CallOK
      <3>2. /\ c3' \in ClientCalls /\ c3'.phase = "ready" /\ c3'.way = c3.way /\ c3'.method = c3.method
            /\ c3'.applied = c3.applied /\ c3'.blurred = c3.blurred
        BY <2>1, <3>1 DEF ClientCalls, CallPhases
      <3>3. WriteKept(c3')
        BY <2>2, <3>1, <3>2 DEF WriteKept, WriteSpent, ClientCalls
      <3> QED
        BY <3>2, <3>3 DEF CallOK, RefusalsKnown, FailureNoted
    <2> QED
      BY <2>2, <2>3, <2>4 DEF ClientInv
  <1>2. CASE Client!Start
    <2>1. PICK way \in Client!Ways, method \in Client!Methods :
            c3' = [Client!NoCall EXCEPT !.phase = "send", !.token = c3.token, !.own = c3.own,
                                        !.way = way, !.method = method]
      BY <1>2 DEF Client!Start
    <2>2. c1' = c1 /\ c2' = c2
      BY <1>2 DEF Client!Start
    <2>3. CallOK(c3', c2)
      <3>1. c3.token \in Client!Clients /\ c3.own \in BOOLEAN
        BY DEF ClientInv, CallOK, ClientCalls
      <3>2. /\ c3' \in ClientCalls /\ c3'.phase = "send" /\ c3'.refused = {} /\ c3'.applied = 0 /\ c3'.blurred = 0
        BY <2>1, <3>1 DEF ClientCalls, CallPhases, CallErrors, Client!NoCall
      <3> QED
        BY <3>2 DEF CallOK, RefusalsKnown, WriteKept, WriteSpent, FailureNoted
    <2> QED
      BY <2>2, <2>3 DEF ClientInv
  <1> QED
    BY <1>1, <1>2

\* An answer, good or bad, is accounted for.
LEMMA ClientAccounts ==
    ASSUME RegistryOK(c1, c2), c3 \in ClientCalls, NEW left \in Nat, NEW told \in BOOLEAN,
           Client!Account(left, told),
           \/ Client!Left > 0 /\ Client!Spend /\ left = Client!Left - 1
           \/ c1' = c1 /\ left = Client!Left /\ (told => Client!Left = 0)
    PROVE  /\ RegistryOK(c1', c2') /\ c2'.fresh = c2.fresh
           /\ \A t \in Credentials \ {c3.token} : c2'.known[t] = c2.known[t]
           /\ told /\ c3.way = "registry" /\ c3.token \in Credentials => c2'.known[c3.token] = left
  <1> DEFINE token == c3.token
             known == c2.known
             drift == c2.drift
  <1>1. token \in Client!Clients /\ c1[token] \in Nat /\ c1[token] <= CallLimit /\ CallLimit \in Nat
    BY ServicesAssumption DEF RegistryOK, ClientCalls
  <1>2. /\ known \in [Credentials -> Nat] /\ drift \in [Credentials -> Nat]
        /\ \A t \in Credentials : known[t] <= CallLimit /\ known[t] <= c1[t] + drift[t] /\ c1[t] \in Nat
    BY TokensAreClients DEF RegistryOK, Registries
  <1>3. /\ c1' \in [Client!Clients -> Nat] /\ \A t \in Client!Clients \ {token} : c1'[t] = c1[t]
        /\ c1'[token] <= c1[token] /\ left <= c1'[token]
        /\ (c1'[token] = c1[token] - 1 /\ left = c1'[token] /\ c1[token] > 0) \/ c1'[token] = c1[token]
    BY <1>1 DEF Client!Spend, Client!Left, RegistryOK
  <1>4. \A t \in Client!Clients : c1'[t] <= CallLimit
    BY <1>1, <1>3 DEF RegistryOK
  <1>5. CASE ~Client!Counted
    <2> DEFINE new == [t \in Credentials |-> IF t = token /\ c1[token] > 0 THEN drift[t] + 1 ELSE drift[t]]
    <2>1. c2' = [c2 EXCEPT !.drift = new]
      BY <1>5 DEF Client!Account, Client!Left, RegistryOK, Registries
    <2>2. new \in [Credentials -> Nat]
      BY <1>2
    <2>3. \A t \in Credentials : known[t] <= c1'[t] + new[t]
      BY <1>1, <1>2, <1>3, TokensAreClients
    <2> HIDE DEF new
    <2> QED
      BY <1>2, <1>3, <1>4, <1>5, <2>1, <2>2, <2>3 DEF RegistryOK, Registries, Client!Counted
  <1>6. CASE Client!Counted /\ told
    <2> DEFINE newKnown == [known EXCEPT ![token] = left]
               newDrift == [drift EXCEPT ![token] = 0]
    <2>1. c2' = [c2 EXCEPT !.known = newKnown, !.drift = newDrift]
      BY <1>6 DEF Client!Account, RegistryOK, Registries
    <2>2. newKnown \in [Credentials -> Nat] /\ newDrift \in [Credentials -> Nat] /\ token \in Credentials
      BY <1>2, <1>6 DEF Client!Counted
    <2>3. \A t \in Credentials : newKnown[t] <= CallLimit /\ newKnown[t] <= c1'[t] + newDrift[t]
      BY <1>1, <1>2, <1>3, <1>4, <2>2, TokensAreClients
    <2>4. /\ \A t \in Credentials \ {token} : newKnown[t] = known[t]
          /\ newKnown[token] = left
      BY <1>2, <2>2
    <2> HIDE DEF newKnown, newDrift
    <2> QED
      BY <1>3, <1>4, <2>1, <2>2, <2>3, <2>4 DEF RegistryOK, Registries
  <1>7. CASE Client!Counted /\ ~told
    <2> DEFINE n == IF known[token] = 0 THEN 0 ELSE known[token] - 1
               newKnown == [known EXCEPT ![token] = n]
    <2>1. c2' = [c2 EXCEPT !.known = newKnown]
      BY <1>7 DEF Client!Account, RegistryOK, Registries
    <2>2. token \in Credentials /\ n \in Nat /\ n <= known[token] /\ (n = 0 \/ n = known[token] - 1)
      BY <1>2, <1>7 DEF Client!Counted
    <2> HIDE DEF n
    <2>3. newKnown \in [Credentials -> Nat]
      BY <1>2, <2>2
    <2>4. \A t \in Credentials : newKnown[t] = IF t = token THEN n ELSE known[t]
      BY <1>2
    <2> HIDE DEF newKnown
    <2>5. \A t \in Credentials : newKnown[t] <= CallLimit /\ newKnown[t] <= c1'[t] + drift[t]
      <3>1. ASSUME NEW t \in Credentials, t = token
            PROVE  newKnown[t] <= CallLimit /\ newKnown[t] <= c1'[t] + drift[t]
        <4>1. newKnown[t] = n /\ known[t] <= CallLimit /\ known[t] <= c1[t] + drift[t] /\ drift[t] \in Nat
              /\ known[t] \in Nat /\ c1'[t] \in Nat
          BY <1>2, <1>3, <2>4, <3>1, TokensAreClients
        <4> QED
          BY <1>1, <1>3, <2>2, <3>1, <4>1
      <3>2. ASSUME NEW t \in Credentials, t # token
            PROVE  newKnown[t] <= CallLimit /\ newKnown[t] <= c1'[t] + drift[t]
        BY <1>2, <1>3, <2>4, <3>2, TokensAreClients
      <3> QED
        BY <3>1, <3>2
    <2> QED
      BY <1>2, <1>3, <1>4, <1>7, <2>1, <2>3, <2>4, <2>5 DEF RegistryOK, Registries
  <1> QED
    BY <1>5, <1>6, <1>7

\* A call that is sent has not been refused with its token, and did nothing.
LEMMA ClientSent ==
    ASSUME ClientInv, c3.phase = "send"
    PROVE  /\ RegistryOK(c1, c2) /\ c3 \in ClientCalls /\ c3.token \notin c3.refused /\ Client!Left \in Nat
           /\ c2.fresh => \A t \in c3.refused \cap Credentials : c2.known[t] = 0
           /\ c3.way # "category" /\ c3.method = "write" => c3.applied <= c3.blurred
  BY DEF ClientInv, CallOK, RefusalsKnown, WriteKept, WriteSpent, RegistryOK, ClientCalls, Client!Left

\* An error is accounted for; a token that is refused is known to be exhausted.
LEMMA ClientErrs ==
    ASSUME ClientInv, c3.phase = "send", NEW left \in Nat, NEW told \in BOOLEAN, Client!Account(left, told),
           \/ Client!Left > 0 /\ Client!Spend /\ left = Client!Left - 1
           \/ c1' = c1 /\ left = Client!Left /\ (told => Client!Left = 0),
           NEW kind \in CallErrors, NEW applied \in 0..1, NEW blurred \in 0..1, NEW refused \in SUBSET {c3.token},
           Client!Error(kind, applied, blurred, refused), applied <= blurred \/ kind = "transient",
           refused # {} => kind = "primary" /\ c3.way = "registry" /\ told /\ left = 0
    PROVE  ClientInv'
  <1>1. /\ RegistryOK(c1, c2) /\ c3 \in ClientCalls /\ c3.token \notin c3.refused
        /\ c2.fresh => \A t \in c3.refused \cap Credentials : c2.known[t] = 0
        /\ c3.way # "category" /\ c3.method = "write" => c3.applied <= c3.blurred
    BY ClientSent
  <1>2. /\ RegistryOK(c1', c2') /\ c2'.fresh = c2.fresh
        /\ \A t \in Credentials \ {c3.token} : c2'.known[t] = c2.known[t]
        /\ told /\ c3.way = "registry" /\ c3.token \in Credentials => c2'.known[c3.token] = left
    BY <1>1, ClientAccounts
  <1> DEFINE a == c3.applied + applied
             b == c3.blurred + blurred
             r == c3.refused \cup refused
  <1>3. c3' = [c3 EXCEPT !.phase = "caught", !.error = kind, !.applied = a, !.blurred = b, !.refused = r]
    BY DEF Client!Error
  <1>4. a \in Nat /\ b \in Nat /\ r \in SUBSET Client!Clients
    BY <1>1 DEF ClientCalls
  <1>5. c3.way # "category" /\ c3.method = "write" => a <= b + (IF kind = "transient" THEN 1 ELSE 0)
    BY <1>1 DEF ClientCalls
  <1>6. c2'.fresh => \A t \in r \cap Credentials : c2'.known[t] = 0
    BY <1>1, <1>2
  <1>7. kind # "primary" \/ c3.way # "registry" => c3.token \notin r
    BY <1>1
  <1> HIDE DEF a, b, r
  <1>8. /\ c3' \in ClientCalls /\ c3'.phase = "caught" /\ c3'.error = kind /\ c3'.applied = a /\ c3'.blurred = b
        /\ c3'.refused = r /\ c3'.way = c3.way /\ c3'.method = c3.method /\ c3'.token = c3.token
    BY <1>1, <1>3, <1>4 DEF ClientCalls, CallPhases
  <1>9. RefusalsKnown(c3', c2')
    BY <1>6, <1>7, <1>8 DEF RefusalsKnown
  <1>10. WriteKept(c3')
    BY <1>5, <1>8 DEF WriteKept, WriteSpent
  <1> QED
    BY <1>2, <1>8, <1>9, <1>10 DEF ClientInv, CallOK, FailureNoted

\* The call is answered, refused, throttled, lost or rejected.
LEMMA ClientHears ==
    ASSUME ClientInv,
           \/ Client!Answer \/ Client!Refuse \/ Client!Throttle \/ Client!Lose \/ Client!LoseExhausted
           \/ Client!Reject
    PROVE  ClientInv'
  <1>1. c3.phase = "send"
    BY DEF Client!Answer, Client!Refuse, Client!Throttle, Client!Lose, Client!LoseExhausted, Client!Reject
  <1>2. /\ RegistryOK(c1, c2) /\ c3 \in ClientCalls /\ c3.token \notin c3.refused /\ Client!Left \in Nat
        /\ c3.way # "category" /\ c3.method = "write" => c3.applied <= c3.blurred
    BY <1>1, ClientSent
  <1>3. CASE Client!Answer
    <2>1. PICK told \in BOOLEAN : Client!Account(Client!Left - 1, told)
      BY <1>3 DEF Client!Answer
    <2>2. Client!Left > 0 /\ Client!Spend /\ c3' = [c3 EXCEPT !.phase = "ready", !.applied = c3.applied + 1]
      BY <1>3 DEF Client!Answer
    <2>3. Client!Left - 1 \in Nat
      BY <1>2, <2>2
    <2>4. RegistryOK(c1', c2')
      BY <1>2, <2>1, <2>2, <2>3, ClientAccounts
    <2>5. /\ c3' \in ClientCalls /\ c3'.phase = "ready" /\ c3'.applied = c3.applied + 1
          /\ c3'.blurred = c3.blurred /\ c3'.way = c3.way /\ c3'.method = c3.method
      <3> DEFINE n == c3.applied + 1
      <3>1. n \in Nat /\ c3' = [c3 EXCEPT !.phase = "ready", !.applied = n]
        BY <1>2, <2>2 DEF ClientCalls
      <3> HIDE DEF n
      <3>2. /\ c3' \in ClientCalls /\ c3'.phase = "ready" /\ c3'.applied = n
            /\ c3'.blurred = c3.blurred /\ c3'.way = c3.way /\ c3'.method = c3.method
        BY <1>2, <3>1 DEF ClientCalls, CallPhases
      <3> QED
        BY <3>2 DEF n
    <2>6. WriteKept(c3')
      BY <1>2, <2>5 DEF WriteKept, WriteSpent, ClientCalls
    <2> QED
      BY <2>4, <2>5, <2>6 DEF ClientInv, CallOK, RefusalsKnown, FailureNoted
  <1>4. CASE Client!Refuse
    <2>1. PICK told \in BOOLEAN :
            /\ Client!Account(0, told)
            /\ Client!Error("primary", 0, 0, IF told /\ c3.way = "registry" THEN {c3.token} ELSE {})
      BY <1>4 DEF Client!Refuse
    <2> DEFINE refused == IF told /\ c3.way = "registry" THEN {c3.token} ELSE {}
    <2>2. Client!Left = 0 /\ c1' = c1 /\ "primary" \in CallErrors /\ refused \in SUBSET {c3.token}
      BY <1>4 DEF Client!Refuse, CallErrors
    <2>3. refused # {} => told /\ c3.way = "registry"
      OBVIOUS
    <2>4. Client!Error("primary", 0, 0, refused)
      BY <2>1
    <2> HIDE DEF refused
    <2> QED
      BY <1>1, <2>1, <2>2, <2>3, <2>4, ClientErrs
  <1>5. CASE Client!Throttle
    <2>1. Client!Account(Client!Left, FALSE) /\ Client!Error("secondary", 0, 0, {}) /\ c1' = c1
      BY <1>5, Zenon DEF Client!Throttle
    <2>2. "secondary" \in CallErrors /\ 0 \in 0..1 /\ {} \in SUBSET {c3.token} /\ 0 <= 0 /\ FALSE \in BOOLEAN
      BY DEF CallErrors
    <2> QED
      BY <1>1, <1>2, <2>1, <2>2, ClientErrs
  <1>6. CASE Client!Lose \/ Client!Reject
    <2>1. Client!Left > 0 /\ Client!Spend
      BY <1>6, Zenon DEF Client!Lose, Client!Reject
    <2>4. Client!Left - 1 \in Nat
      BY <1>2, <2>1
    <2>2. PICK kind \in {"transient", "fatal"}, applied \in 0..1 :
            /\ Client!Error(kind, applied, 0, {}) /\ (applied = 0 \/ kind = "transient")
            /\ \E told \in BOOLEAN : Client!Account(Client!Left - 1, told)
      <3>1. CASE Client!Lose
        <4>1. PICK applied \in 0..1 : Client!Error("transient", applied, 0, {})
          BY <3>1, Zenon DEF Client!Lose
        <4>2. Client!Account(Client!Left - 1, FALSE)
          BY <3>1, Zenon DEF Client!Lose
        <4> QED
          BY <4>1, <4>2
      <3>2. CASE Client!Reject
        <4>1. Client!Error("fatal", 0, 0, {}) /\ Client!Account(Client!Left - 1, TRUE)
          BY <3>2, Zenon DEF Client!Reject
        <4>2. 0 \in 0..1
          OBVIOUS
        <4> QED
          BY <4>1, <4>2
      <3> QED
        BY <1>6, <3>1, <3>2
    <2>3. kind \in CallErrors /\ (applied <= 0 \/ kind = "transient") /\ {} \in SUBSET {c3.token} /\ 0 \in 0..1
      BY <2>2 DEF CallErrors
    <2> QED
      BY <1>1, <2>1, <2>2, <2>3, <2>4, ClientErrs
  <1>7. CASE Client!LoseExhausted
    <2>1. PICK applied \in 0..1 : Client!Error("primary", applied, applied, {c3.token})
      BY <1>7 DEF Client!LoseExhausted
    <2>2. Client!Left = 1 /\ Client!Spend /\ Client!Account(0, TRUE) /\ c3.way = "registry"
      BY <1>7, Zenon DEF Client!LoseExhausted
    <2>3. Client!Left > 0 /\ 0 = Client!Left - 1
      BY <2>2
    <2>4. "primary" \in CallErrors /\ {c3.token} \in SUBSET {c3.token} /\ applied <= applied
      BY <2>1 DEF CallErrors
    <2> QED
      BY <1>1, <2>1, <2>2, <2>3, <2>4, ClientErrs
  <1> QED
    BY <1>3, <1>4, <1>5, <1>6, <1>7

\* After an error the call goes on with another token, is repeated, or fails.
LEMMA ClientSwitches ==
    ASSUME ClientInv, Client!SwitchToken
    PROVE  ClientInv'
  <1>1. /\ RegistryOK(c1, c2) /\ c3 \in ClientCalls /\ c3.phase = "caught" /\ c3.error = "primary"
        /\ c3.way = "registry" /\ c1' = c1
        /\ c2.fresh => \A t \in c3.refused \cap Credentials : c2.known[t] = 0
        /\ c3.method = "write" => c3.applied <= c3.blurred
    BY DEF ClientInv, CallOK, RefusalsKnown, WriteKept, WriteSpent, ClientCalls, Client!SwitchToken
  <1>2. PICK t \in Client!Clients :
          /\ Client!Choose(c3.own, {c3.token} \cap Credentials, t)
          /\ c3' = IF t = "given" THEN [c3 EXCEPT !.phase = "failed", !.noted = TRUE]
                   ELSE [c3 EXCEPT !.token = t, !.tries = c3.tries + 1,
                                   !.refused = IF c2.fresh THEN c3.refused ELSE {},
                                   !.phase = IF c3.tries = CallRetries THEN "failed" ELSE "send"]
    BY DEF Client!SwitchToken, Client!Given
  <1>3. /\ RegistryOK(c1, c2')
        /\ t \in Credentials => c2'.known[t] >= EnoughCalls
        /\ c2.fresh => c2'.known = c2.known
    BY <1>1, <1>2, ClientChooses
  <1>4. CASE t = "given"
    <2>1. /\ c3' \in ClientCalls /\ c3'.phase = "failed" /\ c3'.noted /\ c3'.applied = c3.applied
          /\ c3'.blurred = c3.blurred /\ c3'.way = c3.way /\ c3'.method = c3.method
      BY <1>1, <1>2, <1>4 DEF ClientCalls, CallPhases
    <2>2. WriteKept(c3')
      BY <1>1, <2>1 DEF WriteKept, WriteSpent, ClientCalls
    <2> QED
      BY <1>1, <1>3, <2>1, <2>2 DEF ClientInv, CallOK, RefusalsKnown, FailureNoted
  <1>5. CASE t # "given"
    <2> DEFINE r == IF c2.fresh THEN c3.refused ELSE {}
               n == c3.tries + 1
               p == IF c3.tries = CallRetries THEN "failed" ELSE "send"
    <2>1. r \in SUBSET Client!Clients /\ n \in Nat /\ p \in CallPhases /\ p \in {"failed", "send"}
      BY <1>1 DEF ClientCalls, CallPhases
    <2>2. p = "failed" => n > CallRetries
      BY <1>1 DEF ClientCalls
    <2>3. c2'.fresh /\ r # {} => r = c3.refused /\ c2.fresh
      OBVIOUS
    <2>4. c3' = [c3 EXCEPT !.token = t, !.tries = n, !.refused = r, !.phase = p]
      BY <1>2, <1>5
    <2> HIDE DEF r, n, p
    <2>5. /\ c3' \in ClientCalls /\ c3'.phase = p /\ c3'.applied = c3.applied /\ c3'.error = "primary"
          /\ c3'.blurred = c3.blurred /\ c3'.way = c3.way /\ c3'.method = c3.method
          /\ c3'.tries = n /\ c3'.token = t /\ c3'.refused = r
      BY <1>1, <2>1, <2>4 DEF ClientCalls
    <2>6. t \notin r
      <3>1. t \in Credentials
        BY <1>5 DEF Client!Clients, Client!Given
      <3>2. ASSUME t \in r PROVE FALSE
        <4>1. c2.fresh /\ t \in c3.refused
          BY <3>2 DEF r
        <4>2. c2.known[t] = 0 /\ c2'.known[t] = c2.known[t]
          BY <1>1, <1>3, <3>1, <4>1
        <4> QED
          BY <1>3, <3>1, <4>2, ServicesAssumption
      <3> QED
        BY <3>2
    <2>7. \A x \in r \cap Credentials : c2'.known[x] = 0
      BY <1>1, <1>3 DEF r
    <2>8. RefusalsKnown(c3', c2')
      BY <2>1, <2>5, <2>6, <2>7 DEF RefusalsKnown
    <2>9. WriteKept(c3')
      BY <1>1, <2>1, <2>5 DEF WriteKept, WriteSpent, ClientCalls
    <2> QED
      BY <1>1, <1>3, <2>1, <2>2, <2>5, <2>8, <2>9 DEF ClientInv, CallOK, FailureNoted
  <1> QED
    BY <1>4, <1>5

LEMMA ClientRetries ==
    ASSUME ClientInv, Client!RetryCall \/ Client!RetryByCategory
    PROVE  ClientInv'
  <1>1. /\ c3 \in ClientCalls /\ c3.phase = "caught" /\ c1' = c1 /\ c2' = c2
        /\ RefusalsKnown(c3, c2) /\ WriteKept(c3) /\ RegistryOK(c1, c2)
    BY DEF ClientInv, CallOK, Client!RetryCall, Client!RetryByCategory
  <1>2. CASE \E noted \in BOOLEAN : Client!Fail(noted) /\ (noted \/ c3.way # "registry" \/ c3.error \notin {"primary", "secondary"})
    <2>1. PICK noted \in BOOLEAN : /\ c3' = [c3 EXCEPT !.phase = "failed", !.noted = noted]
                                   /\ noted \/ c3.way # "registry" \/ c3.error \notin {"primary", "secondary"}
      BY <1>2 DEF Client!Fail
    <2>2. /\ c3' \in ClientCalls /\ c3'.phase = "failed" /\ c3'.applied = c3.applied /\ c3'.noted = noted
          /\ c3'.blurred = c3.blurred /\ c3'.way = c3.way /\ c3'.method = c3.method /\ c3'.error = c3.error
      BY <1>1, <2>1 DEF ClientCalls, CallPhases
    <2>3. WriteKept(c3')
      BY <1>1, <2>2 DEF WriteKept, WriteSpent, ClientCalls
    <2> QED
      BY <1>1, <2>1, <2>2, <2>3 DEF ClientInv, CallOK, RefusalsKnown, FailureNoted
  <1>3. CASE /\ Client!Again /\ (c3.error # "primary" \/ c3.way # "registry")
             /\ c3.way # "category" /\ c3.method = "write" => c3.error # "transient"
    <2>1. c3' = [c3 EXCEPT !.phase = "send", !.tries = c3.tries + 1]
      BY <1>3 DEF Client!Again
    <2>2. /\ c3' \in ClientCalls /\ c3'.phase = "send" /\ c3'.applied = c3.applied /\ c3'.token = c3.token
          /\ c3'.blurred = c3.blurred /\ c3'.way = c3.way /\ c3'.method = c3.method /\ c3'.refused = c3.refused
      <3> DEFINE n == c3.tries + 1
      <3>1. n \in Nat /\ c3' = [c3 EXCEPT !.phase = "send", !.tries = n]
        BY <1>1, <2>1 DEF ClientCalls
      <3> HIDE DEF n
      <3> QED
        BY <1>1, <3>1 DEF ClientCalls, CallPhases
    <2>3. WriteKept(c3') /\ RefusalsKnown(c3', c2)
      BY <1>1, <1>3, <2>2 DEF WriteKept, WriteSpent, RefusalsKnown
    <2> QED
      BY <1>1, <2>2, <2>3 DEF ClientInv, CallOK, FailureNoted
  <1>4. CASE Client!RetryCall
    <2>1. c3.way = "registry" /\ c3.error # "primary"
      BY <1>4 DEF Client!RetryCall
    <2>2. \/ ~Client!Repeatable /\ Client!Fail(FALSE)
          \/ Client!Repeatable /\ Client!Fail(c3.error = "secondary")
          \/ Client!Repeatable /\ Client!Again
      BY <1>4 DEF Client!RetryCall
    <2>3. /\ Client!Repeatable /\ c3.method = "write" => c3.error # "transient"
          /\ ~Client!Repeatable => c3.error # "secondary"
      BY DEF Client!Repeatable
    <2>4. CASE c3.error = "secondary" /\ Client!Fail(c3.error = "secondary")
      <3>1. Client!Fail(TRUE)
        BY <2>4, Zenon DEF Client!Fail
      <3> QED
        BY <1>2, <3>1
    <2>5. CASE c3.error # "secondary" /\ (Client!Fail(c3.error = "secondary") \/ Client!Fail(FALSE))
      <3>1. Client!Fail(FALSE)
        <4>1. (c3.error = "secondary") = FALSE
          BY <2>5
        <4> QED
          BY <2>5, <4>1
      <3> QED
        BY <1>2, <2>1, <2>5, <3>1
    <2> QED
      BY <1>3, <2>1, <2>2, <2>3, <2>4, <2>5
  <1>5. CASE Client!RetryByCategory
    <2>1. c3.way # "registry" /\ (Client!Fail(FALSE) \/ (Client!Again /\ ~(c3.tries >= Client!RetryLimit)))
      BY <1>5 DEF Client!RetryByCategory
    <2>2. c3.way = "fetch" /\ c3.method = "write" => Client!RetryLimit = 0
      BY DEF Client!RetryLimit
    <2>3. c3.way \in {"registry", "category", "fetch"} /\ c3.tries \in Nat
      BY <1>1 DEF ClientCalls, Client!Ways
    <2>4. Client!Again /\ c3.method = "write" /\ c3.way # "category" /\ ~(c3.tries >= Client!RetryLimit) => FALSE
      BY <2>1, <2>2, <2>3
    <2> QED
      BY <1>2, <1>3, <2>1, <2>4
  <1> QED
    BY <1>4, <1>5

\* Other processes spend, the window ends, and the registry grows stale.
LEMMA ClientBesides ==
    ASSUME ClientInv, Client!GrowStale \/ \E t \in Client!Clients : Client!OthersSpend(t) \/ Client!Reset(t)
    PROVE  ClientInv'
  <1>1. RegistryOK(c1, c2) /\ CallOK(c3, c2) /\ CallLimit \in Nat
    BY ServicesAssumption DEF ClientInv
  <1>2. CASE Client!GrowStale
    <2>1. c2' = [c2 EXCEPT !.fresh = FALSE] /\ c1' = c1 /\ c3' = c3
      BY <1>2 DEF Client!GrowStale
    <2>2. RegistryOK(c1, c2') /\ ~c2'.fresh
      BY <1>1, <2>1 DEF RegistryOK, Registries
    <2>3. CallOK(c3, c2')
      BY <1>1, <2>2 DEF CallOK, RefusalsKnown
    <2> QED
      BY <2>1, <2>2, <2>3 DEF ClientInv
  <1>3. ASSUME NEW t \in Client!Clients, Client!OthersSpend(t)
        PROVE  ClientInv'
    <2> DEFINE left == [c1 EXCEPT ![t] = c1[t] - 1]
               drift == [c2.drift EXCEPT ![t] = c2.drift[t] + 1]
    <2>1. /\ c1[t] > 0 /\ c3' = c3 /\ c1' = left
          /\ c2' = IF t \in Credentials THEN [c2 EXCEPT !.drift[t] = c2.drift[t] + 1] ELSE c2
      BY <1>3 DEF Client!OthersSpend
    <2>2. /\ left \in [Client!Clients -> Nat] /\ \A x \in Client!Clients : left[x] = IF x = t THEN c1[x] - 1 ELSE c1[x]
          /\ \A x \in Client!Clients : left[x] <= CallLimit
      BY <1>1, <2>1 DEF RegistryOK
    <2>3. CASE t \in Credentials
      <3>1. c2' = [c2 EXCEPT !.drift = drift]
        BY <1>1, <2>1, <2>3 DEF RegistryOK, Registries
      <3>2. /\ drift \in [Credentials -> Nat]
            /\ \A x \in Credentials : drift[x] = IF x = t THEN c2.drift[x] + 1 ELSE c2.drift[x]
        BY <1>1, <2>3 DEF RegistryOK, Registries
      <3>3. \A x \in Credentials : c2.known[x] <= left[x] + drift[x]
        <4> SUFFICES ASSUME NEW x \in Credentials PROVE c2.known[x] <= left[x] + drift[x]
          OBVIOUS
        <4>1. /\ c2.known[x] \in Nat /\ c2.drift[x] \in Nat /\ c1[x] \in Nat /\ c2.known[x] <= c1[x] + c2.drift[x]
          BY <1>1, TokensAreClients DEF RegistryOK, Registries
        <4>2. left[x] + drift[x] = c1[x] + c2.drift[x]
          BY <2>2, <3>2, <4>1, TokensAreClients
        <4> QED
          BY <4>1, <4>2
      <3> HIDE DEF left, drift
      <3>4. c2' \in Registries /\ c2'.known = c2.known /\ c2'.drift = drift /\ c2'.fresh = c2.fresh
        BY <1>1, <3>1, <3>2 DEF RegistryOK, Registries
      <3>5. RegistryOK(c1', c2')
        BY <1>1, <2>1, <2>2, <3>3, <3>4 DEF RegistryOK
      <3>6. CallOK(c3, c2')
        BY <1>1, <3>4 DEF CallOK, RefusalsKnown
      <3> QED
        BY <2>1, <3>5, <3>6 DEF ClientInv
    <2>4. CASE t \notin Credentials
      <3>1. \A x \in Credentials : left[x] = c1[x]
        BY <2>2, <2>4, TokensAreClients
      <3> HIDE DEF left
      <3> QED
        BY <1>1, <2>1, <2>2, <2>4, <3>1 DEF ClientInv, RegistryOK
    <2> QED
      BY <2>3, <2>4
  <1>4. ASSUME NEW t \in Client!Clients, Client!Reset(t)
        PROVE  ClientInv'
    <2> DEFINE left == [c1 EXCEPT ![t] = CallLimit]
    <2>1. c1' = left /\ c2' = c2 /\ c3' = c3
      BY <1>4 DEF Client!Reset
    <2>2. /\ left \in [Client!Clients -> Nat] /\ \A x \in Client!Clients : left[x] = IF x = t THEN CallLimit ELSE c1[x]
          /\ \A x \in Client!Clients : left[x] <= CallLimit
      BY <1>1 DEF RegistryOK
    <2> HIDE DEF left
    <2>3. \A x \in Credentials : c2.known[x] <= left[x] + c2.drift[x]
      BY <1>1, <2>2, TokensAreClients DEF RegistryOK, Registries
    <2> QED
      BY <1>1, <2>1, <2>2, <2>3 DEF ClientInv, RegistryOK
  <1> QED
    BY <1>2, <1>3, <1>4

LEMMA ClientStep == ClientInv /\ [Client!Next]_Client!apiVars => ClientInv'
  <1>1. CASE UNCHANGED Client!apiVars
    BY <1>1 DEF Client!apiVars, ClientInv
  <1>2. CASE Client!Next
    BY <1>2, ClientBegins, ClientHears, ClientSwitches, ClientRetries, ClientBesides DEF Client!Next
  <1> QED
    BY <1>1, <1>2

LEMMA ClientStart == Client!Init => ClientInv
  <1> SUFFICES ASSUME Client!Init PROVE ClientInv
    OBVIOUS
  <1>1. c3 = Client!NoCall /\ CallLimit \in Nat
    BY ServicesAssumption DEF Client!Init
  <1>2. c1 \in [Client!Clients -> 0..CallLimit]
    BY DEF Client!Init
  <1>3. c2 = [known |-> [t \in Credentials |-> CallLimit], drift |-> [t \in Credentials |-> CallLimit],
              minted |-> {}, fresh |-> FALSE]
    BY DEF Client!Init
  <1>4. c3 \in ClientCalls
    BY <1>1, TokensAreClients DEF Client!NoCall, Client!Given, Client!Ways, Client!Methods, ClientCalls, CallPhases, CallErrors
  <1>5. c2 \in Registries /\ \A t \in Credentials : c2.known[t] = CallLimit /\ c2.drift[t] = CallLimit
    BY <1>1, <1>3 DEF Registries
  <1>6. RegistryOK(c1, c2)
    BY <1>1, <1>2, <1>5, TokensAreClients DEF RegistryOK
  <1>7. c3.phase = "none" /\ c3.method = "read"
    BY <1>1 DEF Client!NoCall
  <1> QED
    BY <1>4, <1>6, <1>7 DEF ClientInv, CallOK, RefusalsKnown, WriteKept, WriteSpent, FailureNoted

\* What is believed of the tokens, refused and sent again is as it must be.
LEMMA ClientInvariance == Spec => [](Serving => ClientInv)
  <1>1. Init => (Serving => ClientInv)
    BY ClientStart DEF Init, Serving
  <1>2. [Next]_<<part, cells>> => (Serving <=> Serving')
    BY DEF Next, Serving, cells
  <1>3. [Next]_<<part, cells>> /\ Serving => [Client!Next]_Client!apiVars
    BY DEF Next, Serving, cells, Client!apiVars
  <1>4. (Serving => ClientInv) /\ [Next]_<<part, cells>> => (Serving => ClientInv)'
    BY <1>2, <1>3, ClientStep
  <1> QED
    BY <1>1, <1>4, PTL DEF Spec

\* A write is carried out at most once, for any tokens, limits and retries,
\* unless an error hid it behind an exhausted token (withRetry,
\* isRetryableError).
THEOREM WrittenOnceAlways == Spec => []WrittenOnce
  <1>1. ClientInv => Client!WrittenOnce
    <2> SUFFICES ASSUME ClientInv, c3.way # "category", c3.method = "write"
                 PROVE  c3.applied <= 1 + c3.blurred
      BY DEF Client!WrittenOnce
    <2>1. c3.applied <= c3.blurred + WriteSpent(c3) /\ c3.applied \in Nat /\ c3.blurred \in Nat
      BY DEF ClientInv, CallOK, WriteKept, ClientCalls
    <2>2. WriteSpent(c3) \in {0, 1}
      BY DEF WriteSpent
    <2> QED
      BY <2>1, <2>2
  <1>2. (Serving => ClientInv) => WrittenOnce
    BY <1>1 DEF Serving, WrittenOnce
  <1> QED
    BY <1>2, ClientInvariance, PTL

\* Limits are respected and known, for any tokens, limits and retries
\* (getOptimalToken, updateTokenUsage, withRetry).
THEOREM LimitsRespectedAlways == Spec => []LimitsRespected
  <1>1. ClientInv => Client!LimitsRespected
    BY DEF ClientInv, RegistryOK, CallOK, RefusalsKnown, FailureNoted, Client!LimitsRespected
  <1>2. (Serving => ClientInv) => LimitsRespected
    BY <1>1 DEF Serving, LimitsRespected
  <1> QED
    BY <1>2, ClientInvariance, PTL

-----------------------------------------------------------------------------
(* CorrectionEffects: c1 says how far each execution is, c2 is the journal, *)
(* c3 what GitHub was asked for, c4 the auto-pilot executions, c5 the       *)
(* surroundings.                                                            *)

Correcting == part = "corrections"

Unstarted == {"none", "created", "skipped"}
EffectPhases == Unstarted \cup {"admitted", "done"} \cup Corrections!Holding
Effects ==
    [phase : EffectPhases, request : Aliases, issue : BOOLEAN, seen : Nat, accepted : Nat]
JournalRecords ==
    [kind : {"intent", "issue_confirmed"}, phase : {"issue_creation", "autopilot_dispatch"},
     request : Aliases, by : Executions]
Natives == [issues : Nat, dispatches : Nat, legacy : {"idle", "guarded", "refused", "created"}]
PilotPhases == {"queued", "ready", "observed", "published", "running", "done", "skipped", "failed"}
PilotRecords == [phase : PilotPhases, parent : Nat]

\* Pilots that are past their admission, that know of nobody else on their
\* step, and that worked on it.
Admitting == {"ready", "observed", "published", "running"}
Cleared == {"observed", "published"}
Started == {"running", "done"}
\* One pilot is admitted at a time; one that is cleared, or has worked, is the
\* only one of its step that has.
PilotsOK(pilots) ==
    /\ pilots \in Seq(PilotRecords)
    /\ \A p, q \in 1..Len(pilots) :
          /\ pilots[p].phase \in Admitting /\ pilots[q].phase \in Admitting => p = q
          /\ pilots[p].phase \in Cleared \cup Started /\ pilots[q].phase \in Started
                /\ pilots[p].parent = pilots[q].parent => p = q

DispatchIntended(journal) ==
    \E i \in 1..Len(journal) : journal[i].kind = "intent" /\ journal[i].phase = "autopilot_dispatch"
EffectsType ==
    /\ c1 \in [Executions -> Effects] /\ c2 \in Seq(JournalRecords) /\ c3 \in Natives
\* The lock is held by one execution or by the label lane, and the lane holds it
\* only while no execution has entered.
LockHeld(attempt, native) ==
    /\ \A a, b \in Executions :
          attempt[a].phase \in Corrections!Holding /\ attempt[b].phase \in Corrections!Holding => a = b
    /\ native.legacy = "guarded" => \A a \in Executions : attempt[a].phase \notin Corrections!Holding
\* What was asked for was intended, and who is about to ask is the first.
IssueOnce(attempt, native) ==
    /\ \A a \in Executions : attempt[a].phase \in {"create", "creating"} => ~attempt[a].issue
    /\ native.issues <= 1
    /\ native.legacy \in {"guarded", "created"} => native.issues = 0
    /\ native.issues # 0 => \E a \in Executions : attempt[a].phase \notin Unstarted
DispatchOnce(attempt, journal, native) ==
    /\ \A a \in Executions : attempt[a].phase = "dispatching" => native.dispatches = 0 /\ DispatchIntended(journal)
    /\ native.dispatches <= 1
    /\ native.dispatches # 0 => DispatchIntended(journal)

EffectsInv ==
    /\ EffectsType /\ PilotsOK(c4)
    /\ LockHeld(c1, c3) /\ IssueOnce(c1, c3) /\ DispatchOnce(c1, c2, c3)

\* What is in the journal stays there.
LEMMA IntentsStay ==
    ASSUME c2 \in Seq(JournalRecords), c2' = c2 \/ \E r \in JournalRecords : c2' = Append(c2, r)
    PROVE  c2' \in Seq(JournalRecords) /\ (DispatchIntended(c2) => DispatchIntended(c2'))
  <1>1. ASSUME NEW r \in JournalRecords, c2' = Append(c2, r)
        PROVE  c2' \in Seq(JournalRecords) /\ (DispatchIntended(c2) => DispatchIntended(c2'))
    <2>1. /\ c2' \in Seq(JournalRecords) /\ Len(c2') = Len(c2) + 1 /\ Len(c2) \in Nat
          /\ \A i \in 1..Len(c2) : c2'[i] = c2[i]
      BY <1>1
    <2>2. \A i \in 1..Len(c2) : i \in 1..Len(c2')
      BY <2>1
    <2> QED
      BY <2>1, <2>2 DEF DispatchIntended
  <1> QED
    BY <1>1

\* An execution goes on, and asks for nothing.
LEMMA EffectQuiet ==
    ASSUME EffectsInv, NEW a \in Executions, NEW new \in Effects, c1' = [c1 EXCEPT ![a] = new],
           c2' = c2 \/ \E r \in JournalRecords : c2' = Append(c2, r),
           c3' = c3, c4' = c4,
           new.phase \in Corrections!Holding => c1[a].phase \in Corrections!Holding \/ ~Corrections!Locked,
           new.phase \in {"create", "creating"} => ~new.issue,
           new.phase = "dispatching" => c3.dispatches = 0 /\ DispatchIntended(c2'),
           new.phase \in Unstarted => c1[a].phase \in Unstarted
    PROVE  EffectsInv'
  <1>1. /\ c1 \in [Executions -> Effects] /\ c1' \in [Executions -> Effects]
        /\ c1'[a] = new /\ \A b \in Executions \ {a} : c1'[b] = c1[b]
    BY DEF EffectsInv, EffectsType
  <1>2. c2' \in Seq(JournalRecords) /\ (DispatchIntended(c2) => DispatchIntended(c2'))
    BY IntentsStay DEF EffectsInv, EffectsType
  <1>3. LockHeld(c1', c3)
    BY <1>1 DEF EffectsInv, LockHeld, Corrections!Locked
  <1>4. IssueOnce(c1', c3)
    BY <1>1 DEF EffectsInv, IssueOnce
  <1>5. DispatchOnce(c1', c2', c3)
    BY <1>1, <1>2 DEF EffectsInv, DispatchOnce
  <1> QED
    BY <1>1, <1>2, <1>3, <1>4, <1>5 DEF EffectsInv, EffectsType

LEMMA EffectMoves ==
    ASSUME EffectsInv, NEW a \in Executions, NEW phase \in EffectPhases, Corrections!Go(a, phase),
           c2' = c2 \/ \E r \in JournalRecords : c2' = Append(c2, r),
           c3' = c3, c4' = c4,
           phase \in Corrections!Holding => c1[a].phase \in Corrections!Holding \/ ~Corrections!Locked,
           phase \in {"create", "creating"} => ~c1[a].issue,
           phase # "dispatching",
           phase \in Unstarted => c1[a].phase \in Unstarted
    PROVE  EffectsInv'
  <1> DEFINE new == [c1[a] EXCEPT !.phase = phase]
  <1>1. c1[a] \in Effects /\ c1 \in [Executions -> Effects]
    BY DEF EffectsInv, EffectsType
  <1>2. new \in Effects /\ new.phase = phase /\ new.issue = c1[a].issue
    BY <1>1 DEF Effects
  <1>3. c1' = [c1 EXCEPT ![a] = new]
    BY DEF Corrections!Go
  <1> HIDE DEF new
  <1> QED
    BY <1>2, <1>3, EffectQuiet

\* A record is stored, or that is not certain.
LEMMA EffectStores ==
    ASSUME EffectsInv, NEW a \in Executions, c1[a].phase \in Corrections!Holding,
           NEW kind \in {"intent", "issue_confirmed"}, NEW phase \in {"issue_creation", "autopilot_dispatch"},
           NEW ok \in EffectPhases \ Unstarted, NEW uncertain \in {"done", "observe"},
           Corrections!Store(a, kind, phase, ok, uncertain), c3' = c3, c4' = c4,
           ok \in {"create", "creating"} => ~c1[a].issue,
           ok = "dispatching" => c3.dispatches = 0 /\ kind = "intent" /\ phase = "autopilot_dispatch"
    PROVE  EffectsInv'
  <1>1. c1[a] \in Effects /\ c1 \in [Executions -> Effects] /\ c2 \in Seq(JournalRecords)
    BY DEF EffectsInv, EffectsType
  <1>2. uncertain \in EffectPhases /\ uncertain \notin Unstarted \cup {"create", "creating", "dispatching"}
    BY DEF EffectPhases, Unstarted, Corrections!Holding
  <1>3. c2' = c2 \/ \E r \in JournalRecords : c2' = Append(c2, r)
    <2>1. CASE c2' = c2
      BY <2>1
    <2>2. CASE c2' # c2
      <3> DEFINE r == [kind |-> kind, phase |-> phase, request |-> c1[a].request, by |-> a]
      <3>1. c2' = Append(c2, r)
        BY <2>2 DEF Corrections!Store
      <3>2. r \in JournalRecords
        BY <1>1 DEF Effects, JournalRecords
      <3> QED
        BY <3>1, <3>2
    <2> QED
      BY <2>1, <2>2
  <1>4. CASE Corrections!Go(a, uncertain)
    BY <1>2, <1>3, <1>4, EffectMoves
  <1>5. CASE c1' = [c1 EXCEPT ![a].phase = ok, ![a].seen = Len(c2) + 1]
    <2> DEFINE n == Len(c2) + 1
               new == [c1[a] EXCEPT !.phase = ok, !.seen = n]
    <2>1. n \in Nat
      BY <1>1
    <2>2. c1' = [c1 EXCEPT ![a] = new]
      BY <1>1, <1>5
    <2> HIDE DEF n
    <2>3. new \in Effects /\ new.phase = ok /\ new.issue = c1[a].issue
      BY <1>1, <2>1 DEF Effects
    <2> HIDE DEF new
    <2>4. ok = "dispatching" => DispatchIntended(c2')
      <3>1. ASSUME ok = "dispatching" PROVE DispatchIntended(c2')
        <4> DEFINE r == [kind |-> kind, phase |-> phase, request |-> c1[a].request, by |-> a]
        <4>1. CASE c2' = Append(c2, r)
          <5>1. c2'[Len(c2) + 1] = r /\ Len(c2) + 1 \in 1..Len(c2')
            BY <1>1, <4>1
          <5> QED
            BY <3>1, <5>1 DEF DispatchIntended
        <4>2. CASE ~(c2' = Append(c2, r))
          <5>1. Corrections!Go(a, uncertain)
            BY <4>2 DEF Corrections!Store
          <5>2. c1'[a].phase = uncertain
            BY <1>1, <5>1 DEF Corrections!Go, Effects
          <5>3. c1'[a].phase = ok
            BY <1>1, <2>2, <2>3
          <5> QED
            BY <1>2, <3>1, <5>2, <5>3
        <4> QED
          BY <4>1, <4>2
      <3> QED
        BY <3>1
    <2> QED
      BY <1>3, <2>2, <2>3, <2>4, EffectQuiet
  <1> QED
    BY <1>4, <1>5 DEF Corrections!Store

\* Executions are created and admitted, read the journal and the facts.
LEMMA EffectBegins ==
    ASSUME EffectsInv, NEW a \in Executions,
           \/ Corrections!CreateExecution(a) \/ Corrections!Collect(a) \/ Corrections!BeginEffects(a)
           \/ Corrections!CollectFacts(a) \/ Corrections!Die(a)
    PROVE  EffectsInv'
  <1>1. c1[a] \in Effects
    BY DEF EffectsInv, EffectsType
  <1>2. CASE Corrections!CreateExecution(a)
    BY <1>2, EffectMoves DEF Corrections!CreateExecution, EffectPhases, Unstarted, Corrections!Holding
  <1>3. CASE Corrections!Collect(a)
    BY <1>3, EffectMoves DEF Corrections!Collect, EffectPhases, Unstarted, Corrections!Holding
  <1>4. CASE Corrections!BeginEffects(a)
    BY <1>4, EffectMoves DEF Corrections!BeginEffects, EffectPhases, Unstarted, Corrections!Holding
  <1>5. CASE Corrections!Die(a)
    BY <1>5, EffectMoves DEF Corrections!Die, Corrections!Ending, EffectPhases, Unstarted, Corrections!Holding
  <1>6. CASE Corrections!CollectFacts(a)
    <2>1. PICK phase \in {"dispatch", "create", "done"} :
            Corrections!Go(a, phase) /\ (phase = "create" => ~c1[a].issue)
      BY <1>6 DEF Corrections!CollectFacts, Corrections!Ending
    <2>2. c1[a].phase \in {"facts", "recheck"} /\ c2' = c2 /\ c3' = c3 /\ c4' = c4
      BY <1>6 DEF Corrections!CollectFacts
    <2> QED
      BY <2>1, <2>2, EffectMoves DEF EffectPhases, Unstarted, Corrections!Holding
  <1> QED
    BY <1>2, <1>3, <1>4, <1>5, <1>6

LEMMA EffectAccepts ==
    ASSUME EffectsInv, NEW a \in Executions, c1[a].phase \in Corrections!Holding,
           Corrections!Accept(a) /\ Corrections!Continuation \in 1..Len(c4),
           c2' = c2, c3' = c3, c4' = c4
    PROVE  EffectsInv'
  <1> DEFINE n == Corrections!Continuation
             new == [c1[a] EXCEPT !.phase = "done", !.accepted = n]
  <1>1. c1[a] \in Effects /\ c1 \in [Executions -> Effects] /\ n \in Nat
    BY DEF EffectsInv, EffectsType, PilotsOK
  <1>2. c1' = [c1 EXCEPT ![a] = new]
    BY <1>1 DEF Corrections!Accept
  <1> HIDE DEF n
  <1>3. new \in Effects /\ new.phase = "done"
    BY <1>1 DEF Effects, EffectPhases
  <1> HIDE DEF new
  <1> QED
    BY <1>2, <1>3, EffectQuiet DEF Unstarted, Corrections!Holding

LEMMA EffectReads ==
    ASSUME EffectsInv, NEW a \in Executions, Corrections!ReadLedger(a) \/ Corrections!Observe(a)
    PROVE  EffectsInv'
  <1>1. c1[a] \in Effects /\ c1 \in [Executions -> Effects] /\ Len(c2) \in Nat /\ DOMAIN c4 = 1..Len(c4)
    BY DEF EffectsInv, EffectsType, PilotsOK
  <1>2. c1[a].phase \in {"read", "observe"} /\ c2' = c2 /\ c3' = c3 /\ c4' = c4
    BY DEF Corrections!ReadLedger, Corrections!Observe
  <1>3. \/ Corrections!Go(a, "done")
        \/ Corrections!Accept(a) /\ Corrections!Continuation \in DOMAIN c4
        \/ c1' = [c1 EXCEPT ![a].phase = "facts", ![a].seen = Len(c2), ![a].issue = c2 # <<>>]
    BY Zenon DEF Corrections!ReadLedger, Corrections!Observe, Corrections!Ending
  <1>4. CASE Corrections!Go(a, "done")
    BY <1>2, <1>4, EffectMoves DEF EffectPhases, Unstarted, Corrections!Holding
  <1>5. CASE Corrections!Accept(a) /\ Corrections!Continuation \in DOMAIN c4
    BY <1>1, <1>2, <1>5, EffectAccepts DEF Corrections!Holding
  <1>6. CASE c1' = [c1 EXCEPT ![a].phase = "facts", ![a].seen = Len(c2), ![a].issue = c2 # <<>>]
    <2> DEFINE n == Len(c2)
               b == c2 # <<>>
               new == [c1[a] EXCEPT !.phase = "facts", !.seen = n, !.issue = b]
    <2>1. n \in Nat /\ b \in BOOLEAN
      BY <1>1
    <2>2. c1' = [c1 EXCEPT ![a].phase = "facts", ![a].seen = n, ![a].issue = b]
      BY <1>6
    <2> HIDE DEF n, b
    <2>3. c1' = [c1 EXCEPT ![a] = new]
      BY <1>1, <2>2
    <2>4. new \in Effects /\ new.phase = "facts"
      BY <1>1, <2>1 DEF Effects, EffectPhases, Corrections!Holding
    <2> HIDE DEF new
    <2> QED
      BY <1>2, <2>3, <2>4, EffectQuiet DEF Unstarted, Corrections!Holding
  <1> QED
    BY <1>3, <1>4, <1>5, <1>6

\* Intents and confirmations.
LEMMA EffectIntends ==
    ASSUME EffectsInv, NEW a \in Executions,
           \/ Corrections!IntendCreation(a) \/ Corrections!ConfirmIssue(a) \/ Corrections!IntendDispatch(a)
    PROVE  EffectsInv'
  <1>1. /\ c1[a].phase \in Corrections!Holding /\ c3' = c3 /\ c4' = c4
        /\ Corrections!IntendCreation(a) => ~c1[a].issue
    BY DEF Corrections!IntendCreation, Corrections!ConfirmIssue, Corrections!IntendDispatch, Corrections!Holding,
           EffectsInv, IssueOnce
  <1>2. /\ {"done", "observe", "creating", "recheck", "dispatching"} \subseteq EffectPhases \ Unstarted
        /\ {"done", "observe"} \cap {"create", "creating", "dispatching"} = {}
    BY DEF EffectPhases, Unstarted, Corrections!Holding
  <1>3. CASE c2' = c2 /\ (Corrections!Go(a, "done") \/ Corrections!Go(a, "observe"))
    BY <1>1, <1>2, <1>3, EffectMoves
  <1>4. CASE Corrections!IntendCreation(a) /\ Corrections!Store(a, "intent", "issue_creation", "creating", "done")
    BY <1>1, <1>2, <1>4, EffectStores
  <1>5. CASE Corrections!ConfirmIssue(a)
    <2>1. PICK ok \in {"done", "recheck"} :
            Corrections!Store(a, "issue_confirmed", "issue_creation", ok, "done")
      BY <1>5 DEF Corrections!ConfirmIssue
    <2> QED
      BY <1>1, <1>2, <2>1, EffectStores
  <1>6. CASE /\ Corrections!IntendDispatch(a) /\ ~Corrections!Attempted("autopilot_dispatch")
             /\ Corrections!Store(a, "intent", "autopilot_dispatch", "dispatching", "observe")
    <2>1. ~DispatchIntended(c2)
      BY <1>6 DEF Corrections!Attempted, Corrections!Recorded, DispatchIntended, EffectsInv, EffectsType
    <2>2. c3.dispatches = 0
      BY <2>1 DEF EffectsInv, DispatchOnce
    <2> QED
      BY <1>1, <1>2, <1>6, <2>2, EffectStores
  <1> QED
    BY <1>3, <1>4, <1>5, <1>6 DEF Corrections!IntendCreation, Corrections!IntendDispatch, Corrections!Ending

\* One pilot goes on.
LEMMA PilotGoesOn ==
    ASSUME PilotsOK(c4), NEW p \in 1..Len(c4), NEW phase \in PilotPhases, NEW pilots,
           pilots = [c4 EXCEPT ![p].phase = phase],
           phase \in Admitting =>
              c4[p].phase \in Admitting \/ \A q \in 1..Len(c4) : c4[q].phase \notin Admitting,
           phase \in Cleared =>
              \/ c4[p].phase \in Cleared
              \/ \A q \in 1..Len(c4) \ {p} : c4[q].phase \in Started => c4[q].parent # c4[p].parent,
           phase \in Started => c4[p].phase \in Cleared \cup {"running"}
    PROVE  PilotsOK(pilots) /\ Len(pilots) = Len(c4)
  <1>1. c4 \in Seq(PilotRecords) /\ c4[p] \in PilotRecords /\ Len(c4) \in Nat
    BY DEF PilotsOK
  <1> DEFINE new == [c4[p] EXCEPT !.phase = phase]
  <1>2. new \in PilotRecords /\ new.phase = phase /\ new.parent = c4[p].parent
    BY <1>1 DEF PilotRecords
  <1>3. pilots = [c4 EXCEPT ![p] = new]
    BY <1>1
  <1> HIDE DEF new
  <1>4. /\ pilots \in Seq(PilotRecords) /\ Len(pilots) = Len(c4)
        /\ pilots[p] = new /\ \A q \in 1..Len(c4) \ {p} : pilots[q] = c4[q]
    BY <1>1, <1>2, <1>3
  <1>5. ASSUME NEW x \in 1..Len(c4), NEW y \in 1..Len(c4), pilots[x].phase \in Admitting, pilots[y].phase \in Admitting
        PROVE  x = y
    BY <1>2, <1>4, <1>5 DEF PilotsOK
  <1>6. ASSUME NEW x \in 1..Len(c4), NEW y \in 1..Len(c4), x # y,
               pilots[x].phase \in Cleared \cup Started, pilots[y].phase \in Started,
               pilots[x].parent = pilots[y].parent
        PROVE  FALSE
    <2>1. CASE x # p /\ y # p
      BY <1>4, <1>6, <2>1 DEF PilotsOK
    <2>2. CASE x = p
      <3>1. c4[y].phase \in Started /\ c4[y].parent = c4[p].parent /\ y \in 1..Len(c4) \ {p}
        BY <1>2, <1>4, <1>6, <2>2
      <3>2. c4[p].phase \in Cleared \cup Started
        BY <1>2, <1>4, <1>6, <2>2, <3>1 DEF Started
      <3> QED
        BY <1>6, <2>2, <3>1, <3>2 DEF PilotsOK
    <2>3. CASE y = p
      <3>1. x \in 1..Len(c4) \ {p} /\ pilots[x] = c4[x] /\ phase \in Started
        BY <1>2, <1>4, <1>6, <2>3
      <3>2. c4[p].phase \in Cleared \cup {"running"} /\ c4[p].phase \in Admitting /\ c4[x].parent = c4[p].parent
        BY <1>2, <1>4, <1>6, <2>3, <3>1 DEF Admitting, Cleared
      <3>3. CASE c4[x].phase \in Started
        BY <1>6, <2>3, <3>1, <3>2, <3>3 DEF PilotsOK, Started
      <3>4. CASE c4[x].phase \in Cleared
        BY <1>6, <2>3, <3>1, <3>2, <3>4 DEF PilotsOK, Cleared, Admitting
      <3> QED
        BY <1>6, <3>1, <3>3, <3>4
    <2> QED
      BY <2>1, <2>2, <2>3
  <1> QED
    BY <1>4, <1>5, <1>6 DEF PilotsOK

\* One pilot is queued.
LEMMA PilotQueued ==
    ASSUME NEW pilots, PilotsOK(pilots), NEW parent \in Nat
    PROVE  PilotsOK(Append(pilots, [phase |-> "queued", parent |-> parent]))
  <1> DEFINE new == [phase |-> "queued", parent |-> parent]
             more == Append(pilots, new)
  <1>1. new \in PilotRecords /\ pilots \in Seq(PilotRecords) /\ new.phase = "queued"
    BY DEF PilotRecords, PilotPhases, PilotsOK
  <1> HIDE DEF new
  <1>2. /\ more \in Seq(PilotRecords) /\ Len(more) = Len(pilots) + 1 /\ Len(pilots) \in Nat
        /\ more[Len(pilots) + 1] = new /\ \A q \in 1..Len(pilots) : more[q] = pilots[q]
    BY <1>1
  <1> HIDE DEF more
  <1>3. \A q \in 1..Len(more) : q \in 1..Len(pilots) \/ q = Len(pilots) + 1
    BY <1>2
  <1>4. \A q \in 1..Len(more) : more[q].phase # "queued" => q \in 1..Len(pilots) /\ more[q] = pilots[q]
    BY <1>1, <1>2, <1>3
  <1>5. "queued" \notin Admitting \cup Cleared \cup Started
    BY DEF Admitting, Cleared, Started
  <1>6. PilotsOK(more)
    BY <1>2, <1>4, <1>5 DEF PilotsOK
  <1> QED
    BY <1>6 DEF more, new

\* Executions are untouched by the pilots.
LEMMA PilotsBeside ==
    ASSUME EffectsInv, c1' = c1, c2' = c2, c3' = c3, PilotsOK(c4')
    PROVE  EffectsInv'
  BY DEF EffectsInv, EffectsType

\* The pilots' own steps.
LEMMA PilotWorks ==
    ASSUME EffectsInv, NEW p \in 1..Len(c4),
           \/ Corrections!Authenticate(p) \/ Corrections!ObserveLineage(p) \/ Corrections!RecordStarted(p)
           \/ Corrections!RecheckAdmission(p) \/ Corrections!FinishPilot(p) \/ Corrections!PilotDies(p)
    PROVE  EffectsInv'
  <1>1. /\ c1' = c1 /\ c2' = c2 /\ c3' = c3 /\ PilotsOK(c4) /\ c4[p] \in PilotRecords /\ DOMAIN c4 = 1..Len(c4)
    BY DEF EffectsInv, PilotsOK, Corrections!Authenticate, Corrections!ObserveLineage, Corrections!RecordStarted,
           Corrections!RecheckAdmission, Corrections!FinishPilot, Corrections!PilotDies
  <1>2. ASSUME NEW phase \in PilotPhases, Corrections!Pilot(p, phase),
               phase \in Admitting =>
                  c4[p].phase \in Admitting \/ \A q \in 1..Len(c4) : c4[q].phase \notin Admitting,
               phase \in Cleared =>
                  \/ c4[p].phase \in Cleared
                  \/ \A q \in 1..Len(c4) \ {p} : c4[q].phase \in Started => c4[q].parent # c4[p].parent,
               phase \in Started => c4[p].phase \in Cleared \cup {"running"}
        PROVE  EffectsInv'
    <2>1. c4' = [c4 EXCEPT ![p].phase = phase]
      BY <1>2 DEF Corrections!Pilot
    <2>2. PilotsOK(c4')
      BY <1>1, <1>2, <2>1, PilotGoesOn
    <2> QED
      BY <1>1, <2>2, PilotsBeside
  <1>3. CASE Corrections!Authenticate(p)
    <2>1. PICK phase \in {"ready", "skipped"} : Corrections!Pilot(p, phase)
      BY <1>3 DEF Corrections!Authenticate
    <2>2. \A q \in 1..Len(c4) : c4[q].phase \notin Admitting
      BY <1>1, <1>3 DEF Corrections!Authenticate, Corrections!ActivePilots, Admitting
    <2> QED
      BY <1>2, <2>1, <2>2 DEF PilotPhases, Cleared, Started
  <1>4. CASE Corrections!ObserveLineage(p)
    <2>1. c4[p].phase = "ready"
      BY <1>4 DEF Corrections!ObserveLineage
    <2>2. CASE Corrections!Pilot(p, "observed") /\ Corrections!Fresh(p)
      <3>1. \A q \in 1..Len(c4) \ {p} : c4[q].phase \in Started => c4[q].parent # c4[p].parent
        BY <1>1, <2>2 DEF Corrections!Fresh, Started
      <3> QED
        BY <1>2, <2>1, <2>2, <3>1 DEF PilotPhases, Admitting, Started
    <2>3. CASE Corrections!Pilot(p, "failed")
      BY <1>2, <2>3 DEF PilotPhases, Admitting, Cleared, Started
    <2> QED
      BY <1>4, <2>2, <2>3 DEF Corrections!ObserveLineage
  <1>5. CASE Corrections!RecordStarted(p) \/ Corrections!RecheckAdmission(p) \/ Corrections!FinishPilot(p)
    <2>1. PICK phase \in {"published", "failed", "running", "done"} :
            /\ Corrections!Pilot(p, phase)
            /\ phase \in {"published", "running"} => c4[p].phase \in Cleared
            /\ phase = "done" => c4[p].phase = "running"
      BY <1>5 DEF Corrections!RecordStarted, Corrections!RecheckAdmission, Corrections!FinishPilot, Cleared
    <2> QED
      BY <1>2, <2>1 DEF PilotPhases, Admitting, Cleared, Started
  <1>6. CASE Corrections!PilotDies(p)
    <2>1. PICK phase \in {"skipped", "done", "failed"} :
            Corrections!Pilot(p, phase) /\ (phase = "done" => c4[p].phase = "running")
      BY <1>6 DEF Corrections!PilotDies
    <2> QED
      BY <1>2, <2>1 DEF PilotPhases, Admitting, Cleared, Started
  <1> QED
    BY <1>3, <1>4, <1>5, <1>6

\* A successor, and an execution that is run again.
LEMMA PilotFollows ==
    ASSUME EffectsInv, NEW p \in 1..Len(c4), Corrections!Redispatch(p) \/ Corrections!Rerun(p)
    PROVE  EffectsInv'
  <1>1. /\ c1' = c1 /\ c2' = c2 /\ c3' = c3 /\ PilotsOK(c4) /\ c4[p] \in PilotRecords
    BY DEF EffectsInv, PilotsOK, Corrections!Redispatch, Corrections!Rerun
  <1>2. CASE Corrections!Redispatch(p)
    <2> DEFINE done == [c4 EXCEPT ![p].phase = "done"]
    <2>1. c4[p].phase = "running" /\ c4' = Append(done, [phase |-> "queued", parent |-> p])
      BY <1>2 DEF Corrections!Redispatch
    <2>2. PilotsOK(done)
      BY <1>1, <2>1, PilotGoesOn DEF PilotPhases, Admitting, Cleared
    <2> HIDE DEF done
    <2> QED
      BY <1>1, <2>1, <2>2, PilotQueued, PilotsBeside
  <1>3. CASE Corrections!Rerun(p)
    <2>1. c4' = Append(c4, [phase |-> "queued", parent |-> c4[p].parent]) /\ c4[p].parent \in Nat
      BY <1>1, <1>3 DEF Corrections!Rerun, PilotRecords
    <2> QED
      BY <1>1, <2>1, PilotQueued, PilotsBeside
  <1> QED
    BY <1>2, <1>3

\* The one request for an issue, whose answer may be lost.
LEMMA EffectCreates ==
    ASSUME EffectsInv, NEW a \in Executions, Corrections!CreateIssue(a)
    PROVE  EffectsInv'
  <1>1. /\ c1[a] \in Effects /\ c1 \in [Executions -> Effects] /\ c3 \in Natives /\ c1[a].phase = "creating"
        /\ ~c1[a].issue /\ c2' = c2 /\ c4' = c4 /\ c1[a].phase \in Corrections!Holding
    BY DEF EffectsInv, EffectsType, IssueOnce, Corrections!CreateIssue, Corrections!Holding
  <1>2. CASE Corrections!Ending(a) /\ c3' = c3
    BY <1>1, <1>2, EffectMoves DEF Corrections!Ending, EffectPhases, Unstarted, Corrections!Holding
  <1>3. ASSUME Corrections!GateOpen(a), c3' = [c3 EXCEPT !.issues = c3.issues + 1],
               \/ c1' = [c1 EXCEPT ![a].phase = "confirm", ![a].issue = TRUE]
               \/ Corrections!Ending(a)
        PROVE  EffectsInv'
    <2>1. c3.issues = 0 /\ c3.legacy # "created"
      BY <1>1, <1>3 DEF Corrections!GateOpen, Corrections!Unclaimed
    <2>2. c3.legacy # "guarded"
      BY <1>1 DEF EffectsInv, LockHeld
    <2>3. /\ c3' \in Natives /\ c3'.issues = 1 /\ c3'.legacy = c3.legacy /\ c3'.dispatches = c3.dispatches
      <3>1. c3' = [c3 EXCEPT !.issues = 1]
        BY <1>3, <2>1
      <3> QED
        BY <1>1, <3>1 DEF Natives
    <2>4. PICK new \in Effects : /\ c1' = [c1 EXCEPT ![a] = new]
                                 /\ new.phase \in {"confirm", "done"}
      <3>1. CASE c1' = [c1 EXCEPT ![a].phase = "confirm", ![a].issue = TRUE]
        <4> DEFINE new == [c1[a] EXCEPT !.phase = "confirm", !.issue = TRUE]
        <4>1. c1' = [c1 EXCEPT ![a] = new]
          BY <1>1, <3>1
        <4>2. new \in Effects /\ new.phase = "confirm"
          BY <1>1 DEF Effects, EffectPhases, Corrections!Holding
        <4> HIDE DEF new
        <4> QED
          BY <4>1, <4>2
      <3>2. CASE Corrections!Ending(a)
        <4> DEFINE new == [c1[a] EXCEPT !.phase = "done"]
        <4>1. c1' = [c1 EXCEPT ![a] = new]
          BY <3>2 DEF Corrections!Ending, Corrections!Go
        <4>2. new \in Effects /\ new.phase = "done"
          BY <1>1 DEF Effects, EffectPhases
        <4> HIDE DEF new
        <4> QED
          BY <4>1, <4>2
      <3> QED
        BY <1>3, <3>1, <3>2
    <2>5. /\ c1' \in [Executions -> Effects] /\ c1'[a] = new /\ \A b \in Executions \ {a} : c1'[b] = c1[b]
      BY <1>1, <2>4
    <2>6. new.phase \notin Unstarted \cup {"create", "creating", "dispatching"}
      BY <2>4 DEF Unstarted
    <2>7. LockHeld(c1', c3')
      BY <1>1, <2>2, <2>3, <2>5 DEF EffectsInv, LockHeld
    <2>8. IssueOnce(c1', c3')
      <3>1. c3'.issues <= 1
        BY <2>3
      <3>2. \A b \in Executions : c1'[b].phase \in {"create", "creating"} => ~c1'[b].issue
        BY <2>5, <2>6 DEF EffectsInv, IssueOnce
      <3> QED
        BY <2>1, <2>2, <2>3, <2>5, <2>6, <3>1, <3>2 DEF IssueOnce
    <2>9. DispatchOnce(c1', c2', c3')
      BY <1>1, <2>3, <2>5, <2>6 DEF EffectsInv, DispatchOnce
    <2> QED
      BY <1>1, <2>3, <2>5, <2>7, <2>8, <2>9 DEF EffectsInv, EffectsType
  <1>4. \/ Corrections!Ending(a) /\ c3' = c3
        \/ /\ Corrections!GateOpen(a) /\ c3' = [c3 EXCEPT !.issues = c3.issues + 1]
           /\ \/ c1' = [c1 EXCEPT ![a].phase = "confirm", ![a].issue = TRUE]
              \/ Corrections!Ending(a)
    BY Zenon DEF Corrections!CreateIssue
  <1> QED
    BY <1>2, <1>3, <1>4

\* The one dispatch.
LEMMA EffectDispatches ==
    ASSUME EffectsInv, NEW a \in Executions, Corrections!Dispatch(a)
    PROVE  EffectsInv'
  <1>1. /\ c1[a] \in Effects /\ c1 \in [Executions -> Effects] /\ c3 \in Natives /\ c1[a].phase = "dispatching"
        /\ c2' = c2 /\ c1[a].phase \in Corrections!Holding /\ Corrections!Go(a, "observe")
    BY DEF EffectsInv, EffectsType, Corrections!Dispatch, Corrections!Holding
  <1>2. CASE c3' = c3 /\ c4' = c4
    BY <1>1, <1>2, EffectMoves DEF EffectPhases, Unstarted, Corrections!Holding
  <1>3. CASE Corrections!QueuedPilot(0) /\ c3' = [c3 EXCEPT !.dispatches = c3.dispatches + 1]
    <2>1. c3.dispatches = 0 /\ DispatchIntended(c2) /\ c3.legacy # "guarded"
      BY <1>1 DEF EffectsInv, DispatchOnce, LockHeld
    <2>2. c3' \in Natives /\ c3'.dispatches = 1 /\ c3'.legacy = c3.legacy /\ c3'.issues = c3.issues
      <3>1. c3' = [c3 EXCEPT !.dispatches = 1]
        BY <1>3, <2>1
      <3> QED
        BY <1>1, <3>1 DEF Natives
    <2>3. PilotsOK(c4')
      BY <1>3, PilotQueued DEF EffectsInv, Corrections!QueuedPilot
    <2> DEFINE new == [c1[a] EXCEPT !.phase = "observe"]
    <2>4. c1' = [c1 EXCEPT ![a] = new]
      BY <1>1 DEF Corrections!Go
    <2>5. new \in Effects /\ new.phase = "observe"
      BY <1>1 DEF Effects, EffectPhases, Corrections!Holding
    <2> HIDE DEF new
    <2>6. /\ c1' \in [Executions -> Effects] /\ c1'[a] = new /\ \A b \in Executions \ {a} : c1'[b] = c1[b]
      BY <1>1, <2>4, <2>5
    <2>7. new.phase \notin Unstarted \cup {"create", "creating", "dispatching"}
      BY <2>5 DEF Unstarted
    <2>8. LockHeld(c1', c3')
      BY <1>1, <2>1, <2>2, <2>6 DEF EffectsInv, LockHeld
    <2>9. IssueOnce(c1', c3')
      BY <2>2, <2>6, <2>7 DEF EffectsInv, IssueOnce
    <2>10. DispatchOnce(c1', c2', c3')
      <3>1. \A b \in Executions : c1'[b].phase # "dispatching"
        <4>1. \A b \in Executions \ {a} : c1[b].phase # "dispatching"
          BY <1>1 DEF EffectsInv, LockHeld, Corrections!Holding
        <4> QED
          BY <2>6, <2>7, <4>1
      <3> QED
        BY <1>1, <2>1, <2>2, <3>1 DEF DispatchOnce
    <2> QED
      BY <1>1, <2>2, <2>3, <2>6, <2>8, <2>9, <2>10 DEF EffectsInv, EffectsType
  <1> QED
    BY <1>2, <1>3 DEF Corrections!Dispatch

\* The label lane.
LEMMA LegacyMoves ==
    ASSUME EffectsInv, Corrections!LegacyGuard \/ Corrections!LegacyCreate
    PROVE  EffectsInv'
  <1>1. /\ c1' = c1 /\ c2' = c2 /\ c4' = c4 /\ c3 \in Natives
    BY DEF EffectsInv, EffectsType, Corrections!LegacyGuard, Corrections!LegacyCreate
  <1>2. ASSUME NEW lane \in {"guarded", "refused", "created"}, c3' = [c3 EXCEPT !.legacy = lane],
               lane \in {"guarded", "created"} => c3.issues = 0,
               lane = "guarded" => \A a \in Executions : c1[a].phase \notin Corrections!Holding
        PROVE  EffectsInv'
    <2>1. c3' \in Natives /\ c3'.legacy = lane /\ c3'.issues = c3.issues /\ c3'.dispatches = c3.dispatches
      BY <1>1, <1>2 DEF Natives
    <2>2. LockHeld(c1', c3') /\ IssueOnce(c1', c3') /\ DispatchOnce(c1', c2', c3')
      BY <1>1, <1>2, <2>1 DEF EffectsInv, LockHeld, IssueOnce, DispatchOnce
    <2> QED
      BY <1>1, <2>1, <2>2 DEF EffectsInv, EffectsType
  <1>3. CASE Corrections!LegacyGuard
    <2>1. CASE Corrections!LegacyRefused
      BY <1>2, <1>3, <2>1 DEF Corrections!LegacyGuard
    <2>2. CASE ~Corrections!LegacyRefused
      <3>1. c3.issues = 0
        BY <2>2 DEF EffectsInv, IssueOnce, Corrections!LegacyRefused, Unstarted
      <3>2. \A a \in Executions : c1[a].phase \notin Corrections!Holding
        BY <1>3 DEF Corrections!LegacyGuard, Corrections!Locked
      <3> QED
        BY <1>2, <1>3, <2>2, <3>1, <3>2 DEF Corrections!LegacyGuard
    <2> QED
      BY <2>1, <2>2
  <1>4. CASE Corrections!LegacyCreate
    <2>1. c3.legacy = "guarded" /\ c3' = [c3 EXCEPT !.legacy = "created"]
      BY <1>4 DEF Corrections!LegacyCreate
    <2> QED
      BY <1>2, <2>1 DEF EffectsInv, IssueOnce
  <1> QED
    BY <1>3, <1>4

LEMMA EffectsStep == EffectsInv /\ [Corrections!Next]_Corrections!correctionVars => EffectsInv'
  <1> SUFFICES ASSUME EffectsInv, [Corrections!Next]_Corrections!correctionVars PROVE EffectsInv'
    OBVIOUS
  <1>1. CASE UNCHANGED Corrections!correctionVars
    BY <1>1 DEF Corrections!correctionVars, EffectsInv, EffectsType
  <1>2. CASE \E x \in Corrections!Changes : Corrections!Change(x)
    BY <1>2 DEF Corrections!Change, EffectsInv, EffectsType
  <1>3. CASE \E a \in Executions :
               \/ Corrections!CreateExecution(a) \/ Corrections!Collect(a) \/ Corrections!BeginEffects(a)
               \/ Corrections!ReadLedger(a) \/ Corrections!CollectFacts(a)
               \/ Corrections!IntendCreation(a) \/ Corrections!CreateIssue(a) \/ Corrections!ConfirmIssue(a)
               \/ Corrections!IntendDispatch(a) \/ Corrections!Dispatch(a) \/ Corrections!Observe(a)
               \/ Corrections!Die(a)
    BY <1>3, EffectBegins, EffectReads, EffectIntends, EffectCreates, EffectDispatches
  <1>4. CASE \E p \in DOMAIN c4 :
               \/ Corrections!Authenticate(p) \/ Corrections!ObserveLineage(p) \/ Corrections!RecordStarted(p)
               \/ Corrections!RecheckAdmission(p) \/ Corrections!Redispatch(p) \/ Corrections!FinishPilot(p)
               \/ Corrections!PilotDies(p) \/ Corrections!Rerun(p)
    <2>1. DOMAIN c4 = 1..Len(c4)
      BY DEF EffectsInv, PilotsOK
    <2> QED
      BY <1>4, <2>1, PilotWorks, PilotFollows
  <1> QED
    BY <1>1, <1>2, <1>3, <1>4, LegacyMoves DEF Corrections!Next

LEMMA EffectsStart == Corrections!Init => EffectsInv
  <1> SUFFICES ASSUME Corrections!Init PROVE EffectsInv
    OBVIOUS
  <1>1. /\ c1 \in [Executions -> [phase : {"none"}, request : Aliases, issue : {FALSE}, seen : {0}, accepted : {0}]]
        /\ c2 = <<>> /\ c4 = <<>> /\ c3 = [issues |-> 0, dispatches |-> 0, legacy |-> "idle"]
    BY DEF Corrections!Init
  <1>2. c1 \in [Executions -> Effects] /\ \A a \in Executions : c1[a].phase = "none"
    <2> DEFINE idle == [phase : {"none"}, request : Aliases, issue : {FALSE}, seen : {0}, accepted : {0}]
    <2>1. c1 \in [Executions -> idle]
      BY <1>1
    <2>2. \A r \in idle : r \in Effects /\ r.phase = "none"
      <3> SUFFICES ASSUME NEW r \in idle PROVE r \in Effects /\ r.phase = "none"
        OBVIOUS
      <3>1. /\ r.phase = "none" /\ r.request \in Aliases /\ r.issue = FALSE /\ r.seen = 0 /\ r.accepted = 0
            /\ r = [phase |-> r.phase, request |-> r.request, issue |-> r.issue, seen |-> r.seen, accepted |-> r.accepted]
        OBVIOUS
      <3>2. "none" \in EffectPhases /\ FALSE \in BOOLEAN /\ 0 \in Nat
        BY DEF EffectPhases, Unstarted
      <3> QED
        BY <3>1, <3>2 DEF Effects
    <2> HIDE DEF idle
    <2> QED
      BY <2>1, <2>2
  <1>3. c3 \in Natives /\ c2 \in Seq(JournalRecords) /\ c4 \in Seq(PilotRecords) /\ Len(c4) = 0
    BY <1>1 DEF Natives
  <1> QED
    BY <1>1, <1>2, <1>3 DEF EffectsInv, EffectsType, PilotsOK, LockHeld, IssueOnce, DispatchOnce, Corrections!Holding

LEMMA EffectsInvariance == Spec => [](Correcting => EffectsInv)
  <1>1. Init => (Correcting => EffectsInv)
    BY EffectsStart DEF Init, Correcting
  <1>2. [Next]_<<part, cells>> => (Correcting <=> Correcting')
    BY DEF Next, Correcting, cells
  <1>3. [Next]_<<part, cells>> /\ Correcting => [Corrections!Next]_Corrections!correctionVars
    BY DEF Next, Correcting, cells, Corrections!correctionVars
  <1>4. (Correcting => EffectsInv) /\ [Next]_<<part, cells>> => (Correcting => EffectsInv)'
    BY <1>2, <1>3, EffectsStep
  <1> QED
    BY <1>1, <1>4, PTL DEF Spec

\* A finding gets one issue, one dispatch, and one execution for each step, for
\* any number of executions, requests, pilots and faults
\* (verifier_correction_effects.js, guardLegacyCorrection,
\* observeStartedReceipts).
THEOREM CorrectedOnceAlways == Spec => []CorrectedOnce
  <1>1. EffectsInv => Corrections!CorrectedOnce
    <2> SUFFICES ASSUME EffectsInv PROVE Corrections!CorrectedOnce
      OBVIOUS
    <2>1. c3.issues \in Nat /\ c3.issues <= 1 /\ (c3.legacy = "created" => c3.issues = 0) /\ c3.dispatches <= 1
      BY DEF EffectsInv, EffectsType, Natives, IssueOnce, DispatchOnce
    <2>2. DOMAIN c4 = 1..Len(c4)
      BY DEF EffectsInv, PilotsOK
    <2>3. c3.issues + (IF c3.legacy = "created" THEN 1 ELSE 0) <= 1
      BY <2>1
    <2> QED
      BY <2>1, <2>2, <2>3 DEF EffectsInv, PilotsOK, Started, Corrections!CorrectedOnce
  <1>2. (Correcting => EffectsInv) => CorrectedOnce
    BY <1>1 DEF Correcting, CorrectedOnce
  <1> QED
    BY <1>2, EffectsInvariance, PTL

-----------------------------------------------------------------------------
(* ForkStatus: c1 is the pull request, c2 the runs at its head, c3 the      *)
(* status, c4 the jobs, c5 what happened.                                   *)

Publishing == part = "fork"

ForkPulls ==
    [kind : {"gate", "guard"}, moved : BOOLEAN, labels : SUBSET Fork!Labels,
     review : {"none", "approved", "commented"}, blessed : BOOLEAN,
     file : {"none", "refs", "logic", "removed"}, author : {"owner", "trusted", "other"}]
ForkRuns ==
    [attempt : Nat, state : {"running", "success", "failure"}, eligible : BOOLEAN,
     policy : SUBSET Fork!Labels]
ForkStates == {"none", "pending", "success", "failure"}
ForkVerdicts == [state : ForkStates, receipt : SUBSET Fork!Labels, run : Nat, attempt : Nat]
ForkSpent == [tests : Nat, edits : Nat, faults : Nat]

\* An attempt that ended stays as it is, until it is followed by another.
Later(a, b) == b.attempt > a.attempt \/ (b.attempt = a.attempt /\ (a.state = "running" \/ b = a))
Grown(runs, more) ==
    /\ more \in Seq(ForkRuns) /\ Len(runs) <= Len(more)
    /\ \A i \in 1..Len(runs) : Later(runs[i], more[i])
\* The pull request is still the same, and an approval is not forgotten.
SamePull(pull, new) ==
    /\ new.kind = pull.kind /\ new.file = pull.file /\ new.author = pull.author
    /\ pull.blessed => new.blessed

\* A verdict is of an attempt there was, and a success is true of it; and what
\* the pull request changes is allowed with the labels of the receipt.
Allowed(labels, pull) ==
    pull.file # "none" =>
        pull.blessed \/ pull.author = "owner" \/ (pull.file = "refs" /\ "allow" \in labels)
Earned(v, pull, runs) ==
    v.run # 0 =>
        /\ v.run \in 1..Len(runs) /\ v.attempt <= runs[v.run].attempt
        /\ v.state = "success" /\ runs[v.run].attempt = v.attempt =>
             /\ runs[v.run].state = "success"
             /\ pull.kind = "guard" =>
                  IF runs[v.run].eligible THEN runs[v.run].policy = v.receipt ELSE ~Fork!Routed(v.receipt)
Sound(v, pull, runs) == Earned(v, pull, runs) /\ (v.state = "success" => Allowed(v.receipt, pull))

\* A run whose job waits or is at work has not ended.
Producing(job, pull, runs) ==
    pull.kind = "guard" /\ job.run \in 1..Len(runs) /\ runs[job.run].state = "running"
\* A publisher looks at a run, and at the status nobody writes meanwhile.
LooksAt(job, pull, runs, verdict) ==
    /\ job.run \in 1..Len(runs) /\ job.snap \in ForkRuns /\ Later(job.snap, runs[job.run])
    /\ pull.kind = "guard" => job.seen = verdict
Looked(job, pull, runs, verdict) ==
    /\ job = [kind |-> "recheck", run |-> job.run, snap |-> job.snap, seen |-> job.seen,
              state |-> job.state, jobs |-> job.jobs, latest |-> job.latest]
    /\ LooksAt(job, pull, runs, verdict) /\ job.jobs \in ForkRuns /\ job.latest = verdict
    /\ job.state \in {"pending", "success", "failure"}
    /\ job.state = "success" => pull.file = "none" /\ job.jobs.state = "success"
    /\ IF pull.kind = "guard" THEN Later(job.snap, job.jobs) /\ Later(job.jobs, runs[job.run])
       ELSE job.jobs = job.snap
\* What is about to be written may take the place of what is there.
Written(job, pull, runs, verdict) ==
    /\ job.run \in 1..Len(runs) /\ job.attempt \in Nat /\ job.state \in ForkStates
    /\ job.receipt \subseteq Fork!Labels /\ job.seen = verdict
    /\ Sound(job, pull, runs)
    /\ ~Fork!Newer(verdict, job) \/ (verdict.state = "success" /\ job.state = "failure")
JobKinds == {"none", "producer", "evaluate", "decide", "post", "fetch", "reconcile", "inspect", "recheck", "write"}
JobOK(job, pull, runs, verdict) ==
    /\ job.kind \in JobKinds
    /\ job.kind = "none" => job = Fork!Idle
    /\ job.kind = "producer" => Producing(job, pull, runs)
    /\ job.kind = "decide" => (job.eligible /\ job.passed => Allowed(job.labels, pull))
    /\ job.kind = "post" => /\ job.state \in {"success", "failure"} /\ job.receipt \subseteq Fork!Labels
                            /\ job.state = "success" => Allowed(job.receipt, pull)
    /\ job.kind = "fetch" => job.run \in 1..Len(runs)
    /\ job.kind \in {"reconcile", "inspect"} =>
         /\ job = [kind |-> job.kind, run |-> job.run, snap |-> job.snap, seen |-> job.seen]
         /\ LooksAt(job, pull, runs, verdict)
    /\ job.kind = "reconcile" => pull.kind = "guard"
    /\ job.kind = "recheck" => Looked(job, pull, runs, verdict)
    /\ job.kind = "write" => Written(job, pull, runs, verdict)
WaitingOK(waiting, job, pull, runs) ==
    /\ waiting.kind \in {"none", "direct", "publisher", "producer"}
    /\ waiting.kind = "none" => waiting = Fork!Idle
    /\ waiting.kind = "direct" =>
         waiting = [kind |-> "direct", payload |-> waiting.payload, eligible |-> waiting.eligible]
    /\ waiting.kind = "publisher" => /\ waiting = [kind |-> "publisher", run |-> waiting.run]
                                     /\ waiting.run \in 1..Len(runs)
    /\ waiting.kind = "producer" => /\ Producing(waiting, pull, runs)
                                    /\ job.kind = "producer" => job.run # waiting.run

\* While nothing failed, a success for other labels than there are is noticed:
\* a job waits or a run has ended, or the job at work still compares the labels.
Fits(v, pull) == v.state = "success" => v.receipt = pull.labels
Noticed(queue, pull, verdict, spent) ==
    spent.faults = 0 /\ pull.kind = "guard" /\ ~pull.moved =>
        \/ queue.waiting # Fork!Idle \/ queue.ended # {}
        \/ /\ queue.job.kind \in {"none", "inspect", "recheck"} => Fits(verdict, pull)
           /\ queue.job.kind \in {"write", "post"} => Fits(queue.job, pull)
QueueOK(queue) == queue = [job |-> queue.job, waiting |-> queue.waiting, ended |-> queue.ended]
ForkType ==
    /\ c1 \in ForkPulls /\ c2 \in Seq(ForkRuns) /\ c3 \in ForkVerdicts /\ c5 \in ForkSpent
    /\ QueueOK(c4)
    /\ c4.ended \subseteq 1..Len(c2)
ForkInv ==
    /\ ForkType
    /\ c1.review = "approved" => c1.blessed
    /\ Sound(c3, c1, c2)
    /\ JobOK(c4.job, c1, c2, c3)
    /\ WaitingOK(c4.waiting, c4.job, c1, c2)
    /\ Noticed(c4, c1, c3, c5)

\* What is true of a verdict stays true while runs go on.
LEMMA VerdictStays ==
    ASSUME NEW v, NEW pull, NEW new, NEW runs \in Seq(ForkRuns), NEW more,
           v.attempt \in Nat, Grown(runs, more), SamePull(pull, new), Sound(v, pull, runs)
    PROVE  Sound(v, new, more)
  <1>1. v.state = "success" => Allowed(v.receipt, new)
    BY DEF Sound, Allowed, SamePull
  <1>2. ASSUME v.run # 0 PROVE Earned(v, new, more)
    <2> DEFINE a == runs[v.run]
               b == more[v.run]
    <2>1. v.run \in 1..Len(runs) /\ v.attempt <= a.attempt
      BY <1>2 DEF Sound, Earned
    <2>2. a \in ForkRuns /\ b \in ForkRuns /\ Later(a, b) /\ v.run \in 1..Len(more)
      BY <2>1 DEF Grown
    <2>3. a.attempt \in Nat /\ b.attempt \in Nat
      BY <2>2 DEF ForkRuns
    <2>4. v.attempt <= b.attempt
      BY <2>1, <2>2, <2>3 DEF Later
    <2>5. ASSUME v.state = "success", b.attempt = v.attempt PROVE b = a
      <3>1. a.attempt = v.attempt
        BY <2>1, <2>2, <2>3, <2>5 DEF Later
      <3>2. a.state = "success"
        BY <1>2, <2>5, <3>1 DEF Sound, Earned
      <3> QED
        BY <2>2, <2>3, <2>5, <3>1, <3>2 DEF Later
    <2> HIDE DEF a, b
    <2> QED
      BY <1>2, <2>1, <2>2, <2>4, <2>5 DEF a, b, Sound, Earned, SamePull
  <1> QED
    BY <1>1, <1>2 DEF Sound, Earned

LEMMA LaterChain ==
    ASSUME NEW a \in ForkRuns, NEW b \in ForkRuns, NEW c \in ForkRuns, Later(a, b), Later(b, c)
    PROVE  Later(a, c)
  BY DEF Later, ForkRuns

\* And so does what a job relies on, unless it is the run's own job.
LEMMA JobStays ==
    ASSUME NEW job, NEW pull, NEW new, NEW runs \in Seq(ForkRuns), NEW more, NEW verdict,
           Grown(runs, more), SamePull(pull, new), JobOK(job, pull, runs, verdict),
           job.kind = "producer" => more[job.run].state = "running"
    PROVE  JobOK(job, new, more, verdict)
  <1>1. 1..Len(runs) \subseteq 1..Len(more)
    BY DEF Grown
  <1>2. job.kind = "producer" => Producing(job, new, more)
    BY <1>1 DEF JobOK, Producing, SamePull
  <1>3. ASSUME LooksAt(job, pull, runs, verdict) PROVE LooksAt(job, new, more, verdict)
    <2>1. job.run \in 1..Len(runs) /\ job.run \in 1..Len(more) /\ job.snap \in ForkRuns /\ Later(job.snap, runs[job.run])
      BY <1>1, <1>3 DEF LooksAt
    <2>2. runs[job.run] \in ForkRuns /\ more[job.run] \in ForkRuns /\ Later(runs[job.run], more[job.run])
      BY <1>1, <2>1 DEF Grown
    <2>3. Later(job.snap, more[job.run])
      BY <2>1, <2>2, LaterChain
    <2> QED
      BY <1>3, <2>1, <2>3 DEF LooksAt, SamePull
  <1>4. \A labels : Allowed(labels, pull) => Allowed(labels, new)
    BY DEF Allowed, SamePull
  <1>5. ASSUME Looked(job, pull, runs, verdict) PROVE Looked(job, new, more, verdict)
    <2>1. LooksAt(job, new, more, verdict)
      BY <1>3, <1>5 DEF Looked
    <2>2. job.run \in 1..Len(runs)
      BY <1>5 DEF Looked, LooksAt
    <2>3. runs[job.run] \in ForkRuns /\ more[job.run] \in ForkRuns /\ Later(runs[job.run], more[job.run])
      BY <1>1, <2>2 DEF Grown
    <2>4. pull.kind = "guard" => Later(job.snap, job.jobs) /\ Later(job.jobs, more[job.run])
      BY <1>5, <2>3, LaterChain DEF Looked
    <2> QED
      BY <1>5, <2>1, <2>4 DEF Looked, SamePull
  <1>6. ASSUME Written(job, pull, runs, verdict) PROVE Written(job, new, more, verdict)
    <2>1. Sound(job, new, more)
      BY <1>6, VerdictStays DEF Written
    <2> QED
      BY <1>1, <1>6, <2>1 DEF Written
  <1>7. job.kind = "decide" => (job.eligible /\ job.passed => Allowed(job.labels, new))
    BY <1>4 DEF JobOK
  <1>8. job.kind = "post" => /\ job.state \in {"success", "failure"} /\ job.receipt \subseteq Fork!Labels
                             /\ job.state = "success" => Allowed(job.receipt, new)
    BY <1>4 DEF JobOK
  <1>9. new.kind = pull.kind
    BY DEF SamePull
  <1> QED
    BY <1>1, <1>2, <1>3, <1>5, <1>6, <1>7, <1>8, <1>9 DEF JobOK

LEMMA SameRuns == \A runs \in Seq(ForkRuns) : Grown(runs, runs)
  BY DEF Grown, Later, ForkRuns
LEMMA SamePulls == \A pull : SamePull(pull, pull)
  BY DEF SamePull

\* Runs go on, and what waits is replaced: the job at work is not disturbed.
LEMMA ForkGoesOn ==
    ASSUME ForkInv, Grown(c2, c2'), c1' \in ForkPulls, SamePull(c1, c1'), c1'.review = "approved" => c1'.blessed,
           c3' = c3, c5' \in ForkSpent, c5.faults = c5'.faults \/ c5'.faults # 0,
           QueueOK(c4'),
           c4'.job = c4.job, c4'.ended \subseteq 1..Len(c2'),
           c4.job.kind = "producer" => c2'[c4.job.run].state = "running",
           WaitingOK(c4'.waiting, c4.job, c1', c2'),
           \/ c4'.waiting # Fork!Idle \/ c4'.ended # {} \/ c1'.moved
           \/ c1'.labels = c1.labels /\ c1'.moved = c1.moved /\ c4.waiting = Fork!Idle /\ c4.ended = {}
    PROVE  ForkInv'
  <1>1. ForkType'
    BY DEF ForkInv, ForkType, Grown
  <1>2. c2 \in Seq(ForkRuns) /\ c3.attempt \in Nat /\ Sound(c3, c1, c2) /\ JobOK(c4.job, c1, c2, c3)
    BY DEF ForkInv, ForkType, ForkVerdicts
  <1>3. Sound(c3, c1', c2')
    BY <1>2, VerdictStays
  <1>4. JobOK(c4.job, c1', c2', c3)
    BY <1>2, JobStays
  <1>5. Noticed(c4', c1', c3, c5')
    BY DEF ForkInv, Noticed, Fits, SamePull
  <1> QED
    BY <1>1, <1>3, <1>4, <1>5 DEF ForkInv
LEMMA ForkParts ==
    ASSUME ForkInv
    PROVE  /\ c1 \in ForkPulls /\ c2 \in Seq(ForkRuns) /\ c3 \in ForkVerdicts /\ c5 \in ForkSpent
           /\ QueueOK(c4)
           /\ c4.ended \subseteq 1..Len(c2) /\ (c1.review = "approved" => c1.blessed)
           /\ JobOK(c4.job, c1, c2, c3) /\ WaitingOK(c4.waiting, c4.job, c1, c2)
           /\ c5.faults \in Nat /\ Len(c2) \in Nat
  BY DEF ForkInv, ForkType, ForkSpent

LEMMA GrownOn ==
    ASSUME NEW a \in Seq(ForkRuns), NEW b, NEW c, Grown(a, b), Grown(b, c)
    PROVE  Grown(a, c)
  <1>1. ASSUME NEW i \in 1..Len(a) PROVE Later(a[i], c[i])
    <2>1. i \in 1..Len(b) /\ i \in 1..Len(c)
      BY DEF Grown
    <2>2. a[i] \in ForkRuns /\ b[i] \in ForkRuns /\ c[i] \in ForkRuns
      BY <2>1 DEF Grown
    <2> QED
      BY <2>1, <2>2, LaterChain DEF Grown
  <1> QED
    BY <1>1 DEF Grown

\* One run changes, or is added.
LEMMA OneRun ==
    ASSUME NEW runs \in Seq(ForkRuns), NEW i \in 1..Len(runs), NEW run \in ForkRuns, Later(runs[i], run)
    PROVE  /\ Grown(runs, [runs EXCEPT ![i] = run]) /\ Len([runs EXCEPT ![i] = run]) = Len(runs)
           /\ [runs EXCEPT ![i] = run][i] = run
           /\ \A j \in 1..Len(runs) : j # i => [runs EXCEPT ![i] = run][j] = runs[j]
  <1> DEFINE more == [runs EXCEPT ![i] = run]
  <1>1. more \in Seq(ForkRuns) /\ Len(more) = Len(runs) /\ more[i] = run
    OBVIOUS
  <1>2. \A j \in 1..Len(runs) : j # i => more[j] = runs[j]
    OBVIOUS
  <1>3. \A j \in 1..Len(runs) : runs[j] \in ForkRuns
    OBVIOUS
  <1>4. \A j \in 1..Len(runs) : Later(runs[j], more[j])
    BY <1>1, <1>2, <1>3 DEF Later, ForkRuns
  <1> QED
    BY <1>1, <1>2, <1>4 DEF Grown
LEMMA MoreRuns ==
    ASSUME NEW runs \in Seq(ForkRuns), NEW run \in ForkRuns
    PROVE  /\ Grown(runs, Append(runs, run)) /\ Len(Append(runs, run)) = Len(runs) + 1
           /\ Append(runs, run)[Len(runs) + 1] = run
           /\ \A j \in 1..Len(runs) : Append(runs, run)[j] = runs[j]
  <1> DEFINE more == Append(runs, run)
  <1>1. more \in Seq(ForkRuns) /\ Len(more) = Len(runs) + 1 /\ more[Len(runs) + 1] = run
    OBVIOUS
  <1>2. \A j \in 1..Len(runs) : more[j] = runs[j]
    OBVIOUS
  <1>3. \A j \in 1..Len(runs) : runs[j] \in ForkRuns
    OBVIOUS
  <1>4. \A j \in 1..Len(runs) : Later(runs[j], more[j])
    BY <1>2, <1>3 DEF Later, ForkRuns
  <1> QED
    BY <1>1, <1>2, <1>4 DEF Grown

\* Who waited for its turn has ended, if a newer job takes its place.
LEMMA Cancels ==
    ASSUME ForkInv, NEW runs \in Seq(ForkRuns),
           c4.waiting.kind = "producer" =>
             c4.waiting.run \in 1..Len(runs) /\ runs[c4.waiting.run].state = "running"
    PROVE  /\ Grown(runs, Fork!Cancelled(runs)) /\ Len(Fork!Cancelled(runs)) = Len(runs)
           /\ \A j \in 1..Len(runs) :
                (c4.waiting.kind = "producer" /\ j = c4.waiting.run) \/ Fork!Cancelled(runs)[j] = runs[j]
  <1>1. CASE c4.waiting.kind = "producer"
    <2> DEFINE i == c4.waiting.run
               run == [runs[i] EXCEPT !.state = "failure"]
    <2>1. i \in 1..Len(runs) /\ runs[i] \in ForkRuns /\ runs[i].state = "running"
      BY <1>1
    <2>2. run \in ForkRuns /\ Later(runs[i], run)
      BY <2>1 DEF ForkRuns, Later
    <2>3. Fork!Cancelled(runs) = [runs EXCEPT ![i] = run]
      BY <1>1 DEF Fork!Cancelled
    <2> HIDE DEF i, run
    <2>4. /\ Grown(runs, [runs EXCEPT ![i] = run]) /\ Len([runs EXCEPT ![i] = run]) = Len(runs)
          /\ \A j \in 1..Len(runs) : j # i => [runs EXCEPT ![i] = run][j] = runs[j]
      BY <2>1, <2>2, OneRun
    <2> QED
      BY <1>1, <2>3, <2>4 DEF i
  <1>2. CASE c4.waiting.kind # "producer"
    BY <1>2, SameRuns DEF Fork!Cancelled
  <1> QED
    BY <1>1, <1>2

LEMMA Enqueues ==
    ASSUME NEW q, QueueOK(q), NEW work
    PROVE  /\ QueueOK(Fork!Enqueued(q, work))
           /\ Fork!Enqueued(q, work).job = q.job /\ Fork!Enqueued(q, work).waiting = work
           /\ Fork!Enqueued(q, work).ended
                = IF q.waiting.kind = "producer" THEN q.ended \cup {q.waiting.run} ELSE q.ended
  <1> DEFINE e == IF q.waiting.kind = "producer" THEN q.ended \cup {q.waiting.run} ELSE q.ended
             new == Fork!Enqueued(q, work)
  <1>1. new = [q EXCEPT !.waiting = work, !.ended = e]
    BY DEF Fork!Enqueued
  <1>2. e = IF q.waiting.kind = "producer" THEN q.ended \cup {q.waiting.run} ELSE q.ended
    OBVIOUS
  <1> HIDE DEF e, new
  <1>3. QueueOK(new) /\ new.job = q.job /\ new.waiting = work /\ new.ended = e
    <2>1. QueueOK(new)
      BY <1>1 DEF QueueOK
    <2> QED
      BY <1>1, <2>1 DEF QueueOK
  <1> QED
    BY <1>2, <1>3 DEF new

\* A run begins, or is tried again.
LEMMA ForkTests ==
    ASSUME ForkInv, NEW i \in 1..Len(c2) + 1, NEW run \in ForkRuns, run.state = "running", Fork!Tested(i, run),
           i \in 1..Len(c2) => c2[i].state # "running" /\ run.attempt = c2[i].attempt + 1,
           Fork!Test, c1' = c1, c3' = c3
    PROVE  ForkInv'
  <1> DEFINE runs == IF i > Len(c2) THEN Append(c2, run) ELSE [c2 EXCEPT ![i] = run]
  <1>0. QueueOK(c4) /\ c2 \in Seq(ForkRuns)
    BY ForkParts
  <1>1. Grown(c2, runs) /\ i \in 1..Len(runs) /\ runs[i] = run /\ \A j \in 1..Len(c2) : j # i => runs[j] = c2[j]
    <2>1. CASE i > Len(c2)
      <3>1. i = Len(c2) + 1
        BY <2>1, <1>0
      <3> QED
        BY <1>0, <2>1, <3>1, MoreRuns
    <2>2. CASE i \in 1..Len(c2)
      <3>1. c2[i] \in ForkRuns /\ run.attempt = c2[i].attempt + 1
        BY <1>0, <2>2
      <3>2. Later(c2[i], run)
        BY <3>1 DEF Later, ForkRuns
      <3> QED
        BY <1>0, <2>2, <3>2, OneRun
    <2> QED
      BY <1>0, <2>1, <2>2
  <1> HIDE DEF runs
  <1>2. runs \in Seq(ForkRuns) /\ Len(c2) <= Len(runs)
    BY <1>1 DEF Grown
  <1>3. /\ c4.job.kind = "producer" =>
             c4.job.run \in 1..Len(c2) /\ c4.job.run # i /\ runs[c4.job.run].state = "running"
        /\ c4.waiting.kind = "producer" =>
             /\ c4.waiting.run \in 1..Len(c2) /\ c4.waiting.run # i /\ runs[c4.waiting.run].state = "running"
             /\ c1.kind = "guard" /\ (c4.job.kind = "producer" => c4.job.run # c4.waiting.run)
    BY <1>1, ForkParts DEF JobOK, WaitingOK, Producing
  <1>4. c5' \in ForkSpent /\ c5'.faults = c5.faults
    BY ForkParts DEF Fork!Test, ForkSpent
  <1>5. CASE Fork!Guard
    <2>1. c2' = Fork!Cancelled(runs) /\ c4' = Fork!Enqueued(c4, [kind |-> "producer", run |-> i])
      BY <1>5 DEF Fork!Tested, runs
    <2>2. /\ Grown(runs, c2') /\ Len(c2') = Len(runs)
          /\ \A j \in 1..Len(runs) : (c4.waiting.kind = "producer" /\ j = c4.waiting.run) \/ c2'[j] = runs[j]
      BY <1>2, <1>3, <2>1, Cancels
    <2>3. Grown(c2, c2')
      BY <1>0, <1>1, <2>2, GrownOn
    <2>4. /\ QueueOK(c4') /\ c4'.job = c4.job
          /\ c4'.waiting = [kind |-> "producer", run |-> i]
          /\ c4'.ended = IF c4.waiting.kind = "producer" THEN c4.ended \cup {c4.waiting.run} ELSE c4.ended
      <3> DEFINE work == [kind |-> "producer", run |-> i]
      <3>1. QueueOK(c4) /\ c4' = Fork!Enqueued(c4, work)
        BY <1>0, <2>1
      <3> HIDE DEF work
      <3>2. /\ QueueOK(c4') /\ c4'.job = c4.job /\ c4'.waiting = work
            /\ c4'.ended = IF c4.waiting.kind = "producer" THEN c4.ended \cup {c4.waiting.run} ELSE c4.ended
        BY <3>1, Enqueues
      <3> QED
        BY <3>2 DEF work
    <2>5. c2'[i] = run /\ (c4.job.kind = "producer" => c2'[c4.job.run].state = "running")
      BY <1>1, <1>2, <1>3, <2>2
    <2>6. WaitingOK(c4'.waiting, c4.job, c1, c2')
      BY <1>1, <1>3, <1>5, <2>2, <2>4, <2>5 DEF WaitingOK, Producing, Fork!Guard
    <2>7. c4'.ended \subseteq 1..Len(c2')
      BY <1>2, <1>3, <2>2, <2>4, ForkParts
    <2>8. c4'.waiting # Fork!Idle
      BY <2>4 DEF Fork!Idle
    <2> QED
      BY <1>4, <2>3, <2>4, <2>5, <2>6, <2>7, <2>8, SamePulls, ForkParts, ForkGoesOn
  <1>6. CASE ~Fork!Guard
    <2>1. c2' = runs /\ c4' = [c4 EXCEPT !.ended = @ \cup {i}]
      BY <1>6 DEF Fork!Tested, runs
    <2>2. /\ QueueOK(c4') /\ c4'.job = c4.job
          /\ c4'.waiting = c4.waiting /\ c4'.ended = c4.ended \cup {i}
      <3> DEFINE e == c4.ended \cup {i}
      <3>1. c4' = [c4 EXCEPT !.ended = e]
        BY <2>1
      <3> HIDE DEF e
      <3>2. QueueOK(c4') /\ c4'.job = c4.job /\ c4'.waiting = c4.waiting /\ c4'.ended = e
        <4>1. QueueOK(c4')
          BY <1>0, <3>1 DEF QueueOK
        <4> QED
          BY <1>0, <3>1, <4>1 DEF QueueOK
      <3> QED
        BY <3>2 DEF e
    <2>3. WaitingOK(c4.waiting, c4.job, c1, c2')
      BY <1>1, <1>2, <1>3, <2>1, ForkParts DEF WaitingOK, Producing
    <2>4. c4'.ended \subseteq 1..Len(c2') /\ c4'.ended # {}
      BY <1>1, <1>2, <2>1, <2>2, ForkParts
    <2> QED
      BY <1>1, <1>3, <1>4, <2>1, <2>2, <2>3, <2>4, SamePulls, ForkParts, ForkGoesOn
  <1> QED
    BY <1>5, <1>6

LEMMA ForkRunsBegin ==
    ASSUME ForkInv, Fork!Open \/ \E i \in DOMAIN c2 : Fork!Rerun(i)
    PROVE  ForkInv'
  <1>1. CASE Fork!Open
    <2> DEFINE run == [attempt |-> 1, state |-> "running", eligible |-> Fork!Routed(c1.labels), policy |-> {}]
    <2>1. Fork!Tested(Len(c2) + 1, run) /\ Fork!Test /\ c1' = c1 /\ c3' = c3
      BY <1>1 DEF Fork!Open
    <2>2. Fork!Routed(c1.labels) \in BOOLEAN
      BY DEF Fork!Routed
    <2>3. run \in ForkRuns /\ run.state = "running" /\ Len(c2) + 1 \in 1..Len(c2) + 1 /\ Len(c2) + 1 \notin 1..Len(c2)
      BY <2>2, ForkParts DEF ForkRuns
    <2> HIDE DEF run
    <2> QED
      BY <2>1, <2>3, ForkTests
  <1>2. CASE \E i \in DOMAIN c2 : Fork!Rerun(i)
    <2>1. PICK i \in 1..Len(c2) : Fork!Rerun(i)
      BY <1>2, ForkParts
    <2> DEFINE run == [c2[i] EXCEPT !.attempt = @ + 1, !.state = "running"]
    <2>2. Fork!Tested(i, run) /\ Fork!Test /\ c1' = c1 /\ c3' = c3 /\ c2[i].state # "running"
      BY <2>1 DEF Fork!Rerun
    <2>3. c2[i] \in ForkRuns
      BY ForkParts
    <2> DEFINE next == c2[i].attempt + 1
    <2>4. next \in Nat /\ run = [c2[i] EXCEPT !.attempt = next, !.state = "running"]
      BY <2>3 DEF ForkRuns
    <2>5. run \in ForkRuns /\ run.state = "running" /\ run.attempt = next
      <3> HIDE DEF next, run
      <3> QED
        BY <2>3, <2>4 DEF ForkRuns
    <2>6. i \in 1..Len(c2) + 1
      BY ForkParts
    <2> HIDE DEF run
    <2> QED
      BY <2>2, <2>5, <2>6, ForkTests
  <1> QED
    BY <1>1, <1>2
\* The pull request changes, and runs end.
LEMMA ForkMoves ==
    ASSUME ForkInv,
           \/ Fork!Push \/ \E r \in {"approved", "commented"} : Fork!Review(r)
           \/ \E i \in DOMAIN c2 : Fork!FinishGate(i, "success") \/ Fork!FinishGate(i, "failure")
    PROVE  ForkInv'
  <1>0. /\ QueueOK(c4) /\ c2 \in Seq(ForkRuns) /\ c1 \in ForkPulls /\ c5 \in ForkSpent /\ WaitingOK(c4.waiting, c4.job, c1, c2)
        /\ c4.ended \subseteq 1..Len(c2)
    BY ForkParts
  <1>1. c4.job.kind = "producer" =>
          c4.job.run \in 1..Len(c2) /\ c1.kind = "guard" /\ c2[c4.job.run].state = "running"
    BY ForkParts DEF JobOK, Producing
  <1>2. CASE Fork!Push
    <2>1. c1' = [c1 EXCEPT !.moved = TRUE] /\ c2' = c2 /\ c3' = c3 /\ c4' = c4 /\ c5' = c5
      BY <1>2 DEF Fork!Push
    <2>2. c1' \in ForkPulls /\ SamePull(c1, c1') /\ c1'.moved /\ c1'.review = c1.review /\ c1'.blessed = c1.blessed
      BY <1>0, <2>1 DEF ForkPulls, SamePull
    <2>3. WaitingOK(c4'.waiting, c4.job, c1', c2')
      BY <1>0, <2>1, <2>2 DEF WaitingOK, Producing, SamePull
    <2>4. Grown(c2, c2') /\ (c1'.review = "approved" => c1'.blessed)
      BY <1>0, <2>1, <2>2, SameRuns, ForkParts
    <2> QED
      BY <1>0, <1>1, <2>1, <2>2, <2>3, <2>4, ForkGoesOn
  <1>3. CASE \E r \in {"approved", "commented"} : Fork!Review(r)
    <2>1. PICK r \in {"approved", "commented"} :
            /\ c1' = [c1 EXCEPT !.review = r, !.blessed = @ \/ r = "approved"]
            /\ c2' = c2 /\ c3' = c3 /\ c4' = c4 /\ Fork!Edit
      BY <1>3 DEF Fork!Review
    <2>2. c5' \in ForkSpent /\ c5'.faults = c5.faults
      BY <1>0, <2>1 DEF Fork!Edit, ForkSpent
    <2>3. /\ c1' \in ForkPulls /\ SamePull(c1, c1') /\ c1'.labels = c1.labels /\ c1'.moved = c1.moved
          /\ c1'.review = "approved" => c1'.blessed
      BY <1>0, <2>1 DEF ForkPulls, SamePull
    <2>4. WaitingOK(c4'.waiting, c4.job, c1', c2')
      BY <1>0, <2>1, <2>3 DEF WaitingOK, Producing, SamePull
    <2> QED
      BY <1>0, <1>1, <2>1, <2>2, <2>3, <2>4, SameRuns, ForkGoesOn
  <1>4. CASE \E i \in DOMAIN c2 : Fork!FinishGate(i, "success") \/ Fork!FinishGate(i, "failure")
    <2>1. PICK i \in 1..Len(c2), state \in {"success", "failure"} : Fork!FinishGate(i, state)
      BY <1>0, <1>4
    <2> DEFINE run == [c2[i] EXCEPT !.state = state]
               e == c4.ended \cup {i}
    <2>2. /\ c2' = [c2 EXCEPT ![i] = run] /\ c4' = [c4 EXCEPT !.ended = e]
          /\ c1.kind # "guard" /\ c2[i].state = "running" /\ c1' = c1 /\ c3' = c3 /\ c5' = c5
      BY <2>1 DEF Fork!FinishGate, Fork!Guard
    <2>3. run \in ForkRuns /\ Later(c2[i], run)
      <3>1. c2[i] \in ForkRuns /\ c2[i].state = "running"
        BY <1>0, <2>2
      <3>2. run.state = state /\ run.attempt = c2[i].attempt /\ run \in ForkRuns
        BY <3>1 DEF ForkRuns
      <3> QED
        BY <3>1, <3>2 DEF Later
    <2>4. e # {} /\ e \subseteq 1..Len(c2)
      BY <1>0
    <2> HIDE DEF run, e
    <2>5. Grown(c2, c2') /\ Len(c2') = Len(c2)
      <3>1. Grown(c2, [c2 EXCEPT ![i] = run]) /\ Len([c2 EXCEPT ![i] = run]) = Len(c2)
        BY <1>0, <2>3, OneRun
      <3> QED
        BY <2>2, <3>1
    <2>6. QueueOK(c4') /\ c4'.job = c4.job /\ c4'.waiting = c4.waiting /\ c4'.ended = e
      <3>1. QueueOK(c4')
        BY <1>0, <2>2 DEF QueueOK
      <3> QED
        BY <1>0, <2>2, <3>1 DEF QueueOK
    <2>7. WaitingOK(c4'.waiting, c4.job, c1, c2')
      BY <1>0, <2>2, <2>5, <2>6 DEF WaitingOK, Producing
    <2> QED
      BY <1>0, <1>1, <2>2, <2>4, <2>5, <2>6, <2>7, SamePulls, ForkParts, ForkGoesOn
  <1> QED
    BY <1>2, <1>3, <1>4

\* Labels change, and a publisher learns of the end of a run: a job waits.
LEMMA ForkEnqueues ==
    ASSUME ForkInv, NEW work, work.kind \in {"direct", "publisher"},
           work.kind = "direct" => work = [kind |-> "direct", payload |-> work.payload, eligible |-> work.eligible],
           work.kind = "publisher" => work = [kind |-> "publisher", run |-> work.run] /\ work.run \in 1..Len(c2),
           c2' = Fork!Cancelled(c2), NEW q, QueueOK(q), q.job = c4.job, q.waiting = c4.waiting,
           q.ended \subseteq 1..Len(c2), c4' = Fork!Enqueued(q, work),
           c1' \in ForkPulls, SamePull(c1, c1'), c1'.review = "approved" => c1'.blessed, c3' = c3,
           c5' \in ForkSpent, c5'.faults = c5.faults
    PROVE  ForkInv'
  <1>0. c2 \in Seq(ForkRuns) /\ WaitingOK(c4.waiting, c4.job, c1, c2) /\ JobOK(c4.job, c1, c2, c3)
    BY ForkParts
  <1>1. /\ c4.waiting.kind = "producer" =>
             /\ c4.waiting.run \in 1..Len(c2) /\ c2[c4.waiting.run].state = "running"
             /\ c4.job.kind = "producer" => c4.job.run # c4.waiting.run
        /\ c4.job.kind = "producer" => c4.job.run \in 1..Len(c2) /\ c2[c4.job.run].state = "running"
    BY <1>0 DEF WaitingOK, JobOK, Producing
  <1>2. /\ Grown(c2, c2') /\ Len(c2') = Len(c2)
        /\ \A j \in 1..Len(c2) : (c4.waiting.kind = "producer" /\ j = c4.waiting.run) \/ c2'[j] = c2[j]
    BY <1>0, <1>1, Cancels
  <1>3. /\ QueueOK(c4') /\ c4'.job = c4.job /\ c4'.waiting = work
        /\ c4'.ended = IF c4.waiting.kind = "producer" THEN q.ended \cup {c4.waiting.run} ELSE q.ended
    <2>1. /\ QueueOK(Fork!Enqueued(q, work))
          /\ Fork!Enqueued(q, work).job = q.job /\ Fork!Enqueued(q, work).waiting = work
          /\ Fork!Enqueued(q, work).ended
               = IF q.waiting.kind = "producer" THEN q.ended \cup {q.waiting.run} ELSE q.ended
      BY Enqueues
    <2> QED
      BY <2>1
  <1>4. c4'.ended \subseteq 1..Len(c2')
    BY <1>1, <1>2, <1>3
  <1>5. WaitingOK(c4'.waiting, c4.job, c1', c2')
    BY <1>2, <1>3 DEF WaitingOK
  <1>6. c4'.waiting # Fork!Idle
    BY <1>3 DEF Fork!Idle
  <1>7. c4.job.kind = "producer" => c2'[c4.job.run].state = "running"
    BY <1>1, <1>2
  <1> QED
    BY <1>2, <1>3, <1>4, <1>5, <1>6, <1>7, ForkGoesOn

LEMMA ForkNotices ==
    ASSUME ForkInv, (\E l \in Fork!Labels : Fork!EditLabel(l)) \/ (\E i \in DOMAIN c2 : Fork!Notice(i))
    PROVE  ForkInv'
  <1>0. /\ QueueOK(c4) /\ c2 \in Seq(ForkRuns) /\ c1 \in ForkPulls /\ c5 \in ForkSpent
        /\ c4.ended \subseteq 1..Len(c2) /\ (c1.review = "approved" => c1.blessed)
    BY ForkParts
  <1>1. CASE \E l \in Fork!Labels : Fork!EditLabel(l)
    <2>1. PICK l \in Fork!Labels : Fork!EditLabel(l)
      BY <1>1
    <2> DEFINE labels == IF l \in c1.labels THEN c1.labels \ {l} ELSE c1.labels \cup {l}
               work == [kind |-> "direct", payload |-> labels, eligible |-> Fork!Routed(labels \cup {l})]
    <2>2. /\ c1' = [c1 EXCEPT !.labels = labels] /\ c4' = Fork!Enqueued(c4, work)
          /\ c2' = Fork!Cancelled(c2) /\ c3' = c3 /\ Fork!Edit
      BY <2>1 DEF Fork!EditLabel
    <2>3. c5' \in ForkSpent /\ c5'.faults = c5.faults
      BY <1>0, <2>2 DEF Fork!Edit, ForkSpent
    <2>4. labels \in SUBSET Fork!Labels
      BY <1>0 DEF ForkPulls
    <2>5. work.kind = "direct" /\ work = [kind |-> "direct", payload |-> work.payload, eligible |-> work.eligible]
      OBVIOUS
    <2> HIDE DEF labels, work
    <2>6. c1' \in ForkPulls /\ SamePull(c1, c1') /\ (c1'.review = "approved" => c1'.blessed)
      BY <1>0, <2>2, <2>4 DEF ForkPulls, SamePull
    <2> QED
      BY <1>0, <2>2, <2>3, <2>5, <2>6, ForkEnqueues
  <1>2. CASE \E i \in DOMAIN c2 : Fork!Notice(i)
    <2>1. PICK i \in 1..Len(c2) : Fork!Notice(i)
      BY <1>0, <1>2
    <2> DEFINE work == [kind |-> "publisher", run |-> i]
               e == c4.ended \ {i}
               q == [c4 EXCEPT !.ended = e]
    <2>2. c4' = Fork!Enqueued(q, work) /\ c2' = Fork!Cancelled(c2) /\ c1' = c1 /\ c3' = c3 /\ c5' = c5
      BY <2>1 DEF Fork!Notice
    <2>3. work.kind = "publisher" /\ work = [kind |-> "publisher", run |-> work.run] /\ work.run \in 1..Len(c2) /\ e \subseteq 1..Len(c2)
      BY <1>0
    <2>4. q = [c4 EXCEPT !.ended = e]
      OBVIOUS
    <2> HIDE DEF work, e, q
    <2>5. QueueOK(q) /\ q.job = c4.job /\ q.waiting = c4.waiting /\ q.ended = e
      <3>1. QueueOK(q)
        BY <1>0, <2>4 DEF QueueOK
      <3> QED
        BY <1>0, <2>4, <3>1 DEF QueueOK
    <2> QED
      BY <1>0, <2>2, <2>3, <2>5, SamePulls, ForkEnqueues
  <1> QED
    BY <1>1, <1>2
\* The job at work takes its next step, or ends.
LEMMA ForkJobMoves ==
    ASSUME ForkInv, NEW job, c4' = [c4 EXCEPT !.job = job], c1' = c1, c2' = c2, c3' = c3, c5' \in ForkSpent,
           JobOK(job, c1, c2, c3), job.kind # "producer",
           c5'.faults = 0 /\ c1.kind = "guard" /\ ~c1.moved =>
             \/ c4.waiting # Fork!Idle \/ c4.ended # {}
             \/ /\ job.kind \in {"none", "inspect", "recheck"} => Fits(c3, c1)
                /\ job.kind \in {"write", "post"} => Fits(job, c1)
    PROVE  ForkInv'
  <1>0. /\ QueueOK(c4) /\ WaitingOK(c4.waiting, c4.job, c1, c2) /\ c4.ended \subseteq 1..Len(c2)
        /\ c1 \in ForkPulls /\ c2 \in Seq(ForkRuns) /\ c3 \in ForkVerdicts /\ (c1.review = "approved" => c1.blessed)
    BY ForkParts
  <1>1. QueueOK(c4') /\ c4'.job = job /\ c4'.waiting = c4.waiting /\ c4'.ended = c4.ended
    <2>1. QueueOK(c4')
      BY <1>0 DEF QueueOK
    <2> QED
      BY <1>0, <2>1 DEF QueueOK
  <1>2. ForkType'
    BY <1>0, <1>1 DEF ForkType
  <1>3. WaitingOK(c4'.waiting, c4'.job, c1', c2')
    BY <1>0, <1>1 DEF WaitingOK
  <1>4. Noticed(c4', c1', c3', c5')
    BY <1>1 DEF Noticed
  <1>5. Sound(c3', c1', c2') /\ JobOK(c4'.job, c1', c2', c3')
    BY <1>1 DEF ForkInv
  <1> QED
    BY <1>0, <1>2, <1>3, <1>4, <1>5 DEF ForkInv

LEMMA IdleJob == JobOK(Fork!Idle, c1, c2, c3) /\ Fork!Idle.kind = "none"
  BY DEF JobOK, JobKinds, Fork!Idle

\* A job that ends without a word leaves a status that fits.
LEMMA ForkEnds ==
    ASSUME ForkInv, Fork!Ends, c1' = c1, c2' = c2, c3' = c3, c5' \in ForkSpent,
           c5'.faults = 0 /\ c1.kind = "guard" /\ ~c1.moved =>
             c4.waiting # Fork!Idle \/ c4.ended # {} \/ Fits(c3, c1)
    PROVE  ForkInv'
  <1>1. c4' = [c4 EXCEPT !.job = Fork!Idle]
    BY DEF Fork!Ends, Fork!Does
  <1>2. Fork!Idle.kind \notin {"write", "post", "producer"}
    BY IdleJob
  <1> QED
    BY <1>1, <1>2, IdleJob, ForkJobMoves

\* While the job at work does not compare labels, the status fits already.
LEMMA ForkFits ==
    ASSUME ForkInv
    PROVE  c5.faults = 0 /\ c1.kind = "guard" /\ ~c1.moved =>
             \/ c4.waiting # Fork!Idle \/ c4.ended # {}
             \/ /\ c4.job.kind \in {"none", "inspect", "recheck"} => Fits(c3, c1)
                /\ c4.job.kind \in {"write", "post"} => Fits(c4.job, c1)
  BY DEF ForkInv, Noticed

LEMMA FaultCounts ==
    ASSUME ForkInv, Fork!Fault
    PROVE  c5' \in ForkSpent /\ c5'.faults # 0
  <1>1. c5 \in ForkSpent
    BY ForkParts
  <1> DEFINE more == c5.faults + 1
  <1>2. more \in Nat /\ more # 0 /\ c5' = [c5 EXCEPT !.faults = more]
    BY <1>1 DEF Fork!Fault, ForkSpent
  <1> HIDE DEF more
  <1> QED
    BY <1>1, <1>2 DEF ForkSpent

\* What the guard does not block is allowed.
LEMMA NotBlocked ==
    ASSUME ForkInv, NEW labels, ~Fork!Blocked(labels)
    PROVE  Allowed(labels, c1)
  <1>1. c1.file \in {"none", "refs", "logic", "removed"} /\ (c1.review = "approved" => c1.blessed)
    BY ForkParts DEF ForkPulls
  <1> QED
    BY <1>1 DEF Fork!Blocked, Fork!Fatal, Fork!Approved, Fork!Owned, Fork!Bypass, Fork!ActionRefsOnly, Allowed

\* The guard on a label event.
LEMMA ForkDirect ==
    ASSUME ForkInv, Fork!DirectEvaluate \/ Fork!DirectDecide
    PROVE  ForkInv'
  <1> DEFINE work == c4.job
  <1>0. /\ c1.labels \subseteq Fork!Labels /\ c5 \in ForkSpent /\ JobOK(work, c1, c2, c3)
    BY ForkParts DEF ForkPulls
  <1>1. CASE Fork!DirectEvaluate
    <2>1. PICK passed \in BOOLEAN :
            /\ c4' = [c4 EXCEPT !.job = [kind |-> "decide", payload |-> work.payload, eligible |-> work.eligible,
                                         labels |-> c1.labels, passed |-> passed]]
            /\ IF work.eligible /\ ~passed /\ ~Fork!Blocked(c1.labels) THEN Fork!Fault
               ELSE passed = (work.eligible => ~Fork!Blocked(c1.labels)) /\ UNCHANGED c5
      BY <1>1, Zenon DEF Fork!DirectEvaluate, Fork!Work, Fork!Does
    <2>2. c1' = c1 /\ c2' = c2 /\ c3' = c3
      BY <1>1 DEF Fork!DirectEvaluate
    <2> DEFINE job == [kind |-> "decide", payload |-> work.payload, eligible |-> work.eligible,
                       labels |-> c1.labels, passed |-> passed]
    <2>3. work.eligible /\ passed => ~Fork!Blocked(c1.labels)
      BY <2>1, Zenon
    <2>4. c5' \in ForkSpent
      BY <1>0, <2>1, FaultCounts
    <2>5. job.kind = "decide" /\ (job.eligible /\ job.passed => Allowed(job.labels, c1))
      BY <2>3, NotBlocked
    <2>6. c4' = [c4 EXCEPT !.job = job]
      BY <2>1
    <2> HIDE DEF job
    <2>7. JobOK(job, c1, c2, c3)
      BY <2>5 DEF JobOK, JobKinds
    <2> QED
      BY <2>2, <2>4, <2>5, <2>6, <2>7, ForkJobMoves
  <1>2. CASE Fork!DirectDecide
    <2> DEFINE post(state) == [kind |-> "post", state |-> state, receipt |-> c1.labels]
               changed == c1.labels # work.payload \/ (work.eligible /\ work.labels # c1.labels)
               kept == c3.state # "success" \/ c3.receipt = c1.labels
    <2>1. /\ work.kind = "decide" /\ c1' = c1 /\ c2' = c2 /\ c3' = c3 /\ c5' = c5
          /\ IF changed \/ ~work.passed THEN c4' = [c4 EXCEPT !.job = post("failure")]
             ELSE IF work.eligible THEN c4' = [c4 EXCEPT !.job = post("success")]
             ELSE IF kept THEN Fork!Ends ELSE c4' = [c4 EXCEPT !.job = post("failure")]
      BY <1>2 DEF Fork!DirectDecide, Fork!Work, Fork!Does
    <2>2. ASSUME NEW state \in {"success", "failure"}, state = "success" => Allowed(c1.labels, c1),
                 c4' = [c4 EXCEPT !.job = post(state)]
          PROVE  ForkInv'
      <3> DEFINE job == post(state)
      <3>1. job.kind = "post" /\ job.state = state /\ job.receipt = c1.labels
        OBVIOUS
      <3>2. c4' = [c4 EXCEPT !.job = job]
        BY <2>2
      <3> HIDE DEF job
      <3>3. JobOK(job, c1, c2, c3)
        BY <1>0, <2>2, <3>1 DEF JobOK, JobKinds
      <3>4. Fits(job, c1)
        BY <3>1 DEF Fits
      <3> QED
        BY <1>0, <2>1, <3>1, <3>2, <3>3, <3>4, ForkJobMoves
    <2>3. CASE changed \/ ~work.passed \/ (~work.eligible /\ ~kept)
      <3>1. c4' = [c4 EXCEPT !.job = post("failure")]
        BY <2>1, <2>3
      <3> QED
        BY <2>2, <3>1
    <2>4. CASE ~changed /\ work.passed /\ work.eligible
      <3>1. c4' = [c4 EXCEPT !.job = post("success")]
        BY <2>1, <2>4
      <3>2. Allowed(c1.labels, c1)
        BY <1>0, <2>1, <2>4 DEF JobOK
      <3> QED
        BY <2>2, <3>1, <3>2
    <2>5. CASE ~changed /\ work.passed /\ ~work.eligible /\ kept
      <3>1. Fork!Ends /\ Fits(c3, c1)
        BY <2>1, <2>5 DEF Fits
      <3> QED
        BY <1>0, <2>1, <3>1, ForkEnds
    <2> QED
      BY <2>3, <2>4, <2>5
  <1> QED
    BY <1>1, <1>2
\* The next job begins.
LEMMA ForkBegins ==
    ASSUME ForkInv, Fork!Begin
    PROVE  ForkInv'
  <1> DEFINE w == c4.waiting
             job == IF w.kind = "direct" THEN [w EXCEPT !.kind = "evaluate"]
                    ELSE IF w.kind = "publisher" THEN [w EXCEPT !.kind = "fetch"] ELSE w
  <1>0. /\ QueueOK(c4) /\ WaitingOK(w, c4.job, c1, c2) /\ c4.ended \subseteq 1..Len(c2)
        /\ c1 \in ForkPulls /\ c2 \in Seq(ForkRuns) /\ c3 \in ForkVerdicts /\ c5 \in ForkSpent
        /\ (c1.review = "approved" => c1.blessed)
    BY ForkParts
  <1>1. c4' = [c4 EXCEPT !.waiting = Fork!Idle, !.job = job] /\ w # Fork!Idle /\ c1' = c1 /\ c2' = c2 /\ c3' = c3 /\ c5' = c5
    BY DEF Fork!Begin
  <1>2. JobOK(job, c1, c2, c3) /\ job.kind \in {"evaluate", "fetch", "producer"}
    <2>1. CASE w.kind = "direct"
      <3>1. job = [w EXCEPT !.kind = "evaluate"] /\ w = [kind |-> "direct", payload |-> w.payload, eligible |-> w.eligible]
        BY <1>0, <2>1 DEF WaitingOK
      <3> HIDE DEF job, w
      <3>2. job.kind = "evaluate"
        BY <3>1
      <3> QED
        BY <3>2 DEF JobOK, JobKinds
    <2>2. CASE w.kind = "publisher"
      <3>1. job = [w EXCEPT !.kind = "fetch"] /\ w = [kind |-> "publisher", run |-> w.run] /\ w.run \in 1..Len(c2)
        BY <1>0, <2>2 DEF WaitingOK
      <3> HIDE DEF job, w
      <3>2. job.kind = "fetch" /\ job.run = w.run
        BY <3>1
      <3> QED
        BY <3>1, <3>2 DEF JobOK, JobKinds
    <2>3. CASE w.kind = "producer"
      <3>1. job = w /\ Producing(w, c1, c2)
        BY <1>0, <2>3 DEF WaitingOK
      <3> HIDE DEF job, w
      <3> QED
        BY <2>3, <3>1 DEF JobOK, JobKinds
    <2> QED
      BY <1>0, <1>1, <2>1, <2>2, <2>3 DEF WaitingOK
  <1> HIDE DEF job
  <1>3. QueueOK(c4') /\ c4'.job = job /\ c4'.waiting = Fork!Idle /\ c4'.ended = c4.ended
    <2> DEFINE idle == Fork!Idle
    <2>0. c4' = [c4 EXCEPT !.waiting = idle, !.job = job]
      BY <1>1
    <2> HIDE DEF idle
    <2>1. QueueOK(c4')
      BY <1>0, <2>0 DEF QueueOK
    <2>2. c4'.job = job /\ c4'.waiting = idle /\ c4'.ended = c4.ended
      BY <1>0, <2>0, <2>1 DEF QueueOK
    <2> QED
      BY <2>1, <2>2 DEF idle
  <1>4. WaitingOK(c4'.waiting, c4'.job, c1', c2')
    BY <1>3 DEF WaitingOK, Fork!Idle
  <1>5. Noticed(c4', c1', c3', c5')
    BY <1>2, <1>3 DEF Noticed
  <1>6. ForkType'
    BY <1>0, <1>1, <1>3 DEF ForkType
  <1> QED
    BY <1>0, <1>1, <1>2, <1>3, <1>4, <1>5, <1>6 DEF ForkInv

\* The run of the job at work ends.
LEMMA ForkRunEnds ==
    ASSUME ForkInv, c4.job.kind = "producer", NEW run \in ForkRuns, Later(c2[c4.job.run], run),
           c2' = [c2 EXCEPT ![c4.job.run] = run],
           c4' = [c4 EXCEPT !.job = Fork!Idle, !.ended = @ \cup {c4.job.run}],
           c1' = c1, c3' = c3, c5' \in ForkSpent
    PROVE  ForkInv'
  <1> DEFINE i == c4.job.run
             e == c4.ended \cup {i}
             idle == Fork!Idle
  <1>0. /\ QueueOK(c4) /\ WaitingOK(c4.waiting, c4.job, c1, c2) /\ c4.ended \subseteq 1..Len(c2)
        /\ c1 \in ForkPulls /\ c2 \in Seq(ForkRuns) /\ c3 \in ForkVerdicts
        /\ (c1.review = "approved" => c1.blessed) /\ i \in 1..Len(c2)
    BY ForkParts DEF JobOK, Producing
  <1>1. e \subseteq 1..Len(c2) /\ e # {} /\ c4' = [c4 EXCEPT !.job = idle, !.ended = e]
    BY <1>0
  <1> HIDE DEF e, idle
  <1>2. QueueOK(c4') /\ c4'.job = idle /\ c4'.waiting = c4.waiting /\ c4'.ended = e
    <2>1. QueueOK(c4')
      BY <1>0, <1>1 DEF QueueOK
    <2> QED
      BY <1>0, <1>1, <2>1 DEF QueueOK
  <1> HIDE DEF i
  <1>3. /\ Grown(c2, c2') /\ Len(c2') = Len(c2)
        /\ \A j \in 1..Len(c2) : j # i => c2'[j] = c2[j]
    <2>1. /\ Grown(c2, [c2 EXCEPT ![i] = run]) /\ Len([c2 EXCEPT ![i] = run]) = Len(c2)
          /\ \A j \in 1..Len(c2) : j # i => [c2 EXCEPT ![i] = run][j] = c2[j]
      <3>1. Later(c2[i], run) /\ i \in 1..Len(c2) /\ run \in ForkRuns /\ c2 \in Seq(ForkRuns)
        BY <1>0 DEF i
      <3>2. Grown(c2, [c2 EXCEPT ![i] = run])
        BY <3>1, OneRun
      <3>3. Len([c2 EXCEPT ![i] = run]) = Len(c2)
        BY <3>1
      <3>4. ASSUME NEW j \in 1..Len(c2), j # i PROVE [c2 EXCEPT ![i] = run][j] = c2[j]
        BY <3>1, <3>4
      <3> QED
        BY <3>2, <3>3, <3>4
    <2>2. c2' = [c2 EXCEPT ![i] = run]
      BY DEF i
    <2> QED
      BY <2>1, <2>2
  <1>4. Sound(c3, c1, c2')
    BY <1>0, <1>3, VerdictStays, SamePulls DEF ForkInv, ForkVerdicts
  <1>5. WaitingOK(c4'.waiting, c4'.job, c1', c2')
    BY <1>0, <1>2, <1>3, IdleJob DEF WaitingOK, Producing, i, idle
  <1>6. JobOK(c4'.job, c1', c2', c3')
    BY <1>2, IdleJob DEF JobOK, JobKinds, idle
  <1>7. Noticed(c4', c1', c3', c5')
    BY <1>1, <1>2 DEF Noticed
  <1>8. ForkType'
    BY <1>0, <1>1, <1>2, <1>3 DEF ForkType, Grown
  <1> QED
    BY <1>0, <1>4, <1>5, <1>6, <1>7, <1>8 DEF ForkInv

LEMMA ForkProduces ==
    ASSUME ForkInv, Fork!Produce \/ Fork!Die
    PROVE  ForkInv'
  <1>0. /\ c1 \in ForkPulls /\ c5 \in ForkSpent /\ c2 \in Seq(ForkRuns)
        /\ c4.job.kind = "producer" => c4.job.run \in 1..Len(c2) /\ c2[c4.job.run].state = "running"
    BY ForkParts DEF JobOK, Producing
  <1>1. CASE Fork!Produce
    <2> DEFINE i == c4.job.run
               state == IF c2[i].eligible /\ Fork!Blocked(c1.labels) THEN "failure" ELSE "success"
               run == [c2[i] EXCEPT !.state = state, !.policy = c1.labels]
    <2>1. /\ c4.job.kind = "producer" /\ c1' = c1 /\ c3' = c3 /\ c5' = c5
          /\ c2' = [c2 EXCEPT ![i].state = state, ![i].policy = c1.labels]
          /\ c4' = [c4 EXCEPT !.job = Fork!Idle, !.ended = @ \cup {i}]
      BY <1>1 DEF Fork!Produce, Fork!Work
    <2>2. i \in 1..Len(c2) /\ c2[i] \in ForkRuns /\ c2[i].state = "running"
      BY <1>0, <2>1
    <2>3. state \in {"success", "failure"} /\ c1.labels \in SUBSET Fork!Labels
      BY <1>0 DEF ForkPulls
    <2> HIDE DEF state
    <2>4. c2' = [c2 EXCEPT ![i] = run]
      BY <1>0, <2>1, <2>2
    <2>5. run \in ForkRuns /\ run.attempt = c2[i].attempt
      BY <2>2, <2>3 DEF ForkRuns
    <2>6. Later(c2[i], run)
      BY <2>2, <2>5 DEF Later
    <2> HIDE DEF run
    <2> QED
      BY <1>0, <2>1, <2>4, <2>5, <2>6, ForkRunEnds
  <1>2. CASE Fork!Die /\ c4.job.kind = "producer"
    <2> DEFINE i == c4.job.run
               run == [c2[i] EXCEPT !.state = "failure"]
    <2>1. /\ c1' = c1 /\ c3' = c3 /\ Fork!Fault
          /\ c2' = [c2 EXCEPT ![i].state = "failure"]
          /\ c4' = [c4 EXCEPT !.job = Fork!Idle, !.ended = @ \cup {i}]
      BY <1>2 DEF Fork!Die, Fork!Work
    <2>2. i \in 1..Len(c2) /\ c2[i] \in ForkRuns /\ c2[i].state = "running"
      BY <1>0, <1>2
    <2>3. c2' = [c2 EXCEPT ![i] = run]
      BY <1>0, <2>1, <2>2
    <2>4. run \in ForkRuns /\ run.attempt = c2[i].attempt
      BY <2>2 DEF ForkRuns
    <2>5. Later(c2[i], run)
      BY <2>2, <2>4 DEF Later
    <2>6. c5' \in ForkSpent
      BY <2>1, FaultCounts
    <2> HIDE DEF run
    <2> QED
      BY <1>2, <2>1, <2>3, <2>4, <2>5, <2>6, ForkRunEnds
  <1>3. CASE Fork!Die /\ c4.job.kind # "producer"
    <2>1. c1' = c1 /\ c2' = c2 /\ c3' = c3 /\ Fork!Ends /\ Fork!Fault
      BY <1>3 DEF Fork!Die, Fork!Work
    <2> QED
      BY <2>1, FaultCounts, ForkEnds
  <1> QED
    BY <1>1, <1>2, <1>3

\* What a publisher is about to write is of the attempt there is.
LEMMA ForkWrites ==
    ASSUME ForkInv, NEW job, NEW result \in {"pending", "success", "failure"},
           job.run \in 1..Len(c2), job.seen = c3, Fork!Writes(job, result),
           (c3.state = "success" /\ result = "failure") \/ job.run = Len(c2),
           result = "success" =>
             /\ c1.file = "none" /\ c2[job.run].state = "success"
             /\ c1.kind = "guard" => IF c2[job.run].eligible THEN c2[job.run].policy = c1.labels
                                     ELSE ~Fork!Routed(c1.labels),
           c1' = c1, c2' = c2, c3' = c3, c5' \in ForkSpent
    PROVE  ForkInv'
  <1> DEFINE receipt == IF result = "success" /\ Fork!Guard THEN c1.labels ELSE {}
             new == [kind |-> "write", run |-> job.run, attempt |-> c2[job.run].attempt, seen |-> job.seen,
                     state |-> result, receipt |-> receipt]
  <1>0. c2 \in Seq(ForkRuns) /\ c3 \in ForkVerdicts /\ c1 \in ForkPulls /\ Sound(c3, c1, c2)
    BY ForkParts DEF ForkInv
  <1>1. c4' = [c4 EXCEPT !.job = new]
    BY DEF Fork!Writes, Fork!Does
  <1>2. /\ new.kind = "write" /\ new.run = job.run /\ new.attempt = c2[job.run].attempt /\ new.seen = c3
        /\ new.state = result /\ new.receipt = receipt
    OBVIOUS
  <1>3. c2[job.run].attempt \in Nat /\ receipt \subseteq Fork!Labels
    <2>1. c2[job.run] \in ForkRuns /\ c1.labels \subseteq Fork!Labels
      BY <1>0 DEF ForkPulls
    <2>2. c2[job.run].attempt \in Nat
      BY <2>1 DEF ForkRuns
    <2>3. receipt \subseteq Fork!Labels
      BY <2>1
    <2> QED
      BY <2>2, <2>3
  <1>4. result = "success" /\ c1.kind = "guard" => receipt = c1.labels
    BY DEF Fork!Guard
  <1> HIDE DEF new, receipt
  <1>5. ~Fork!Newer(c3, new) \/ (c3.state = "success" /\ new.state = "failure")
    <2> SUFFICES ASSUME job.run = Len(c2) PROVE ~Fork!Newer(c3, new)
      BY <1>2
    <2>1. c3.run \in Nat /\ c3.attempt \in Nat /\ job.run \in Nat /\ Len(c2) \in Nat
      BY <1>0 DEF ForkVerdicts
    <2>2. c3.run # 0 => c3.run \in 1..Len(c2) /\ c3.attempt <= c2[c3.run].attempt
      BY <1>0 DEF Sound, Earned
    <2>3. ~(c3.run > job.run) /\ ~(c3.run = job.run /\ c3.attempt > c2[job.run].attempt)
      BY <1>3, <2>1, <2>2
    <2> QED
      BY <1>2, <2>3 DEF Fork!Newer
  <1>6. Sound(new, c1, c2)
    <2>1. Earned(new, c1, c2)
      BY <1>2, <1>3, <1>4 DEF Earned
    <2> QED
      BY <1>2, <2>1 DEF Sound, Allowed
  <1>7. JobOK(new, c1, c2, c3)
    <2>1. Written(new, c1, c2, c3)
      BY <1>2, <1>3, <1>5, <1>6 DEF Written, ForkStates
    <2> QED
      BY <1>2, <2>1 DEF JobOK, JobKinds
  <1>8. c1.kind = "guard" => Fits(new, c1)
    BY <1>2, <1>4 DEF Fits
  <1> QED
    BY <1>1, <1>2, <1>7, <1>8, ForkJobMoves

LEMMA NotSuperseded ==
    ASSUME ForkInv, NEW i \in 1..Len(c2), NEW run, ~Fork!Superseded(i, run)
    PROVE  i = Len(c2)
  <1>1. ~(i < Len(c2)) /\ Len(c2) \in Nat
    BY ForkParts DEF Fork!Superseded
  <1> QED
    BY <1>1

\* The publishers.
LEMMA ForkFetches ==
    ASSUME ForkInv, Fork!Fetch
    PROVE  ForkInv'
  <1> DEFINE i == c4.job.run
             kind == IF Fork!Guard THEN "reconcile" ELSE "inspect"
             job == [kind |-> kind, run |-> i, snap |-> c2[i], seen |-> c3]
  <1>0. /\ c5 \in ForkSpent /\ c2 \in Seq(ForkRuns) /\ c4.job.kind = "fetch" /\ i \in 1..Len(c2)
        /\ c1' = c1 /\ c2' = c2 /\ c3' = c3 /\ c5' = c5
    BY ForkParts DEF JobOK, Fork!Fetch, Fork!Work
  <1>1. \/ Fork!Ends /\ (~Fork!Bound \/ ~Fork!Guard)
        \/ c4' = [c4 EXCEPT !.job = job]
    BY DEF Fork!Fetch, Fork!Work, Fork!Does
  <1>2. CASE Fork!Ends /\ (~Fork!Bound \/ ~Fork!Guard)
    <2>1. ~(c1.kind = "guard" /\ ~c1.moved)
      BY <1>2 DEF Fork!Bound, Fork!Guard
    <2> QED
      BY <1>0, <1>2, <2>1, ForkEnds
  <1>3. CASE c4' = [c4 EXCEPT !.job = job]
    <2>1. c2[i] \in ForkRuns
      BY <1>0
    <2>2. kind \in {"reconcile", "inspect"} /\ (kind = "reconcile" <=> c1.kind = "guard")
      BY DEF Fork!Guard
    <2>3. job.kind = kind /\ job.run = i /\ job.snap = c2[i] /\ job.seen = c3
      OBVIOUS
    <2> HIDE DEF kind
    <2>4. job = [kind |-> job.kind, run |-> job.run, snap |-> job.snap, seen |-> job.seen]
      OBVIOUS
    <2> HIDE DEF job
    <2>5. JobOK(job, c1, c2, c3)
      <3>1. LooksAt(job, c1, c2, c3)
        BY <1>0, <2>1, <2>3 DEF LooksAt, Later
      <3> QED
        BY <2>2, <2>3, <2>4, <3>1 DEF JobOK, JobKinds
    <2> QED
      BY <1>0, <1>3, <2>2, <2>3, <2>5, ForkJobMoves
  <1> QED
    BY <1>1, <1>2, <1>3

\* From the registry to the jobs.
LEMMA ForkToInspect ==
    ASSUME ForkInv, c4.job.kind = "reconcile", Fork!Does([c4.job EXCEPT !.kind = "inspect"]),
           c1' = c1, c2' = c2, c3' = c3, c5' \in ForkSpent,
           c5'.faults = 0 => Fits(c3, c1)
    PROVE  ForkInv'
  <1> DEFINE work == c4.job
             job == [work EXCEPT !.kind = "inspect"]
  <1>1. /\ work = [kind |-> work.kind, run |-> work.run, snap |-> work.snap, seen |-> work.seen]
        /\ LooksAt(work, c1, c2, c3)
    BY ForkParts DEF JobOK
  <1>2. c4' = [c4 EXCEPT !.job = job]
    BY DEF Fork!Does
  <1> HIDE DEF work
  <1>3. /\ job.kind = "inspect" /\ job.run = work.run /\ job.snap = work.snap /\ job.seen = work.seen
        /\ job = [kind |-> job.kind, run |-> job.run, snap |-> job.snap, seen |-> job.seen]
    BY <1>1
  <1> HIDE DEF job
  <1>4. JobOK(job, c1, c2, c3)
    BY <1>1, <1>3 DEF JobOK, JobKinds, LooksAt
  <1> QED
    BY <1>2, <1>3, <1>4, ForkJobMoves

LEMMA ForkReconciles ==
    ASSUME ForkInv, Fork!Reconcile
    PROVE  ForkInv'
  <1> DEFINE job == c4.job
             run == c2[job.run]
  <1>0. /\ c5 \in ForkSpent /\ c2 \in Seq(ForkRuns) /\ job.kind = "reconcile" /\ c1.kind = "guard"
        /\ job.run \in 1..Len(c2) /\ job.seen = c3
        /\ c1' = c1 /\ c2' = c2 /\ c3' = c3
    BY ForkParts DEF JobOK, LooksAt, Fork!Reconcile, Fork!Work
  <1>1. \/ UNCHANGED c5 /\ ~Fork!Bound /\ Fork!Ends
        \/ UNCHANGED c5 /\ c3.state = "success" /\ Fork!Writes(job, "failure")
        \/ UNCHANGED c5 /\ Fork!Ends /\ (c3.state = "success" => Fork!CurrentReceipt(c3))
        \/ UNCHANGED c5 /\ Fork!Does([job EXCEPT !.kind = "inspect"]) /\ (c3.state = "success" => Fork!CurrentReceipt(c3))
        \/ Fork!Fault /\ Fork!Ends
        \/ Fork!Fault /\ ~Fork!Superseded(job.run, run) /\ Fork!Writes(job, "failure")
        \/ Fork!Fault /\ Fork!Does([job EXCEPT !.kind = "inspect"])
    BY <1>0, Zenon DEF Fork!Reconcile, Fork!Work, Fork!Unchanged
  <1>2. CASE UNCHANGED c5 /\ ~Fork!Bound /\ Fork!Ends
    <2>1. c1.moved
      BY <1>2 DEF Fork!Bound
    <2> QED
      BY <1>0, <1>2, <2>1, ForkEnds
  <1>3. CASE UNCHANGED c5 /\ c3.state = "success" /\ Fork!Writes(job, "failure")
    BY <1>0, <1>3, ForkWrites
  <1>4. CASE UNCHANGED c5 /\ Fork!Ends /\ (c3.state = "success" => Fork!CurrentReceipt(c3))
    <2>1. Fits(c3, c1)
      BY <1>4 DEF Fits, Fork!CurrentReceipt
    <2> QED
      BY <1>0, <1>4, <2>1, ForkEnds
  <1>5. CASE UNCHANGED c5 /\ Fork!Does([job EXCEPT !.kind = "inspect"]) /\ (c3.state = "success" => Fork!CurrentReceipt(c3))
    <2>1. Fits(c3, c1)
      BY <1>5 DEF Fits, Fork!CurrentReceipt
    <2> QED
      BY <1>0, <1>5, <2>1, ForkToInspect
  <1>6. CASE Fork!Fault /\ Fork!Ends
    BY <1>0, <1>6, FaultCounts, ForkEnds
  <1>7. CASE Fork!Fault /\ ~Fork!Superseded(job.run, run) /\ Fork!Writes(job, "failure")
    BY <1>0, <1>7, FaultCounts, NotSuperseded, ForkWrites
  <1>8. CASE Fork!Fault /\ Fork!Does([job EXCEPT !.kind = "inspect"])
    BY <1>0, <1>8, FaultCounts, ForkToInspect
  <1> QED
    BY <1>1, <1>2, <1>3, <1>4, <1>5, <1>6, <1>7, <1>8

LEMMA ForkInspects ==
    ASSUME ForkInv, Fork!Inspect
    PROVE  ForkInv'
  <1> DEFINE work == c4.job
             run == IF Fork!Guard THEN c2[work.run] ELSE work.snap
             state == Fork!PublicationState(run)
             job == [kind |-> "recheck", run |-> work.run, snap |-> work.snap, seen |-> work.seen,
                     state |-> state, jobs |-> run, latest |-> c3]
  <1>0. /\ c5 \in ForkSpent /\ c2 \in Seq(ForkRuns) /\ work.kind = "inspect" /\ LooksAt(work, c1, c2, c3)
        /\ c1' = c1 /\ c2' = c2 /\ c3' = c3 /\ c5' = c5
    BY ForkParts DEF JobOK, Fork!Inspect, Fork!Work
  <1>1. c4' = [c4 EXCEPT !.job = job]
    BY DEF Fork!Inspect, Fork!Work, Fork!Does
  <1>2. c2[work.run] \in ForkRuns /\ work.snap \in ForkRuns /\ work.run \in 1..Len(c2)
    BY <1>0 DEF LooksAt
  <1>3. /\ run \in ForkRuns
        /\ IF c1.kind = "guard" THEN Later(work.snap, run) /\ Later(run, c2[work.run]) ELSE run = work.snap
    BY <1>0, <1>2 DEF Fork!Guard, Later, ForkRuns, LooksAt
  <1> HIDE DEF run
  <1>4. state \in {"pending", "success", "failure"} /\ (state = "success" => c1.file = "none" /\ run.state = "success")
    BY <1>3 DEF Fork!PublicationState, ForkRuns
  <1> HIDE DEF state, work
  <1>5. /\ job.kind = "recheck" /\ job.run = work.run /\ job.snap = work.snap /\ job.seen = work.seen
        /\ job.state = state /\ job.jobs = run /\ job.latest = c3
        /\ job = [kind |-> "recheck", run |-> job.run, snap |-> job.snap, seen |-> job.seen,
                  state |-> job.state, jobs |-> job.jobs, latest |-> job.latest]
    OBVIOUS
  <1> HIDE DEF job
  <1>6. Looked(job, c1, c2, c3)
    BY <1>0, <1>2, <1>3, <1>4, <1>5 DEF Looked, LooksAt
  <1>7. JobOK(job, c1, c2, c3)
    BY <1>5, <1>6 DEF JobOK, JobKinds
  <1>8. c5'.faults = 0 /\ c1.kind = "guard" /\ ~c1.moved =>
             c4.waiting # Fork!Idle \/ c4.ended # {} \/ Fits(c3, c1)
    BY <1>0, ForkFits DEF work
  <1> QED
    BY <1>0, <1>1, <1>5, <1>7, <1>8, ForkJobMoves

LEMMA ForkRechecks ==
    ASSUME ForkInv, Fork!Recheck
    PROVE  ForkInv'
  <1> DEFINE work == c4.job
             seen == IF Fork!Guard THEN work.seen ELSE work.latest
             job == [work EXCEPT !.seen = seen]
             run == c2[work.run]
             noop == Fork!Guard /\ work.state = "success" /\ ~run.eligible
  <1>0. /\ c5 \in ForkSpent /\ c2 \in Seq(ForkRuns) /\ work.kind = "recheck" /\ Looked(work, c1, c2, c3)
        /\ c1' = c1 /\ c2' = c2 /\ c3' = c3 /\ c5' = c5
    BY ForkParts DEF JobOK, Fork!Recheck, Fork!Work
  <1>1. /\ job.run = work.run /\ job.snap = work.snap /\ job.seen = c3 /\ job.state = work.state /\ job.jobs = work.jobs
        /\ work.run \in 1..Len(c2)
    <2>1. work = [kind |-> "recheck", run |-> work.run, snap |-> work.snap, seen |-> work.seen,
                  state |-> work.state, jobs |-> work.jobs, latest |-> work.latest]
      BY <1>0 DEF Looked
    <2>2. seen = c3 /\ work.run \in 1..Len(c2)
      BY <1>0 DEF Looked, LooksAt, Fork!Guard
    <2> HIDE DEF seen, work
    <2> QED
      BY <2>1, <2>2
  <1>2. \/ Fork!Ends
        \/ Fork!Unchanged(job) /\ Fork!Writes(job, "failure")
        \/ /\ Fork!Unchanged(job) /\ Fork!Writes(job, job.state)
           /\ Fork!Guard /\ job.state = "success" =>
                IF run.eligible THEN Fork!EvaluatedFor(job.jobs) ELSE ~Fork!Routed(c1.labels)
    <2>1. job = [work EXCEPT !.seen = IF Fork!Guard THEN @ ELSE work.latest]
      OBVIOUS
    <2>2. c2[job.run] = run
      BY <1>1
    <2> QED
      BY <1>1 DEF Fork!Recheck, Fork!Work
  <1> HIDE DEF job
  <1>3. CASE Fork!Ends
    <2>1. c5'.faults = 0 /\ c1.kind = "guard" /\ ~c1.moved =>
             c4.waiting # Fork!Idle \/ c4.ended # {} \/ Fits(c3, c1)
      BY <1>0, ForkFits
    <2> QED
      BY <1>0, <1>3, <2>1, ForkEnds
  <1>4. Fork!Unchanged(job) => run = job.snap /\ job.run = Len(c2)
    BY <1>1, NotSuperseded DEF Fork!Unchanged
  <1>5. CASE Fork!Unchanged(job) /\ Fork!Writes(job, "failure")
    BY <1>0, <1>1, <1>4, <1>5, ForkWrites
  <1>6. CASE /\ Fork!Unchanged(job) /\ Fork!Writes(job, job.state)
             /\ Fork!Guard /\ job.state = "success" =>
                  IF run.eligible THEN Fork!EvaluatedFor(job.jobs) ELSE ~Fork!Routed(c1.labels)
    <2>1. job.state \in {"pending", "success", "failure"}
      BY <1>0, <1>1 DEF Looked
    <2>2. ASSUME job.state = "success"
          PROVE  /\ c1.file = "none" /\ run.state = "success"
                 /\ c1.kind = "guard" => IF run.eligible THEN run.policy = c1.labels ELSE ~Fork!Routed(c1.labels)
      <3>1. /\ c1.file = "none" /\ job.jobs.state = "success" /\ job.jobs \in ForkRuns /\ run \in ForkRuns
            /\ IF c1.kind = "guard" THEN Later(job.snap, job.jobs) /\ Later(job.jobs, run) ELSE job.jobs = job.snap
        BY <1>0, <1>1, <2>2 DEF Looked
      <3>2. run = job.snap /\ job.jobs.attempt \in Nat /\ run.attempt \in Nat
        BY <1>4, <1>6, <3>1 DEF ForkRuns
      <3>3. run = job.jobs
        BY <3>1, <3>2 DEF Later
      <3> QED
        BY <1>6, <2>2, <3>1, <3>3 DEF Fork!Guard, Fork!EvaluatedFor
    <2> QED
      BY <1>0, <1>1, <1>4, <1>6, <2>1, <2>2, ForkWrites
  <1> QED
    BY <1>2, <1>3, <1>5, <1>6

\* A verdict is written.
LEMMA ForkPosts ==
    ASSUME ForkInv, Fork!Ends, c1' = c1, c2' = c2, c5' = c5, c3' \in ForkVerdicts, Sound(c3', c1, c2),
           c5.faults = 0 /\ c1.kind = "guard" /\ ~c1.moved =>
             c4.waiting # Fork!Idle \/ c4.ended # {} \/ Fits(c3', c1)
    PROVE  ForkInv'
  <1> DEFINE idle == Fork!Idle
  <1>0. /\ QueueOK(c4) /\ WaitingOK(c4.waiting, c4.job, c1, c2) /\ c4.ended \subseteq 1..Len(c2)
        /\ c1 \in ForkPulls /\ c2 \in Seq(ForkRuns) /\ c5 \in ForkSpent /\ (c1.review = "approved" => c1.blessed)
    BY ForkParts
  <1>1. c4' = [c4 EXCEPT !.job = idle] /\ idle.kind = "none"
    BY IdleJob DEF Fork!Ends, Fork!Does
  <1> HIDE DEF idle
  <1>2. QueueOK(c4') /\ c4'.job = idle /\ c4'.waiting = c4.waiting /\ c4'.ended = c4.ended
    <2>1. QueueOK(c4')
      BY <1>0, <1>1 DEF QueueOK
    <2> QED
      BY <1>0, <1>1, <2>1 DEF QueueOK
  <1>3. WaitingOK(c4'.waiting, c4'.job, c1', c2')
    BY <1>0, <1>1, <1>2 DEF WaitingOK
  <1>4. JobOK(c4'.job, c1', c2', c3')
    BY <1>2 DEF JobOK, JobKinds, Fork!Idle, idle
  <1>5. Noticed(c4', c1', c3', c5')
    BY <1>1, <1>2 DEF Noticed
  <1>6. ForkType'
    BY <1>0, <1>2 DEF ForkType
  <1> QED
    BY <1>0, <1>3, <1>4, <1>5, <1>6 DEF ForkInv

\* What a write or a post leaves.
LEMMA WriteLeaves ==
    ASSUME ForkInv, Fork!Write
    PROVE  /\ Fork!Ends /\ c1' = c1 /\ c2' = c2 /\ c5' = c5
           /\ c4.job.kind = "write" /\ Written(c4.job, c1, c2, c3)
           /\ \/ c3' = c3 /\ c3.state = c4.job.state /\ (c1.kind = "guard" => c3.receipt = c4.job.receipt)
              \/ c3' = [state |-> c4.job.state, receipt |-> c4.job.receipt, run |-> c4.job.run, attempt |-> c4.job.attempt]
  <1>1. c4.job.kind = "write" /\ Written(c4.job, c1, c2, c3)
    BY ForkParts DEF Fork!Write, Fork!Work, JobOK
  <1>2. c4.job.seen = c3
    BY <1>1 DEF Written
  <1> QED
    BY <1>1, <1>2 DEF Fork!Write, Fork!Work, Fork!Guard
LEMMA PostLeaves ==
    ASSUME ForkInv, Fork!DirectPost
    PROVE  /\ Fork!Ends /\ c1' = c1 /\ c2' = c2 /\ c5' = c5 /\ c4.job.kind = "post"
           /\ c3'.state = c4.job.state /\ c3'.run = 0 /\ c3' \in ForkVerdicts
           /\ c3'.state = "success" => c3'.receipt = c4.job.receipt /\ Allowed(c3'.receipt, c1)
  <1> DEFINE job == c4.job
             receipt == IF job.state = "success" THEN job.receipt ELSE {}
  <1>1. /\ Fork!Ends /\ c1' = c1 /\ c2' = c2 /\ c5' = c5 /\ job.kind = "post"
        /\ c3' = [state |-> job.state, run |-> 0, attempt |-> 0, receipt |-> receipt]
    BY DEF Fork!DirectPost, Fork!Work
  <1>2. /\ job.state \in {"success", "failure"} /\ job.receipt \subseteq Fork!Labels
        /\ job.state = "success" => Allowed(job.receipt, c1)
    BY <1>1, ForkParts DEF JobOK
  <1>3. receipt \in SUBSET Fork!Labels /\ (job.state = "success" => receipt = job.receipt)
    BY <1>2
  <1> HIDE DEF job, receipt
  <1>4. c3' \in ForkVerdicts /\ c3'.state = job.state /\ c3'.run = 0 /\ c3'.receipt = receipt
    BY <1>1, <1>2, <1>3 DEF ForkVerdicts, ForkStates
  <1> QED
    BY <1>1, <1>2, <1>3, <1>4 DEF job

LEMMA ForkVerdictWritten ==
    ASSUME ForkInv, Fork!Write \/ Fork!DirectPost
    PROVE  ForkInv'
  <1>0. c3 \in ForkVerdicts /\ Sound(c3, c1, c2)
    BY ForkParts DEF ForkInv
  <1>1. c5.faults = 0 /\ c1.kind = "guard" /\ ~c1.moved /\ c4.job.kind \in {"write", "post"} =>
             c4.waiting # Fork!Idle \/ c4.ended # {} \/ Fits(c4.job, c1)
    BY ForkFits
  <1>2. CASE Fork!Write
    <2> DEFINE job == c4.job
    <2>1. Fork!Ends /\ c1' = c1 /\ c2' = c2 /\ c5' = c5 /\ job.kind = "write" /\ Written(job, c1, c2, c3)
      BY <1>2, WriteLeaves
    <2>2. CASE c3' = c3 /\ c3.state = job.state /\ (c1.kind = "guard" => c3.receipt = job.receipt)
      <3>1. c1.kind = "guard" /\ Fits(job, c1) => Fits(c3', c1)
        BY <2>2 DEF Fits
      <3> QED
        BY <1>0, <1>1, <2>1, <2>2, <3>1, ForkPosts
    <2>3. CASE c3' = [state |-> job.state, receipt |-> job.receipt, run |-> job.run, attempt |-> job.attempt]
      <3>1. job.state \in ForkStates /\ job.receipt \subseteq Fork!Labels /\ job.run \in Nat /\ job.attempt \in Nat
        BY <2>1 DEF Written
      <3>2. c3'.state = job.state /\ c3'.receipt = job.receipt /\ c3'.run = job.run /\ c3'.attempt = job.attempt
        BY <2>3
      <3> HIDE DEF job
      <3>3. c3' \in ForkVerdicts
        BY <2>3, <3>1 DEF ForkVerdicts
      <3>4. Sound(job, c1, c2)
        BY <2>1 DEF Written
      <3>5. Sound(c3', c1, c2) /\ (Fits(job, c1) => Fits(c3', c1))
        BY <3>2, <3>4 DEF Sound, Earned, Fits
      <3> QED
        BY <1>1, <2>1, <3>3, <3>5, ForkPosts DEF job
    <2> QED
      BY <1>2, <2>2, <2>3, WriteLeaves
  <1>3. CASE Fork!DirectPost
    <2>1. Sound(c3', c1, c2)
      BY <1>3, PostLeaves DEF Sound, Earned
    <2>2. Fits(c4.job, c1) => Fits(c3', c1)
      BY <1>3, PostLeaves DEF Fits
    <2> QED
      BY <1>1, <1>3, <2>1, <2>2, PostLeaves, ForkPosts
  <1> QED
    BY <1>2, <1>3

LEMMA ForkStep ==
    ASSUME ForkInv, [Fork!Next]_Fork!forkVars
    PROVE  ForkInv'
  <1>1. CASE UNCHANGED Fork!forkVars
    BY <1>1 DEF Fork!forkVars, ForkInv, ForkType
  <1>2. CASE Fork!Push \/ \E r \in {"approved", "commented"} : Fork!Review(r)
    BY <1>2, ForkMoves
  <1>3. CASE \E l \in Fork!Labels : Fork!EditLabel(l)
    BY <1>3, ForkNotices
  <1>4. CASE Fork!Open
    BY <1>4, ForkRunsBegin
  <1>5. CASE Fork!Begin \/ Fork!Produce \/ Fork!Die \/ Fork!DirectEvaluate \/ Fork!DirectDecide \/ Fork!DirectPost
    BY <1>5, ForkBegins, ForkProduces, ForkDirect, ForkVerdictWritten
  <1>6. CASE Fork!Fetch \/ Fork!Reconcile \/ Fork!Inspect \/ Fork!Recheck \/ Fork!Write
    BY <1>6, ForkFetches, ForkReconciles, ForkInspects, ForkRechecks, ForkVerdictWritten
  <1>7. CASE \E i \in DOMAIN c2 : Fork!Rerun(i) \/ Fork!Notice(i) \/ Fork!FinishGate(i, "success") \/ Fork!FinishGate(i, "failure")
    <2>1. PICK i \in DOMAIN c2 :
            Fork!Rerun(i) \/ Fork!Notice(i) \/ Fork!FinishGate(i, "success") \/ Fork!FinishGate(i, "failure")
      BY <1>7
    <2>2. CASE Fork!Rerun(i)
      BY <2>2, ForkRunsBegin
    <2>3. CASE Fork!Notice(i)
      BY <2>3, ForkNotices
    <2>4. CASE Fork!FinishGate(i, "success") \/ Fork!FinishGate(i, "failure")
      BY <2>4, ForkMoves
    <2> QED
      BY <2>1, <2>2, <2>3, <2>4
  <1> QED
    BY <1>1, <1>2, <1>3, <1>4, <1>5, <1>6, <1>7 DEF Fork!Next

LEMMA ForkStart == Fork!Init => ForkInv
  <1> SUFFICES ASSUME Fork!Init PROVE ForkInv
    OBVIOUS
  <1> DEFINE idle == Fork!Idle
  <1>1. /\ c2 = <<>> /\ c3 = [state |-> "none", receipt |-> {}, run |-> 0, attempt |-> 0]
        /\ c4 = [job |-> idle, waiting |-> idle, ended |-> {}] /\ c5 = [tests |-> 0, edits |-> 0, faults |-> 0]
    BY DEF Fork!Init, Fork!NoStatus, Fork!Blank
  <1>2. c1 \in ForkPulls /\ c1.review = "none"
    BY DEF Fork!Init, ForkPulls
  <1>3. idle = [kind |-> "none"]
    BY DEF Fork!Idle
  <1>4. JobOK(idle, c1, c2, c3) /\ WaitingOK(idle, idle, c1, c2)
    BY <1>3 DEF JobOK, JobKinds, WaitingOK
  <1> HIDE DEF idle
  <1>5. /\ QueueOK(c4) /\ c4.job = idle /\ c4.waiting = idle /\ c4.ended = {} /\ idle.kind = "none"
    BY <1>1, <1>3 DEF QueueOK
  <1>6. c3 \in ForkVerdicts /\ c3.state = "none" /\ c3.run = 0 /\ c5 \in ForkSpent /\ c2 \in Seq(ForkRuns)
    BY <1>1 DEF ForkVerdicts, ForkStates, ForkSpent
  <1>7. Sound(c3, c1, c2) /\ Fits(c3, c1)
    BY <1>6 DEF Sound, Earned, Fits
  <1>8. Noticed(c4, c1, c3, c5)
    BY <1>5, <1>7 DEF Noticed
  <1> QED
    BY <1>2, <1>4, <1>5, <1>6, <1>7, <1>8 DEF ForkInv, ForkType

LEMMA ForkInvariance == Spec => [](Publishing => ForkInv)
  <1>1. Init => (Publishing => ForkInv)
    BY ForkStart DEF Init, Publishing
  <1>2. [Next]_<<part, cells>> => (Publishing <=> Publishing')
    BY DEF Next, Publishing, cells
  <1>3. [Next]_<<part, cells>> /\ Publishing => [Fork!Next]_Fork!forkVars
    BY DEF Next, Publishing, cells, Fork!forkVars
  <1>4. (Publishing => ForkInv) /\ [Next]_<<part, cells>> => (Publishing => ForkInv)'
    BY <1>2, <1>3, ForkStep
  <1> QED
    BY <1>1, <1>4, PTL DEF Spec

\* The status of a fork's head is never a success that was not earned there,
\* that is for other labels while nothing is under way and nothing failed, or
\* that what it changes does not allow, for any number of tests, edits and
\* faults (fork_gate_publisher.js, agents_guard_fork_publisher.js, agents-guard.js).
THEOREM GreenTrueAlways == Spec => []GreenTrue
  <1>1. ForkInv => Fork!GreenTrue
    <2> SUFFICES ASSUME ForkInv, c3.state = "success" PROVE Fork!GreenTrue
      BY DEF Fork!GreenTrue
    <2>1. Sound(c3, c1, c2) /\ Noticed(c4, c1, c3, c5)
      BY DEF ForkInv
    <2>2. ASSUME c5.faults = 0, c4 = Fork!Blank, Fork!Guard, ~c1.moved PROVE c3.receipt = c1.labels
      <3>1. c4.job = Fork!Idle /\ c4.waiting = Fork!Idle /\ c4.ended = {}
        BY <2>2 DEF Fork!Blank
      <3>2. c4.job.kind = "none"
        BY <3>1, IdleJob
      <3> QED
        BY <2>1, <2>2, <3>1, <3>2 DEF Noticed, Fits, Fork!Guard
    <2>3. c3.run # 0 /\ c2[c3.run].attempt = c3.attempt =>
            /\ c2[c3.run].state = "success"
            /\ Fork!Guard => IF c2[c3.run].eligible THEN c2[c3.run].policy = c3.receipt ELSE ~Fork!Routed(c3.receipt)
      BY <2>1 DEF Sound, Earned, Fork!Guard
    <2>4. c1.file # "none" => c1.blessed \/ Fork!Owned \/ (c1.file = "refs" /\ "allow" \in c3.receipt)
      BY <2>1 DEF Sound, Allowed, Fork!Owned
    <2> QED
      BY <2>2, <2>3, <2>4 DEF Fork!GreenTrue
  <1>2. (Publishing => ForkInv) => GreenTrue
    BY <1>1 DEF Publishing, GreenTrue
  <1> QED
    BY <1>2, ForkInvariance, PTL

\* Nothing but a verdict that is written changes the status.
LEMMA StatusWritten ==
    ASSUME [Fork!Next]_Fork!forkVars
    PROVE  c3' = c3 \/ Fork!Write \/ Fork!DirectPost
  BY DEF Fork!Next, Fork!forkVars, Fork!Push, Fork!EditLabel, Fork!Review, Fork!Open, Fork!Begin, Fork!Produce, Fork!Die,
         Fork!DirectEvaluate, Fork!DirectDecide, Fork!Fetch, Fork!Reconcile, Fork!Inspect, Fork!Recheck,
         Fork!Rerun, Fork!Notice, Fork!FinishGate

\* The verdict of an older attempt never takes the place of a newer one's, but to
\* withdraw a success, for any number of runs and attempts, in any order of
\* their ends (assertLatestAttempt, validateBinding).
THEOREM VerdictsInOrderAlways == Spec => VerdictsInOrder
  <1>1. ASSUME ForkInv, [Fork!Next]_Fork!forkVars PROVE Fork!InOrder
    <2>1. ~Fork!Newer(c3, c3)
      BY <1>1, ForkParts DEF Fork!Newer, ForkVerdicts
    <2>2. CASE c3' = c3
      BY <2>1, <2>2 DEF Fork!InOrder
    <2>3. CASE Fork!DirectPost
      BY <1>1, <2>3, PostLeaves DEF Fork!InOrder
    <2>4. CASE Fork!Write
      <3>1. CASE c3' = c3
        BY <2>2, <3>1
      <3>2. CASE c3' = [state |-> c4.job.state, receipt |-> c4.job.receipt, run |-> c4.job.run, attempt |-> c4.job.attempt]
        <4>1. ~Fork!Newer(c3, c4.job) \/ (c3.state = "success" /\ c4.job.state = "failure")
          BY <1>1, <2>4, WriteLeaves DEF Written
        <4>2. c3'.state = c4.job.state /\ c3'.run = c4.job.run /\ c3'.attempt = c4.job.attempt
          BY <3>2
        <4> QED
          BY <4>1, <4>2 DEF Fork!InOrder, Fork!Newer
      <3> QED
        BY <1>1, <2>4, <3>1, <3>2, WriteLeaves
    <2> QED
      BY <1>1, <2>2, <2>3, <2>4, StatusWritten
  <1>2. [Next]_<<part, cells>> /\ Publishing => [Fork!Next]_Fork!forkVars
    BY DEF Next, Publishing, cells, Fork!forkVars
  <1>3. (Publishing => ForkInv) /\ [Next]_<<part, cells>> => [Publishing => Fork!InOrder]_cells
    BY <1>1, <1>2 DEF Publishing
  <1> QED
    BY <1>3, ForkInvariance, PTL DEF Spec, VerdictsInOrder, Publishing

-----------------------------------------------------------------------------
(* PullRequestBody: c1 is the pull request, c2 its body, c3 the issue, c4   *)
(* the comments, c5 the checks, c6 the hub, c7 the reconciliation, c8 what  *)
(* happened.                                                                *)

Rewriting == part = "body"

BodyOK(b) == b = [block |-> b.block, ticked |-> b.ticked, shown |-> b.shown] /\ b.block \in BOOLEAN
ChecksOK(c) ==
    /\ c = [gate |-> c.gate, contract |-> c.contract]
    /\ c.contract = [verdict |-> c.contract.verdict, live |-> c.contract.live, run |-> c.contract.run]
    /\ c.contract.live \in BOOLEAN
NotesOK(notes) == notes = [claims |-> notes.claims, repair |-> notes.repair, warned |-> notes.warned]
HubOK(h) ==
    /\ h = [job |-> h.job, waiting |-> h.waiting]
    /\ h.job.phase \in {"idle", "fetch", "list", "comments", "write"}
    /\ h.job.phase \in {"list", "comments"} => BodyOK(h.job.old)
    /\ h.job.phase = "write" => BodyOK(h.job.new)
RoundOK(r) == r = [phase |-> "idle"] \/ BodyOK(r.old)

\* A body that a run of the hub would leave alone.
Needed(text, notes) == text \cup Body!ConnectorStates(notes.claims)
Shows(pull, c) == IF pull.agent THEN <<>> ELSE <<pull.head>> \o (<<c.gate>> \o Body!StatusOf(c.contract))
Current(b, pull, needed, c) == b.block /\ needed \subseteq b.ticked /\ b.shown = Shows(pull, c)
\* The writes that follow when only the hub works and no call fails: one, and
\* another if the edit cancels a run that the body shows.
Due(b, pull, needed, c) ==
    IF Current(b, pull, needed, c) THEN 0
    ELSE IF pull.agent \/ ~c.contract.live \/ c.contract.verdict = "cancelled" THEN 1 ELSE 2
Restarting(c) == [c EXCEPT !.contract = Body!Restarted(@)]
Coming(new, b, pull, needed, c) == 1 + Due(new, pull, needed, Restarting(c))
\* What the job will write, if nothing changes meanwhile.
Listed(job, c) ==
    [phase |-> "comments", head |-> job.head, agent |-> job.agent, old |-> job.old,
     issue |-> job.issue, runs |-> <<c.gate>> \o Body!StatusOf(c.contract)]
Planned(job, notes) == Body!BuildStatusBlock(job, Body!ConnectorStates(notes.claims))
Built(job, b, pull, text, notes, c) ==
    IF Planned(job, notes) = job.old THEN Due(b, pull, Needed(text, notes), c)
    ELSE Coming(Planned(job, notes), b, pull, Needed(text, notes), c)
Ahead(job, b, pull, text, notes, c) ==
    IF job.phase = "write" THEN Coming(job.new, b, pull, Needed(text, notes), c)
    ELSE IF job.phase = "comments" THEN Built(job, b, pull, text, notes, c)
    ELSE IF job.phase = "list" THEN Built(Listed(job, c), b, pull, text, notes, c)
    ELSE Due(b, pull, Needed(text, notes), c)

BodyType ==
    /\ BodyOK(c2) /\ NotesOK(c4) /\ ChecksOK(c5) /\ HubOK(c6)
    /\ RoundOK(c7)
    /\ c8 \in [echo : Nat, changes : Nat, faults : Nat]
BodyInv ==
    /\ BodyType
    /\ c8.echo # 0 => c5.contract.live
    /\ c8.echo + Ahead(c6.job, c2, c1, c3, c4, c5) <= 3 + c8.faults

LEMMA Records ==
    /\ \A c : ChecksOK(c) => ChecksOK(Restarting(c)) /\ Restarting(c).gate = c.gate /\ Restarting(c).contract.live
                             /\ Restarting(c).contract.verdict = IF c.contract.live THEN "cancelled" ELSE c.contract.verdict
    /\ \A old, ticked, shown : BodyOK(old) =>
         Body!Upsert(old, ticked, shown) = [block |-> TRUE, ticked |-> ticked, shown |-> shown]
  <1>1. ASSUME NEW c, ChecksOK(c)
        PROVE  /\ ChecksOK(Restarting(c)) /\ Restarting(c).gate = c.gate /\ Restarting(c).contract.live
               /\ Restarting(c).contract.verdict = IF c.contract.live THEN "cancelled" ELSE c.contract.verdict
    <2> DEFINE v == IF c.contract.live THEN "cancelled" ELSE c.contract.verdict
               n == 1 - c.contract.run
               new == [verdict |-> v, live |-> TRUE, run |-> n]
    <2>1. Restarting(c) = [c EXCEPT !.contract = new]
      BY DEF Restarting, Body!Restarted
    <2>2. new.verdict = v /\ new.live = TRUE /\ new = [verdict |-> new.verdict, live |-> new.live, run |-> new.run]
      OBVIOUS
    <2>3. v = IF c.contract.live THEN "cancelled" ELSE c.contract.verdict
      OBVIOUS
    <2> HIDE DEF v, new
    <2>4. Restarting(c) = [gate |-> c.gate, contract |-> new]
      BY <1>1, <2>1 DEF ChecksOK
    <2>5. Restarting(c).gate = c.gate /\ Restarting(c).contract = new
      BY <2>4
    <2>6. Restarting(c) = [gate |-> Restarting(c).gate, contract |-> Restarting(c).contract]
      BY <2>4
    <2>7. ChecksOK(Restarting(c))
      BY <2>2, <2>5, <2>6 DEF ChecksOK
    <2> QED
      BY <2>2, <2>3, <2>5, <2>7
  <1>2. ASSUME NEW old, NEW ticked, NEW shown, BodyOK(old)
        PROVE  Body!Upsert(old, ticked, shown) = [block |-> TRUE, ticked |-> ticked, shown |-> shown]
    <2> DEFINE new == Body!Upsert(old, ticked, shown)
    <2>1. new = [old EXCEPT !.block = TRUE, !.ticked = ticked, !.shown = shown]
      BY DEF Body!Upsert
    <2> HIDE DEF new
    <2>2. new = [block |-> new.block, ticked |-> new.ticked, shown |-> new.shown]
      BY <1>2, <2>1 DEF BodyOK
    <2>3. new.block = TRUE /\ new.ticked = ticked /\ new.shown = shown
      BY <1>2, <2>1 DEF BodyOK
    <2> QED
      BY <2>2, <2>3 DEF new
  <1> QED
    BY <1>1, <1>2

LEMMA DueSmall == \A b, pull, needed, c : Due(b, pull, needed, c) \in {0, 1, 2}
  BY DEF Due
LEMMA AheadSmall == \A job, b, pull, text, notes, c : Ahead(job, b, pull, text, notes, c) \in {0, 1, 2, 3}
  <1>1. \A new, b, pull, needed, c : Coming(new, b, pull, needed, c) \in {1, 2, 3}
    BY DueSmall DEF Coming
  <1>2. \A job, b, pull, text, notes, c : Built(job, b, pull, text, notes, c) \in {0, 1, 2, 3}
    BY <1>1, DueSmall DEF Built
  <1> QED
    BY <1>1, <1>2, DueSmall DEF Ahead

\* What a job writes from what holds now settles the body, but for a run of the
\* contract that the write cancels.
LEMMA FreshBody ==
    ASSUME NEW job, NEW b, BodyOK(b), NEW pull, NEW text, NEW notes, NEW c, ChecksOK(c),
           job.old = b, job.issue = text, job.agent = pull.agent, job.head = pull.head,
           job.runs = <<c.gate>> \o Body!StatusOf(c.contract)
    PROVE  /\ BodyOK(Planned(job, notes))
           /\ Built(job, b, pull, text, notes, c) <= Due(b, pull, Needed(text, notes), c)
           /\ Built(job, b, pull, text, notes, c) \in 0..3
  <1> DEFINE new == Planned(job, notes)
             needed == Needed(text, notes)
             ticked == job.issue \cup Body!ConnectorStates(notes.claims) \cup Body!Ticks(b)
  <1>1. new = [block |-> TRUE, ticked |-> ticked, shown |-> Shows(pull, c)]
    <2>1. new = Body!Upsert(b, ticked, Body!Table(job))
      BY DEF Planned, Body!BuildStatusBlock
    <2>2. Body!Table(job) = Shows(pull, c)
      BY DEF Body!Table, Shows
    <2> HIDE DEF new, ticked
    <2> QED
      BY <2>1, <2>2, Records
  <1>2. ticked = needed \cup Body!Ticks(b)
    BY DEF Needed
  <1> HIDE DEF ticked
  <1>3. BodyOK(new) /\ Current(new, pull, needed, c) /\ new.block = TRUE
    <2> HIDE DEF new, needed
    <2> QED
      BY <1>1, <1>2 DEF BodyOK, Current
  <1>4. Current(b, pull, needed, c) => new = b
    <2>1. b = [block |-> b.block, ticked |-> b.ticked, shown |-> b.shown]
      BY DEF BodyOK
    <2> SUFFICES ASSUME Current(b, pull, needed, c) PROVE new = b
      OBVIOUS
    <2>2. ticked = b.ticked /\ b.block /\ b.shown = Shows(pull, c)
      BY <1>2 DEF Current, Body!Ticks
    <2>3. b.block = TRUE
      <3>1. CASE b.block = TRUE
        BY <3>1
      <3> QED
        BY <2>2, <3>1
    <2> HIDE DEF new
    <2> QED
      BY <1>1, <2>1, <2>2, <2>3
  <1>5. ~Current(b, pull, needed, c) => Coming(new, b, pull, needed, c) <= Due(b, pull, needed, c)
    <2> SUFFICES ASSUME ~Current(b, pull, needed, c) PROVE 1 + Due(new, pull, needed, Restarting(c)) <= Due(b, pull, needed, c)
      BY DEF Coming
    <2>1. /\ Restarting(c).gate = c.gate /\ Restarting(c).contract.live
          /\ Restarting(c).contract.verdict = IF c.contract.live THEN "cancelled" ELSE c.contract.verdict
      BY Records
    <2>2. CASE pull.agent \/ ~c.contract.live \/ c.contract.verdict = "cancelled"
      <3>1. Shows(pull, Restarting(c)) = Shows(pull, c)
        BY <2>1, <2>2 DEF Shows, Body!StatusOf
      <3>2. Current(new, pull, needed, Restarting(c))
        BY <1>3, <3>1 DEF Current
      <3> QED
        BY <2>2, <3>2 DEF Due
    <2>3. CASE ~(pull.agent \/ ~c.contract.live \/ c.contract.verdict = "cancelled")
      BY <2>1, <2>3 DEF Due
    <2> QED
      BY <2>2, <2>3
  <1> HIDE DEF new, needed
  <1>6. Built(job, b, pull, text, notes, c) <= Due(b, pull, needed, c)
    <2>1. Built(job, b, pull, text, notes, c) =
            IF new = b THEN Due(b, pull, needed, c) ELSE Coming(new, b, pull, needed, c)
      BY DEF Built, new, needed
    <2>2. Due(b, pull, needed, c) \in {0, 1, 2}
      BY DueSmall
    <2> QED
      BY <1>4, <1>5, <2>1, <2>2
  <1>7. Built(job, b, pull, text, notes, c) \in 0..3
    <2>1. Due(b, pull, needed, c) \in {0, 1, 2} /\ Due(new, pull, needed, Restarting(c)) \in {0, 1, 2}
      BY DueSmall
    <2>2. \/ Built(job, b, pull, text, notes, c) = Due(b, pull, needed, c)
          \/ Built(job, b, pull, text, notes, c) = 1 + Due(new, pull, needed, Restarting(c))
      BY DEF Built, Coming, new, needed
    <2> QED
      BY <2>1, <2>2
  <1> QED
    BY <1>3, <1>6, <1>7 DEF new, needed

LEMMA BodyParts ==
    ASSUME BodyInv
    PROVE  /\ BodyOK(c2) /\ NotesOK(c4) /\ ChecksOK(c5) /\ HubOK(c6) /\ RoundOK(c7)
           /\ c8 \in [echo : Nat, changes : Nat, faults : Nat]
           /\ c8.echo \in Nat /\ c8.changes \in Nat /\ c8.faults \in Nat
           /\ Ahead(c6.job, c2, c1, c3, c4, c5) \in {0, 1, 2, 3}
           /\ c8.echo + Ahead(c6.job, c2, c1, c3, c4, c5) <= 3 + c8.faults
  BY AheadSmall DEF BodyInv, BodyType

\* Someone changes what the sync looks at: it may begin anew.
LEMMA BodyChanges ==
    ASSUME BodyInv, Body!Changed, BodyOK(c2'), NotesOK(c4'), ChecksOK(c5'), HubOK(c6'), RoundOK(c7')
    PROVE  BodyInv'
  <1> DEFINE more == c8.changes + 1
             zero == 0
  <1>1. more \in Nat /\ zero \in Nat /\ zero = 0 /\ c8' = [c8 EXCEPT !.changes = more, !.echo = zero]
    BY BodyParts DEF Body!Changed
  <1> HIDE DEF more, zero
  <1>2. c8' \in [echo : Nat, changes : Nat, faults : Nat]
    BY <1>1, BodyParts
  <1>3. c8'.echo = 0 /\ c8'.faults = c8.faults
    BY <1>1, BodyParts
  <1>4. Ahead(c6.job, c2, c1, c3, c4, c5)' \in {0, 1, 2, 3}
    BY AheadSmall
  <1>5. c8'.echo + Ahead(c6.job, c2, c1, c3, c4, c5)' <= 3 + c8'.faults
    BY <1>3, <1>4, BodyParts
  <1> QED
    BY <1>2, <1>3, <1>5 DEF BodyInv, BodyType

\* The sync goes on, and no more writes lie ahead than before; a failed call
\* may add one.
LEMMA BodyGoesOn ==
    ASSUME BodyInv, c2' = c2, NotesOK(c4'), c5' = c5, HubOK(c6'), RoundOK(c7'),
           c8' \in [echo : Nat, changes : Nat, faults : Nat], c8'.echo = c8.echo, c8'.faults >= c8.faults,
           \/ Ahead(c6.job, c2, c1, c3, c4, c5)' <= Ahead(c6.job, c2, c1, c3, c4, c5) + (c8'.faults - c8.faults)
           \/ c8.echo = 0
    PROVE  BodyInv'
  <1>1. c8'.faults \in Nat
    OBVIOUS
  <1>2. Ahead(c6.job, c2, c1, c3, c4, c5)' \in {0, 1, 2, 3}
    BY AheadSmall
  <1>3. c8'.echo + Ahead(c6.job, c2, c1, c3, c4, c5)' <= 3 + c8'.faults
    BY <1>1, <1>2, BodyParts
  <1> QED
    BY <1>3, BodyParts DEF BodyInv, BodyType

LEMMA BodyFaults ==
    ASSUME BodyInv, Body!Fault
    PROVE  c8' \in [echo : Nat, changes : Nat, faults : Nat] /\ c8'.echo = c8.echo /\ c8'.faults = c8.faults + 1
  <1> DEFINE more == c8.faults + 1
  <1>1. more \in Nat /\ c8' = [c8 EXCEPT !.faults = more]
    BY BodyParts DEF Body!Fault
  <1> HIDE DEF more
  <1>2. c8' \in [echo : Nat, changes : Nat, faults : Nat] /\ c8'.echo = c8.echo /\ c8'.faults = more
    BY <1>1, BodyParts
  <1> QED
    BY <1>2 DEF more

\* Only what waits changes, or a job ends.
LEMMA HubQueues ==
    ASSUME NEW h, HubOK(h), NEW event
    PROVE  /\ HubOK(Body!Queued(h, event)) /\ Body!Queued(h, event).job = h.job
           /\ HubOK([h EXCEPT !.waiting = event]) /\ [h EXCEPT !.waiting = event].job = h.job
  <1> DEFINE new == Body!Queued(h, event)
  <1>1. new = [job |-> h.job, waiting |-> event]
    BY DEF HubOK, Body!Queued
  <1>2. new = [h EXCEPT !.waiting = event]
    BY DEF Body!Queued
  <1> HIDE DEF new
  <1>3. new.job = h.job /\ new = [job |-> new.job, waiting |-> new.waiting]
    BY <1>1
  <1>4. HubOK(new)
    BY <1>3 DEF HubOK
  <1> QED
    BY <1>2, <1>3, <1>4 DEF new
LEMMA HubTurns ==
    ASSUME NEW h, HubOK(h), NEW job, job.phase \in {"idle", "fetch", "list", "comments", "write"},
           job.phase \in {"list", "comments"} => BodyOK(job.old),
           job.phase = "write" => BodyOK(job.new)
    PROVE  HubOK([h EXCEPT !.job = job]) /\ [h EXCEPT !.job = job].job = job
  <1>1. ASSUME NEW new, NEW waiting, new = [job |-> job, waiting |-> waiting] PROVE HubOK(new)
    <2>1. new.job = job /\ new = [job |-> new.job, waiting |-> new.waiting]
      BY <1>1
    <2> QED
      BY <2>1 DEF HubOK
  <1>2. [h EXCEPT !.job = job] = [job |-> job, waiting |-> h.waiting]
    BY DEF HubOK
  <1> QED
    BY <1>1, <1>2

\* Of the comments only the claims matter.
LEMMA SameClaims ==
    ASSUME NEW old, NEW new, new.claims = old.claims
    PROVE  \A job, b, pull, text, c : Ahead(job, b, pull, text, new, c) = Ahead(job, b, pull, text, old, c)
  <1>1. \A text : Needed(text, new) = Needed(text, old)
    BY DEF Needed
  <1>2. \A job : Planned(job, new) = Planned(job, old)
    BY DEF Planned
  <1> QED
    BY <1>1, <1>2 DEF Ahead, Built

LEMMA IdleHub == Body!Idle.phase = "idle"
  BY DEF Body!Idle

\* The hub takes an event, and reads the pull request.
LEMMA HubReads ==
    ASSUME BodyInv, Body!DiscoverPr \/ Body!Fetch \/ Body!CollectStatusWorkflowRuns
    PROVE  BodyInv'
  <1>0. /\ c1' = c1 /\ c2' = c2 /\ c3' = c3 /\ c5' = c5 /\ c7' = c7 /\ c8' = c8
        /\ BodyOK(c2) /\ NotesOK(c4) /\ ChecksOK(c5) /\ HubOK(c6) /\ RoundOK(c7)
        /\ c8.faults \in Nat /\ c8 \in [echo : Nat, changes : Nat, faults : Nat]
    BY BodyParts DEF Body!DiscoverPr, Body!Fetch, Body!CollectStatusWorkflowRuns, Body!pull
  <1> DEFINE due == Due(c2, c1, Needed(c3, c4), c5)
  <1>1. ASSUME NotesOK(c4'), c4'.claims = c4.claims, HubOK(c6'),
               Ahead(c6'.job, c2, c1, c3, c4, c5) <= Ahead(c6.job, c2, c1, c3, c4, c5)
        PROVE  BodyInv'
    <2>1. Ahead(c6.job, c2, c1, c3, c4, c5)' = Ahead(c6'.job, c2, c1, c3, c4, c5)
      BY <1>0, <1>1, SameClaims
    <2>2. c8' \in [echo : Nat, changes : Nat, faults : Nat] /\ c8'.echo = c8.echo /\ c8'.faults = c8.faults
      BY <1>0
    <2>3. /\ Ahead(c6.job, c2, c1, c3, c4, c5)' <= Ahead(c6.job, c2, c1, c3, c4, c5) + (c8'.faults - c8.faults)
          /\ c8'.faults >= c8.faults
      BY <1>0, <1>1, <2>1, <2>2, BodyParts
    <2> QED
      BY <1>0, <1>1, <2>2, <2>3, BodyGoesOn
  <1>2. CASE Body!DiscoverPr
    <2> DEFINE job == IF c6.waiting.kind = "comment" THEN Body!Idle
                      ELSE [phase |-> "fetch", head |-> IF c6.waiting.kind = "dispatch" THEN c1.head ELSE c6.waiting.head]
    <2>1. c6.job = Body!Idle /\ c6' = [job |-> job, waiting |-> Body!Silent] /\ c4' = c4
      BY <1>2 DEF Body!DiscoverPr, Body!pull
    <2>2. job.phase \in {"idle", "fetch"}
      BY IdleHub
    <2> DEFINE silent == Body!Silent
    <2> HIDE DEF job, silent
    <2>3. HubOK(c6') /\ c6'.job = job
      <3>1. c6' = [job |-> job, waiting |-> silent]
        BY <2>1 DEF silent
      <3>2. c6'.job = job /\ c6' = [job |-> c6'.job, waiting |-> c6'.waiting]
        BY <3>1
      <3> QED
        BY <2>2, <3>2 DEF HubOK
    <2>4. Ahead(c6'.job, c2, c1, c3, c4, c5) = due /\ Ahead(c6.job, c2, c1, c3, c4, c5) = due
      BY <2>1, <2>2, <2>3, IdleHub DEF Ahead
    <2>5. due \in {0, 1, 2}
      BY DueSmall
    <2> QED
      BY <1>0, <1>1, <2>1, <2>3, <2>4, <2>5
  <1>3. CASE Body!Fetch
    <2> DEFINE job == [phase |-> "list", head |-> c1.head, agent |-> c1.agent, old |-> c2, issue |-> c3]
    <2>1. c6.job.phase = "fetch" /\ (c4' = c4 \/ c4' = [c4 EXCEPT !.repair = Body!Repair])
      BY <1>3 DEF Body!Fetch
    <2>2. \/ c6' = [c6 EXCEPT !.job = Body!Idle]
          \/ c6' = [c6 EXCEPT !.job = Body!Idle, !.waiting = Body!Event("comment")]
          \/ c6' = [c6 EXCEPT !.job = job]
      BY <1>3 DEF Body!Fetch, Body!Job, Body!Comment
    <2>3. NotesOK(c4') /\ c4'.claims = c4.claims
      <3> DEFINE r == Body!Repair
      <3>1. c4' = c4 \/ c4' = [c4 EXCEPT !.repair = r]
        BY <2>1
      <3> HIDE DEF r
      <3>2. NotesOK(c4')
        BY <1>0, <3>1 DEF NotesOK
      <3> QED
        BY <1>0, <3>1, <3>2 DEF NotesOK
    <2>4. Ahead(c6.job, c2, c1, c3, c4, c5) = due /\ due \in {0, 1, 2}
      BY <2>1, DueSmall DEF Ahead
    <2>5. CASE c6' = [c6 EXCEPT !.job = Body!Idle] \/ c6' = [c6 EXCEPT !.job = Body!Idle, !.waiting = Body!Event("comment")]
      <3> DEFINE idle == Body!Idle
                 event == Body!Event("comment")
                 h == [c6 EXCEPT !.job = idle]
      <3>1. idle.phase = "idle"
        BY IdleHub
      <3>2. HubOK(h) /\ h.job = idle
        <4> HIDE DEF idle
        <4> QED
          BY <1>0, <3>1, HubTurns
      <3>3. c6' = h \/ c6' = [h EXCEPT !.waiting = event]
        <4>1. c6' = [c6 EXCEPT !.job = idle] \/ c6' = [c6 EXCEPT !.job = idle, !.waiting = event]
          BY <2>5
        <4> HIDE DEF idle, event
        <4> QED
          BY <1>0, <4>1 DEF HubOK
      <3> HIDE DEF idle, event, h
      <3>4. HubOK(c6') /\ c6'.job = idle
        <4>1. HubOK([h EXCEPT !.waiting = event]) /\ [h EXCEPT !.waiting = event].job = h.job
          BY <3>2, HubQueues
        <4> QED
          BY <3>2, <3>3, <4>1
      <3>5. Ahead(c6'.job, c2, c1, c3, c4, c5) = due
        BY <3>1, <3>4 DEF Ahead
      <3> QED
        BY <1>1, <2>3, <2>4, <3>4, <3>5
    <2>6. CASE c6' = [c6 EXCEPT !.job = job]
      <3>1. job.phase = "list" /\ job.old = c2 /\ job.issue = c3 /\ job.agent = c1.agent /\ job.head = c1.head
        OBVIOUS
      <3> HIDE DEF job
      <3>2. HubOK(c6') /\ c6'.job = job
        BY <1>0, <2>6, <3>1, HubTurns
      <3> DEFINE listed == Listed(job, c5)
      <3>3. /\ listed.old = c2 /\ listed.issue = c3 /\ listed.agent = c1.agent /\ listed.head = c1.head
            /\ listed.runs = <<c5.gate>> \o Body!StatusOf(c5.contract)
        BY <3>1 DEF Listed
      <3> HIDE DEF listed
      <3>4. Built(listed, c2, c1, c3, c4, c5) <= due
        BY <1>0, <3>3, FreshBody
      <3>5. Ahead(c6'.job, c2, c1, c3, c4, c5) = Built(listed, c2, c1, c3, c4, c5)
        BY <3>1, <3>2 DEF Ahead, listed
      <3> QED
        BY <1>1, <2>3, <2>4, <3>2, <3>4, <3>5
    <2> QED
      BY <2>2, <2>5, <2>6
  <1>4. CASE Body!CollectStatusWorkflowRuns
    <2> DEFINE job == Listed(c6.job, c5)
    <2>1. c6.job.phase = "list" /\ c4' = c4 /\ c6' = [c6 EXCEPT !.job = job]
      BY <1>4 DEF Body!CollectStatusWorkflowRuns, Body!Job, Body!pull, Listed
    <2>2. job.phase = "comments" /\ job.old = c6.job.old /\ BodyOK(c6.job.old)
      BY <1>0, <2>1 DEF Listed, HubOK
    <2> HIDE DEF job
    <2>3. HubOK(c6') /\ c6'.job = job
      BY <1>0, <2>1, <2>2, HubTurns
    <2>4. Ahead(c6'.job, c2, c1, c3, c4, c5) = Ahead(c6.job, c2, c1, c3, c4, c5)
      BY <2>1, <2>2, <2>3 DEF Ahead, job
    <2> QED
      BY <1>0, <1>1, <2>1, <2>3, <2>4, BodyParts
  <1> QED
    BY <1>2, <1>3, <1>4

\* Comments are read, and the block is built from them.
LEMMA HubBuilds ==
    ASSUME BodyInv, NEW claims, NEW warned, Body!FetchIssueComments(claims, warned),
           NEW new, new = Body!BuildStatusBlock(c6.job, Body!ConnectorStates(claims))
    PROVE  /\ c6.job.phase = "comments" /\ HubOK(c6') /\ NotesOK(c4') /\ c4'.claims = c4.claims
           /\ BodyOK(c6.job.old)
           /\ new = [block |-> TRUE, ticked |-> c6.job.issue \cup Body!ConnectorStates(claims) \cup Body!Ticks(c6.job.old),
                     shown |-> Body!Table(c6.job)]
           /\ Ahead(c6'.job, c2, c1, c3, c4, c5) =
                IF new = c6.job.old THEN Due(c2, c1, Needed(c3, c4), c5)
                ELSE Coming(new, c2, c1, Needed(c3, c4), c5)
  <1> DEFINE job == IF new = c6.job.old THEN Body!Idle ELSE [phase |-> "write", new |-> new]
             ticked == c6.job.issue \cup Body!ConnectorStates(claims) \cup Body!Ticks(c6.job.old)
             waiting == IF c4.warned = "none" /\ warned = "open" THEN Body!Event("comment") ELSE c6.waiting
  <1>1. /\ c6.job.phase = "comments" /\ c6' = [job |-> job, waiting |-> waiting]
        /\ c4' = [c4 EXCEPT !.warned = warned]
    BY DEF Body!FetchIssueComments
  <1>2. NotesOK(c4) /\ HubOK(c6) /\ BodyOK(c6.job.old)
    BY <1>1, BodyParts DEF HubOK
  <1>3. new = [block |-> TRUE, ticked |-> ticked, shown |-> Body!Table(c6.job)]
    <2> DEFINE old == c6.job.old
               table == Body!Table(c6.job)
    <2>1. new = Body!Upsert(old, ticked, table) /\ BodyOK(old)
      BY <1>2 DEF Body!BuildStatusBlock
    <2> HIDE DEF ticked, old, table
    <2>2. Body!Upsert(old, ticked, table) = [block |-> TRUE, ticked |-> ticked, shown |-> table]
      BY <2>1, Records
    <2> QED
      BY <2>1, <2>2 DEF table
  <1>4. BodyOK(new)
    <2> HIDE DEF ticked
    <2>1. new.block = TRUE /\ new = [block |-> new.block, ticked |-> new.ticked, shown |-> new.shown]
      BY <1>3
    <2> QED
      BY <2>1 DEF BodyOK
  <1>5. IF new = c6.job.old THEN job.phase = "idle" ELSE job.phase = "write" /\ job.new = new
    BY IdleHub
  <1>6. NotesOK(c4') /\ c4'.claims = c4.claims
    <2>1. NotesOK(c4')
      BY <1>1, <1>2 DEF NotesOK
    <2> QED
      BY <1>1, <1>2, <2>1 DEF NotesOK
  <1> HIDE DEF job, waiting
  <1>7. c6'.job = job /\ HubOK(c6')
    <2>1. c6'.job = job /\ c6' = [job |-> c6'.job, waiting |-> c6'.waiting]
      BY <1>1
    <2> QED
      BY <1>4, <1>5, <2>1 DEF HubOK
  <1>8. Ahead(c6'.job, c2, c1, c3, c4, c5) =
                IF new = c6.job.old THEN Due(c2, c1, Needed(c3, c4), c5)
                ELSE Coming(new, c2, c1, Needed(c3, c4), c5)
    BY <1>5, <1>7 DEF Ahead
  <1> QED
    BY <1>1, <1>2, <1>3, <1>6, <1>7, <1>8

LEMMA HubComments ==
    ASSUME BodyInv, Body!ReadComments \/ Body!MissComments
    PROVE  BodyInv'
  <1> DEFINE now == Ahead(c6.job, c2, c1, c3, c4, c5)
             then == Ahead(c6'.job, c2, c1, c3, c4, c5)
             due == Due(c2, c1, Needed(c3, c4), c5)
             needed == Needed(c3, c4)
  <1>0. /\ c1' = c1 /\ c2' = c2 /\ c3' = c3 /\ c5' = c5 /\ c7' = c7 /\ RoundOK(c7)
        /\ c8.faults \in Nat /\ c8 \in [echo : Nat, changes : Nat, faults : Nat]
        /\ now \in {0, 1, 2, 3} /\ then \in {0, 1, 2, 3}
    BY BodyParts, AheadSmall DEF Body!ReadComments, Body!MissComments, Body!FetchIssueComments
  <1>1. ASSUME NotesOK(c4'), c4'.claims = c4.claims, HubOK(c6'),
               c8' \in [echo : Nat, changes : Nat, faults : Nat], c8'.echo = c8.echo, c8'.faults >= c8.faults,
               then <= now + (c8'.faults - c8.faults) \/ c8.echo = 0
        PROVE  BodyInv'
    <2>1. Ahead(c6.job, c2, c1, c3, c4, c5)' = then
      BY <1>0, <1>1, SameClaims
    <2> HIDE DEF now, then
    <2>2. Ahead(c6.job, c2, c1, c3, c4, c5)' <= now + (c8'.faults - c8.faults) \/ c8.echo = 0
      BY <1>1, <2>1
    <2> QED
      BY <1>0, <1>1, <2>2, BodyGoesOn DEF now
  <1>2. CASE Body!ReadComments
    <2> DEFINE new == Planned(c6.job, c4)
               claims == c4.claims
               warned == Body!Warning(c4.claims)
    <2>1. Body!FetchIssueComments(claims, warned) /\ c8' = c8
      BY <1>2 DEF Body!ReadComments
    <2>2. new = Body!BuildStatusBlock(c6.job, Body!ConnectorStates(claims))
      BY DEF Planned
    <2> HIDE DEF new, claims, warned
    <2>3. /\ c6.job.phase = "comments" /\ HubOK(c6') /\ NotesOK(c4') /\ c4'.claims = c4.claims
          /\ then = IF new = c6.job.old THEN due ELSE Coming(new, c2, c1, needed, c5)
      BY <2>1, <2>2, HubBuilds
    <2>4. now = then
      BY <2>3 DEF Ahead, Built, new
    <2> HIDE DEF now, then
    <2> QED
      BY <1>0, <1>1, <2>1, <2>3, <2>4
  <1>3. CASE Body!MissComments
    <2> DEFINE new == Body!BuildStatusBlock(c6.job, Body!ConnectorStates({}))
               warned == c4.warned
               plan == Planned(c6.job, c4)
               old == c6.job.old
               conn == Body!ConnectorStates(c4.claims)
               mine == c6.job.issue
               table == Body!Table(c6.job)
    <2>1. Body!FetchIssueComments({}, warned) /\ Body!Fault
      BY <1>3 DEF Body!MissComments
    <2>2. new = Body!BuildStatusBlock(c6.job, Body!ConnectorStates({})) /\ Body!ConnectorStates({}) = {}
      BY DEF Body!ConnectorStates, Body!Trusted
    <2> HIDE DEF new, warned
    <2>3. /\ c6.job.phase = "comments" /\ HubOK(c6') /\ NotesOK(c4') /\ c4'.claims = c4.claims
          /\ then = IF new = old THEN due ELSE Coming(new, c2, c1, needed, c5)
          /\ BodyOK(old)
          /\ new = [block |-> TRUE, ticked |-> mine \cup Body!ConnectorStates({}) \cup Body!Ticks(old), shown |-> table]
      BY <2>1, <2>2, HubBuilds
    <2>4. now = IF plan = old THEN due ELSE Coming(plan, c2, c1, needed, c5)
      BY <2>3 DEF Ahead, Built
    <2>5. plan = [block |-> TRUE, ticked |-> mine \cup conn \cup Body!Ticks(old), shown |-> table]
      <3> DEFINE ticked == mine \cup conn \cup Body!Ticks(old)
      <3>1. plan = Body!Upsert(old, ticked, table)
        BY DEF Planned, Body!BuildStatusBlock
      <3> HIDE DEF plan, ticked, table, old
      <3>2. plan = [block |-> TRUE, ticked |-> ticked, shown |-> table]
        BY <2>3, <3>1, Records
      <3> QED
        BY <3>2 DEF ticked
    <2>6. plan = old => new = old
      <3> SUFFICES ASSUME plan = old PROVE new = old
        OBVIOUS
      <3> HIDE DEF plan, old, mine, conn, table
      <3> DEFINE ticked == mine \cup conn \cup Body!Ticks(old)
      <3>0. old = [block |-> TRUE, ticked |-> ticked, shown |-> table]
        BY <2>5
      <3>1. old.block = TRUE /\ old.ticked = mine \cup conn \cup Body!Ticks(old) /\ old.shown = table
        <4> HIDE DEF ticked
        <4>1. old.block = TRUE /\ old.ticked = ticked /\ old.shown = table
          BY <3>0
        <4> QED
          BY <4>1 DEF ticked
      <3>2. Body!Ticks(old) = old.ticked
        BY <3>1 DEF Body!Ticks
      <3>3. mine \cup Body!ConnectorStates({}) \cup Body!Ticks(old) = old.ticked
        BY <2>2, <3>1, <3>2
      <3> QED
        BY <2>3, <3>1, <3>3 DEF BodyOK
    <2> HIDE DEF plan, old
    <2>7. due \in {0, 1, 2} /\ Due(new, c1, needed, Restarting(c5)) \in {0, 1, 2} /\ Due(plan, c1, needed, Restarting(c5)) \in {0, 1, 2}
      BY DueSmall
    <2>8. c8.echo # 0 => Due(new, c1, needed, Restarting(c5)) <= 1
      <3> SUFFICES ASSUME c8.echo # 0 PROVE Due(new, c1, needed, Restarting(c5)) <= 1
        OBVIOUS
      <3>1. c5.contract.live /\ ChecksOK(c5)
        BY BodyParts DEF BodyInv
      <3>2. Restarting(c5).contract.verdict = "cancelled"
        BY <3>1, Records
      <3> QED
        BY <3>2 DEF Due
    <2>9. then <= now + 1 \/ c8.echo = 0
      <3> HIDE DEF now, then, due, needed
      <3>1. /\ then = IF new = old THEN due ELSE 1 + Due(new, c1, needed, Restarting(c5))
            /\ now = IF plan = old THEN due ELSE 1 + Due(plan, c1, needed, Restarting(c5))
        BY <2>3, <2>4 DEF Coming
      <3> QED
        BY <2>6, <2>7, <2>8, <3>1
    <2> HIDE DEF now, then
    <2>10. c8' \in [echo : Nat, changes : Nat, faults : Nat] /\ c8'.echo = c8.echo /\ c8'.faults = c8.faults + 1
      BY <2>1, BodyFaults
    <2>11. c8'.faults >= c8.faults /\ c8'.faults - c8.faults = 1
      BY <1>0, <2>10
    <2> QED
      BY <1>0, <1>1, <2>3, <2>9, <2>10, <2>11
  <1> QED
    BY <1>2, <1>3

\* The body is written, or the job dies.
LEMMA HubWrites ==
    ASSUME BodyInv, Body!Write
    PROVE  BodyInv'
  <1> DEFINE new == c6.job.new
             idle == Body!Idle
             event == Body!Event("pull")
             needed == Needed(c3, c4)
             due == Due(new, c1, needed, Restarting(c5))
             echo == Body!Counted(c8.echo)
  <1>1. /\ c6.job.phase = "write" /\ c1' = c1 /\ c3' = c3 /\ c4' = c4 /\ c7' = c7
        /\ c2' = new /\ c5' = Restarting(c5)
        /\ c6' = Body!Queued([c6 EXCEPT !.job = idle], event) /\ c8' = [c8 EXCEPT !.echo = echo]
    BY DEF Body!Write, Body!Edited, Body!pull, Restarting
  <1>2. /\ BodyOK(new) /\ NotesOK(c4) /\ ChecksOK(c5) /\ HubOK(c6) /\ RoundOK(c7)
        /\ c8 \in [echo : Nat, changes : Nat, faults : Nat] /\ c8.echo \in Nat /\ c8.faults \in Nat
    BY <1>1, BodyParts DEF HubOK
  <1>3. echo \in Nat /\ echo <= c8.echo + 1
    BY <1>2 DEF Body!Counted
  <1>4. idle.phase = "idle"
    BY IdleHub
  <1> HIDE DEF idle, event, echo
  <1>5. HubOK([c6 EXCEPT !.job = idle]) /\ [c6 EXCEPT !.job = idle].job = idle
    BY <1>2, <1>4, HubTurns
  <1>6. HubOK(c6') /\ c6'.job = idle
    <2> DEFINE h == [c6 EXCEPT !.job = idle]
    <2>1. HubOK(h) /\ h.job = idle /\ c6' = Body!Queued(h, event)
      BY <1>1, <1>5
    <2> HIDE DEF h
    <2> QED
      BY <2>1, HubQueues
  <1>7. c8' \in [echo : Nat, changes : Nat, faults : Nat] /\ c8'.echo = echo /\ c8'.faults = c8.faults
    BY <1>1, <1>2, <1>3
  <1>8. ChecksOK(c5') /\ c5'.contract.live
    BY <1>1, <1>2, Records
  <1>9. Ahead(c6.job, c2, c1, c3, c4, c5)' = due
    <2>1. Ahead(c6'.job, c2', c1, c3, c4, c5') = Due(c2', c1, needed, c5')
      BY <1>4, <1>6 DEF Ahead
    <2>2. Due(c2', c1, needed, c5') = due
      BY <1>1
    <2> QED
      BY <1>1, <2>1, <2>2
  <1>10. Ahead(c6.job, c2, c1, c3, c4, c5) = 1 + due /\ due \in {0, 1, 2}
    BY <1>1, DueSmall DEF Ahead, Coming
  <1> HIDE DEF due, new
  <1>11. c8'.echo + Ahead(c6.job, c2, c1, c3, c4, c5)' <= 3 + c8'.faults
    BY <1>2, <1>3, <1>7, <1>9, <1>10, BodyParts
  <1> QED
    BY <1>1, <1>2, <1>6, <1>7, <1>8, <1>11 DEF BodyInv, BodyType

LEMMA HubDies ==
    ASSUME BodyInv, Body!Die
    PROVE  BodyInv'
  <1> DEFINE idle == Body!Idle
             needed == Needed(c3, c4)
             due == Due(c2, c1, needed, c5)
             now == Ahead(c6.job, c2, c1, c3, c4, c5)
  <1>1. /\ c1' = c1 /\ c2' = c2 /\ c3' = c3 /\ c4' = c4 /\ c5' = c5 /\ c7' = c7 /\ Body!Fault
        /\ c6' = [c6 EXCEPT !.job = idle]
    BY DEF Body!Die, Body!Job, Body!pull
  <1>2. NotesOK(c4) /\ HubOK(c6) /\ RoundOK(c7) /\ c8.faults \in Nat
    BY BodyParts
  <1>3. idle.phase = "idle"
    BY IdleHub
  <1> HIDE DEF idle
  <1>4. HubOK(c6') /\ c6'.job = idle
    BY <1>1, <1>2, <1>3, HubTurns
  <1>5. Ahead(c6.job, c2, c1, c3, c4, c5)' = due
    <2>1. Ahead(c6'.job, c2, c1, c3, c4, c5) = due
      BY <1>3, <1>4 DEF Ahead
    <2> QED
      BY <1>1, <2>1
  <1>6. due <= now + 1 /\ due \in {0, 1, 2} /\ now \in {0, 1, 2, 3}
    <2>1. \A new : Coming(new, c2, c1, needed, c5) \in {1, 2, 3}
      BY DueSmall DEF Coming
    <2>2. due \in {0, 1, 2} /\ now \in {0, 1, 2, 3}
      BY DueSmall, BodyParts
    <2>3. now = due \/ \E new : now = Coming(new, c2, c1, needed, c5)
      BY DEF Ahead, Built
    <2> HIDE DEF now, due
    <2> QED
      BY <2>1, <2>2, <2>3
  <1>7. c8' \in [echo : Nat, changes : Nat, faults : Nat] /\ c8'.echo = c8.echo /\ c8'.faults = c8.faults + 1
    BY <1>1, BodyFaults
  <1> HIDE DEF due, now
  <1>8. c8'.faults >= c8.faults /\ Ahead(c6.job, c2, c1, c3, c4, c5)' <= now + (c8'.faults - c8.faults)
    BY <1>2, <1>5, <1>6, <1>7
  <1> QED
    BY <1>1, <1>2, <1>4, <1>7, <1>8, BodyGoesOn DEF now

\* Edits of the body, by whom ever.
LEMMA BodyEdits ==
    ASSUME BodyInv, NEW new, BodyOK(new), Body!Edited(c6, new)
    PROVE  BodyOK(c2') /\ ChecksOK(c5') /\ HubOK(c6')
  <1> DEFINE event == Body!Event("pull")
  <1>1. c2' = new /\ c5' = Restarting(c5) /\ c6' = Body!Queued(c6, event)
    BY DEF Body!Edited, Restarting
  <1> HIDE DEF event
  <1>2. ChecksOK(c5) /\ HubOK(c6)
    BY BodyParts
  <1> QED
    BY <1>1, <1>2, Records, HubQueues

LEMMA Ticked ==
    ASSUME NEW b, BodyOK(b), NEW ticked
    PROVE  BodyOK([b EXCEPT !.ticked = ticked])
  <1> DEFINE new == [b EXCEPT !.ticked = ticked]
  <1>1. new = [b EXCEPT !.ticked = ticked]
    OBVIOUS
  <1> HIDE DEF new
  <1>2. new = [block |-> new.block, ticked |-> new.ticked, shown |-> new.shown] /\ new.block = b.block
    BY <1>1 DEF BodyOK
  <1>3. BodyOK(new)
    BY <1>2 DEF BodyOK
  <1> QED
    BY <1>3 DEF new

\* The reconciliation after a round.
LEMMA RoundWorks ==
    ASSUME BodyInv,
           \/ Body!ReadTasks \/ Body!LoseReconciliation
           \/ \E commits \in SUBSET Body!Tasks, llm \in SUBSET Body!Items : Body!AutoReconcile(commits, llm)
    PROVE  BodyInv'
  <1>0. /\ BodyOK(c2) /\ NotesOK(c4) /\ ChecksOK(c5) /\ HubOK(c6) /\ RoundOK(c7) /\ c8.faults \in Nat
        /\ c8 \in [echo : Nat, changes : Nat, faults : Nat]
    BY BodyParts
  <1>1. ASSUME c1' = c1, c2' = c2, c3' = c3, c4' = c4, c5' = c5, c6' = c6, RoundOK(c7'), c8' = c8 \/ Body!Fault
        PROVE  BodyInv'
    <2>1. /\ c8' \in [echo : Nat, changes : Nat, faults : Nat] /\ c8'.echo = c8.echo
          /\ c8'.faults \in {c8.faults, c8.faults + 1}
      BY <1>0, <1>1, BodyFaults
    <2>2. Ahead(c6.job, c2, c1, c3, c4, c5)' = Ahead(c6.job, c2, c1, c3, c4, c5)
      BY <1>1
    <2>3. c8'.faults >= c8.faults /\ Ahead(c6.job, c2, c1, c3, c4, c5)'
            <= Ahead(c6.job, c2, c1, c3, c4, c5) + (c8'.faults - c8.faults)
      BY <1>0, <2>1, <2>2, BodyParts
    <2> QED
      BY <1>0, <1>1, <2>1, <2>3, BodyGoesOn
  <1>2. RoundOK(Body!Idle)
    BY DEF RoundOK, Body!Idle
  <1>3. CASE Body!ReadTasks
    <2>1. c7' = [phase |-> "match", old |-> c2]
      BY <1>3 DEF Body!ReadTasks
    <2>2. RoundOK(c7')
      BY <1>0, <2>1 DEF RoundOK
    <2> QED
      BY <1>1, <1>3, <2>2 DEF Body!ReadTasks, Body!pull
  <1>4. CASE Body!LoseReconciliation
    BY <1>1, <1>2, <1>4 DEF Body!LoseReconciliation, Body!pull
  <1>5. CASE \E commits \in SUBSET Body!Tasks, llm \in SUBSET Body!Items : Body!AutoReconcile(commits, llm)
    <2>1. PICK commits, llm : Body!AutoReconcile(commits, llm)
      BY <1>5
    <2> DEFINE ticked == Body!Cascade(c7.old.ticked \cup (commits \cup llm))
               new == [c7.old EXCEPT !.ticked = ticked]
    <2>2. /\ c7 # Body!Idle /\ c7' = Body!Idle /\ c1' = c1 /\ c3' = c3 /\ c4' = c4
          /\ (c2' = c2 /\ c5' = c5 /\ c6' = c6 /\ c8' = c8) \/ (Body!Edited(c6, new) /\ Body!Changed)
      BY <2>1 DEF Body!AutoReconcile, Body!pull
    <2>3. BodyOK(c7.old)
      BY <1>0, <2>2 DEF RoundOK, Body!Idle
    <2>4. BodyOK(new)
      <3> HIDE DEF ticked
      <3> QED
        BY <2>3, Ticked
    <2> HIDE DEF new
    <2>5. CASE c2' = c2 /\ c5' = c5 /\ c6' = c6 /\ c8' = c8
      BY <1>1, <1>2, <2>2, <2>5
    <2>6. CASE Body!Edited(c6, new) /\ Body!Changed
      <3>1. BodyOK(c2') /\ ChecksOK(c5') /\ HubOK(c6')
        BY <2>4, <2>6, BodyEdits
      <3> QED
        BY <1>0, <1>2, <2>2, <2>6, <3>1, BodyChanges
    <2> QED
      BY <2>2, <2>5, <2>6
  <1> QED
    BY <1>3, <1>4, <1>5

\* People, agents and other workflows.
LEMMA PeopleChange ==
    ASSUME BodyInv,
           \/ \E i \in Body!Items : Body!Tick(i) \/ Body!TickIssue(i)
           \/ \E items \in SUBSET Body!Items \ {{}} : Body!PostCompletion(items)
           \/ \E c \in Body!Strangers : Body!Comments(c)
           \/ Body!Rewrite \/ Body!Link \/ Body!Push \/ Body!FinishContract \/ Body!DispatchHub \/ Body!Close
           \/ \E verdict \in {"success", "failure"} : Body!FinishGate(verdict)
    PROVE  BodyInv'
  <1>0. BodyOK(c2) /\ NotesOK(c4) /\ ChecksOK(c5) /\ HubOK(c6) /\ RoundOK(c7)
    BY BodyParts
  <1>1. Body!Changed /\ RoundOK(c7')
    BY <1>0 DEF Body!Tick, Body!TickIssue, Body!PostCompletion, Body!Comments, Body!Rewrite, Body!Link, Body!Push,
                Body!FinishContract, Body!DispatchHub, Body!Close, Body!FinishGate
  <1>2. ASSUME NEW new, BodyOK(new), Body!Edited(c6, new), c4' = c4 PROVE BodyInv'
    BY <1>0, <1>1, <1>2, BodyEdits, BodyChanges
  <1>3. ASSUME NEW event, c6' = c6 \/ c6' = Body!Queued(c6, event), c2' = c2, NotesOK(c4'), ChecksOK(c5')
        PROVE  BodyInv'
    <2>1. HubOK(Body!Queued(c6, event))
      BY <1>0, HubQueues
    <2>2. HubOK(c6')
      BY <1>0, <1>3, <2>1, Zenon
    <2> QED
      BY <1>0, <1>1, <1>3, <2>2, BodyChanges
  <1>4. ASSUME NEW claims, c4' = [c4 EXCEPT !.claims = claims] PROVE NotesOK(c4')
    BY <1>0, <1>4 DEF NotesOK
  <1>5. ASSUME NEW i \in Body!Items, Body!Tick(i) PROVE BodyInv'
    <2> DEFINE ticked == IF i \notin c2.ticked THEN c2.ticked \cup {i} ELSE c2.ticked \ {i}
               new == [c2 EXCEPT !.ticked = ticked]
    <2>1. Body!Edited(c6, new) /\ c4' = c4
      BY <1>5 DEF Body!Tick, Body!pull
    <2>2. BodyOK(new)
      <3> HIDE DEF ticked
      <3> QED
        BY <1>0, Ticked
    <2> HIDE DEF new
    <2> QED
      BY <1>2, <2>1, <2>2
  <1>6. ASSUME NEW items, Body!PostCompletion(items) PROVE BodyInv'
    <2> DEFINE own == {c \in c4.claims : c.by \in Body!Bots}
               claims == (c4.claims \ own) \cup {[by |-> "codex", item |-> i, marked |-> FALSE] : i \in items}
               event == Body!Event("comment")
    <2>1. /\ c4' = [c4 EXCEPT !.claims = claims] /\ (c6' = c6 \/ c6' = Body!Queued(c6, event))
          /\ c2' = c2 /\ c5' = c5
      BY <1>6 DEF Body!PostCompletion
    <2> HIDE DEF claims, event
    <2>2. NotesOK(c4')
      BY <1>4, <2>1
    <2> QED
      BY <1>0, <1>3, <2>1, <2>2
  <1>7. ASSUME NEW c, Body!Comments(c) PROVE BodyInv'
    <2> DEFINE claims == c4.claims \cup {c}
               event == Body!Event("comment")
    <2>1. /\ c4' = [c4 EXCEPT !.claims = claims] /\ c6' = Body!Queued(c6, event)
          /\ c2' = c2 /\ c5' = c5
      BY <1>7 DEF Body!Comments
    <2> HIDE DEF claims, event
    <2>2. NotesOK(c4')
      BY <1>4, <2>1
    <2> QED
      BY <1>0, <1>3, <2>1, <2>2
  <1>8. CASE Body!Rewrite
    <2>1. BodyOK(Body!NewBody)
      BY DEF BodyOK, Body!NewBody
    <2>2. Body!Edited(c6, Body!NewBody) /\ c4' = c4
      BY <1>8 DEF Body!Rewrite, Body!pull
    <2> QED
      BY <1>2, <2>1, <2>2
  <1>9. CASE Body!Link
    <2>1. Body!Edited(c6, c2) /\ c4' = c4
      BY <1>9 DEF Body!Link
    <2> QED
      BY <1>0, <1>2, <2>1
  <1>10. CASE Body!Push
    <2> DEFINE event == [kind |-> "pull", head |-> 2]
               new == [verdict |-> "none", live |-> TRUE, run |-> 0]
    <2>1. c6' = Body!Queued(c6, event) /\ c2' = c2 /\ c4' = c4 /\ c5' = [gate |-> "running", contract |-> new]
      BY <1>10 DEF Body!Push, Body!Contract
    <2>2. new = [verdict |-> new.verdict, live |-> new.live, run |-> new.run] /\ new.live = TRUE
      OBVIOUS
    <2> HIDE DEF event, new
    <2>3. c5'.gate = "running" /\ c5'.contract = new
      BY <2>1
    <2>4. ChecksOK(c5')
      BY <2>1, <2>2, <2>3 DEF ChecksOK
    <2> QED
      BY <1>0, <1>3, <2>1, <2>4
  <1>11. CASE Body!FinishContract
    <2> DEFINE new == [c5.contract EXCEPT !.live = FALSE, !.verdict = "success"]
    <2>1. c6' = c6 /\ c2' = c2 /\ c4' = c4 /\ c5' = [c5 EXCEPT !.contract = new]
      BY <1>0, <1>11 DEF Body!FinishContract, Body!pull, ChecksOK
    <2>2. new = [c5.contract EXCEPT !.live = FALSE, !.verdict = "success"]
      OBVIOUS
    <2> HIDE DEF new
    <2>3. new = [verdict |-> new.verdict, live |-> new.live, run |-> new.run]
      BY <1>0, <2>2 DEF ChecksOK
    <2>4. new.live = FALSE
      BY <1>0, <2>2 DEF ChecksOK
    <2>5. c5' = [gate |-> c5'.gate, contract |-> c5'.contract] /\ c5'.contract = new
      BY <1>0, <2>1 DEF ChecksOK
    <2>6. ChecksOK(c5')
      BY <2>3, <2>4, <2>5 DEF ChecksOK
    <2> QED
      BY <1>0, <1>3, <2>1, <2>6
  <1>12. CASE Body!DispatchHub \/ Body!Close \/ \E i \in Body!Items : Body!TickIssue(i)
    <2> DEFINE event == Body!Event("dispatch")
    <2>1. (c6' = c6 \/ c6' = Body!Queued(c6, event)) /\ c2' = c2 /\ c4' = c4 /\ c5' = c5
      BY <1>12 DEF Body!DispatchHub, Body!Close, Body!TickIssue, Body!pull
    <2> HIDE DEF event
    <2> QED
      BY <1>0, <1>3, <2>1
  <1>13. ASSUME NEW verdict, Body!FinishGate(verdict) PROVE BodyInv'
    <2> DEFINE event == Body!Event("gate")
    <2>1. c6' = Body!Queued(c6, event) /\ c2' = c2 /\ c4' = c4 /\ c5' = [c5 EXCEPT !.gate = verdict]
      BY <1>13 DEF Body!FinishGate, Body!pull
    <2> HIDE DEF event
    <2>2. c5' = [gate |-> c5'.gate, contract |-> c5'.contract] /\ c5'.contract = c5.contract
      BY <1>0, <2>1 DEF ChecksOK
    <2>3. ChecksOK(c5')
      BY <1>0, <2>2 DEF ChecksOK
    <2> QED
      BY <1>0, <1>3, <2>1, <2>3
  <1> QED
    BY <1>5, <1>6, <1>7, <1>8, <1>9, <1>10, <1>11, <1>12, <1>13

LEMMA BodyStep ==
    ASSUME BodyInv, [Body!Next]_cells
    PROVE  BodyInv'
  <1>1. CASE UNCHANGED cells
    BY <1>1 DEF cells, BodyInv, BodyType
  <1>2. CASE Body!Next
    BY <1>2, HubReads, HubComments, HubWrites, HubDies, RoundWorks, PeopleChange DEF Body!Next
  <1> QED
    BY <1>1, <1>2

LEMMA BodyStart == Body!Init => BodyInv
  <1> SUFFICES ASSUME Body!Init PROVE BodyInv
    OBVIOUS
  <1> DEFINE idle == Body!Idle
             contract == [verdict |-> "none", live |-> TRUE, run |-> 0]
             waiting == [kind |-> "pull", head |-> 1]
  <1>1. /\ c2 = [block |-> FALSE, ticked |-> {}, shown |-> <<>>]
        /\ c4 = [claims |-> {}, repair |-> "none", warned |-> "none"]
        /\ c5 = [gate |-> "running", contract |-> contract]
        /\ c6 = [job |-> idle, waiting |-> waiting] /\ c7 = idle
        /\ c8 = [echo |-> 0, changes |-> 0, faults |-> 0]
    BY DEF Body!Init, Body!NewBody, Body!Contract
  <1>2. idle.phase = "idle" /\ idle = [phase |-> "idle"]
    BY DEF Body!Idle
  <1>3. contract = [verdict |-> contract.verdict, live |-> contract.live, run |-> contract.run] /\ contract.live = TRUE
    OBVIOUS
  <1> HIDE DEF idle, contract, waiting
  <1>4. BodyOK(c2) /\ NotesOK(c4) /\ RoundOK(c7)
    BY <1>1, <1>2 DEF BodyOK, NotesOK, RoundOK
  <1>5. ChecksOK(c5)
    <2>1. c5.contract = contract /\ c5 = [gate |-> c5.gate, contract |-> c5.contract]
      BY <1>1
    <2> QED
      BY <1>3, <2>1 DEF ChecksOK
  <1>6. HubOK(c6)
    <2>1. c6.job = idle /\ c6 = [job |-> c6.job, waiting |-> c6.waiting]
      BY <1>1
    <2> QED
      BY <1>2, <2>1 DEF HubOK
  <1>7. c8 \in [echo : Nat, changes : Nat, faults : Nat] /\ c8.echo = 0 /\ c8.faults = 0
    BY <1>1
  <1>8. c8.echo + Ahead(c6.job, c2, c1, c3, c4, c5) <= 3 + c8.faults
    BY <1>7, AheadSmall
  <1> QED
    BY <1>4, <1>5, <1>6, <1>7, <1>8 DEF BodyInv, BodyType

LEMMA BodyInvariance == Spec => [](Rewriting => BodyInv)
  <1>1. Init => (Rewriting => BodyInv)
    BY BodyStart DEF Init, Rewriting
  <1>2. [Next]_<<part, cells>> => (Rewriting <=> Rewriting')
    BY DEF Next, Rewriting, cells
  <1>3. [Next]_<<part, cells>> /\ Rewriting => [Body!Next]_cells
    BY DEF Next, Rewriting, cells
  <1>4. (Rewriting => BodyInv) /\ [Next]_<<part, cells>> => (Rewriting => BodyInv)'
    BY <1>2, <1>3, BodyStep
  <1> QED
    BY <1>1, <1>4, PTL DEF Spec

\* After a change from outside the sync writes the body at most three times, and
\* once more for each call that failed, for any number of changes and faults
\* (runPullRequestSync, buildStatusBlock, the concurrency of the hub).
THEOREM BodySettlesAlways == Spec => []BodySettles
  <1>1. BodyInv => Body!BodySettles
    BY BodyParts DEF Body!BodySettles
  <1>2. (Rewriting => BodyInv) => BodySettles
    BY <1>1 DEF Rewriting, BodySettles
  <1> QED
    BY <1>2, BodyInvariance, PTL

-----------------------------------------------------------------------------
(* VerificationRuns: c1 is the request and the CI, c2 the rows, c3 the runs,*)
(* c4 how much of the bounds is used.                                       *)

Verifying == part = "verification"

Verified == [request : 0..2, ci : {"green", "red", "none"}, evidence : 0..1]
AttemptIds == Nat \X Nat
RowKinds == {"pending", "unused", "kept", "terminal", "unposted", "unsure", "repair"}
RowRecords == [att : AttemptIds, kind : RowKinds, event : Verified, parent : Verified, key : AttemptIds]
RunAsks == [kind : {"evaluate", "recover", "repair"}, parent : Verified, evidence : 0..1, source : AttemptIds]
TryPhases == {"queued", "read", "go", "pended", "evaluating", "clear", "late", "over"}
Tries == [phase : TryPhases, seen : SUBSET RowRecords, event : Verified, barred : SUBSET AttemptIds,
          pended : BOOLEAN, evaluated : BOOLEAN, publishing : BOOLEAN, kept : BOOLEAN]
VerifierRuns == [ask : RunAsks, attempts : Seq(Tries)]

\* The attempts of the runs q, and the rows R.
Begun(q) == {a \in {<<r, n>> : r \in DOMAIN q, n \in 1..Events} : a[2] <= Len(q[a[1]].attempts)}
Tried(q, a) == q[a[1]].attempts[a[2]]
AskOf(q, a) == q[a[1]].ask
EndedOne(t) == t.phase \in {"over", "late"}
KeyOf(ask) == IF ask.kind = "recover" THEN ask.source ELSE <<0, 0>>
RowOf(q, a, kind) ==
    [att |-> a, kind |-> kind, event |-> Tried(q, a).event, parent |-> AskOf(q, a).parent, key |-> KeyOf(AskOf(q, a))]
\* An attempt that never asked a provider, and will not.
Harmless(q, a) == a \in Begun(q) /\ EndedOne(Tried(q, a)) /\ ~Tried(q, a).evaluated

\* The answers that a run uses are of an earlier run.
SourceOK(q, r) ==
    q[r].ask.kind \in {"recover", "repair"} => q[r].ask.source \in Begun(q) /\ q[r].ask.source[1] < r
TryOK(R, q, a) ==
    /\ Tried(q, a).seen \subseteq R
    /\ Tried(q, a).phase \in {"queued", "read", "go", "pended"} => ~Tried(q, a).evaluated
    /\ Tried(q, a).phase = "evaluating" => AskOf(q, a).kind = "evaluate"
    /\ Tried(q, a).phase = "late" => Tried(q, a).publishing
    /\ Tried(q, a).phase = "clear" /\ AskOf(q, a).kind = "recover" => Tried(q, a).publishing
    /\ Tried(q, a).publishing => AskOf(q, a).kind = "recover" /\ Tried(q, a).phase \in {"clear", "late", "over"}
    /\ AskOf(q, a).kind = "recover" /\ Tried(q, a).phase \in {"pended", "clear", "late"} => RowOf(q, a, "pending") \in R
    /\ \A b \in Tried(q, a).barred : Harmless(q, b)
\* A row says what its attempt did, or is the mark of a repair.
RowOK(R, q, r) ==
    /\ r.att \in Begun(q)
    /\ r.kind # "repair" => r = RowOf(q, r.att, r.kind) /\ Tried(q, r.att).phase \notin {"queued", "read", "go"}
    /\ r.kind = "unused" => Harmless(q, r.att)
    /\ r.kind \in {"terminal", "unposted"} => Tried(q, r.att).phase = "over"
    /\ r.kind = "unposted" => \A s \in R : s.att = r.att => s.kind # "terminal"
    /\ r.kind = "terminal" /\ AskOf(q, r.att).kind = "recover" =>
          Tried(q, r.att).publishing /\ RowOf(q, r.att, "pending") \in R
\* The report of an attempt is posted, or may yet be.
Posting(R, q, a) ==
    /\ AskOf(q, a).kind = "recover"
    /\ Tried(q, a).phase \in {"clear", "late"} \/ \E r \in R : r.kind = "terminal" /\ r.att = a
SameReport(q, a, b) == Tried(q, a).event = Tried(q, b).event /\ AskOf(q, a).source = AskOf(q, b).source
Unsure(R, a) == \E u \in R : u.kind = "unsure" /\ u.att = a
PostedOnce(R, q) ==
    \A a, b \in Begun(q) :
        a # b /\ Posting(R, q, a) /\ Posting(R, q, b) /\ SameReport(q, a, b) => Unsure(R, a) \/ Unsure(R, b)

\* The rows and the runs together.
HistoryOK(R, q) ==
    /\ R \subseteq RowRecords /\ q \in Seq(VerifierRuns)
    /\ \A r \in DOMAIN q : SourceOK(q, r)
    /\ \A a \in Begun(q) : TryOK(R, q, a)
    /\ \A r \in R : RowOK(R, q, r)
    /\ PostedOnce(R, q)
VerifierInv == c1 \in [request : 0..1, ci : {"green", "red"}] /\ HistoryOK(c2, c3)

\* The attempts and their records, in the words of the invariant.
LEMMA TriesAre ==
    ASSUME NEW q \in Seq(VerifierRuns), NEW a \in Begun(q)
    PROVE  /\ a[1] \in DOMAIN q /\ a[1] \in Nat /\ a[2] \in Nat /\ a[2] # 0 /\ a[2] <= Events
           /\ a[1] <= Len(q) /\ a[2] <= Len(q[a[1]].attempts) /\ a[2] \in DOMAIN q[a[1]].attempts
           /\ a = <<a[1], a[2]>> /\ a \in AttemptIds
           /\ q[a[1]] \in VerifierRuns /\ q[a[1]].attempts \in Seq(Tries)
           /\ Tried(q, a) \in Tries /\ AskOf(q, a) \in RunAsks
  <1>1. PICK r \in DOMAIN q, n \in 1..Events : a = <<r, n>> /\ n <= Len(q[r].attempts)
    BY DEF Begun
  <1>2. r \in Nat /\ r <= Len(q) /\ n \in Nat /\ n # 0 /\ n <= Events
    BY ServicesAssumption
  <1>3. q[r] \in VerifierRuns
    OBVIOUS
  <1>4. q[r].attempts \in Seq(Tries) /\ q[r].ask \in RunAsks
    BY <1>3 DEF VerifierRuns
  <1>5. n \in DOMAIN q[r].attempts
    BY <1>1, <1>2, <1>4
  <1>6. q[r].attempts[n] \in Tries
    BY <1>4, <1>5
  <1> QED
    BY <1>1, <1>2, <1>3, <1>4, <1>5, <1>6 DEF Tried, AskOf, AttemptIds
LEMMA TriesOf ==
    ASSUME NEW q \in Seq(VerifierRuns), NEW r \in DOMAIN q, NEW n \in Nat, n # 0, n <= Events, n <= Len(q[r].attempts)
    PROVE  <<r, n>> \in Begun(q)
  <1>1. n \in 1..Events
    BY ServicesAssumption
  <1>2. <<r, n>> \in {<<s, m>> : s \in DOMAIN q, m \in 1..Events}
    BY <1>1
  <1>3. <<r, n>>[2] = n /\ <<r, n>>[1] = r
    OBVIOUS
  <1> QED
    BY <1>2, <1>3 DEF Begun

LEMMA VerifierWords ==
    /\ Verification!Attempts = Begun(c3)
    /\ \A a : Verification!Att(a) = Tried(c3, a) /\ Verification!Ask(a) = AskOf(c3, a)
    /\ \A a : Verification!Over(a) <=> EndedOne(Tried(c3, a))
    /\ \A a, kind : Verification!Row(a, kind) = RowOf(c3, a, kind)
  BY DEF Verification!Attempts, Verification!Ids, Verification!Att, Verification!Ask, Verification!Over,
         Verification!Row, Verification!Nobody, Begun, Tried, AskOf, EndedOne, RowOf, KeyOf

\* One attempt goes on.
TurnOf(q, a, new) == [q EXCEPT ![a[1]].attempts[a[2]] = new]
LEMMA OneTry ==
    ASSUME NEW q \in Seq(VerifierRuns), NEW a \in Begun(q), NEW new \in Tries
    PROVE  LET d == TurnOf(q, a, new)
           IN  /\ d \in Seq(VerifierRuns) /\ DOMAIN d = DOMAIN q /\ Begun(d) = Begun(q)
               /\ \A r \in DOMAIN q : d[r].ask = q[r].ask
               /\ Tried(d, a) = new
               /\ \A b \in Begun(q) : b # a => Tried(d, b) = Tried(q, b)
               /\ \A b \in Begun(q) : AskOf(d, b) = AskOf(q, b)
  <1> DEFINE r == a[1]
             n == a[2]
             old == q[r]
             list == [old.attempts EXCEPT ![n] = new]
             run == [old EXCEPT !.attempts = list]
             d == TurnOf(q, a, new)
  <1>1. /\ r \in DOMAIN q /\ n \in DOMAIN old.attempts /\ old \in VerifierRuns /\ old.attempts \in Seq(Tries)
        /\ a = <<r, n>>
    BY TriesAre
  <1>2. d = [q EXCEPT ![r] = run]
    BY DEF TurnOf
  <1>3. list \in Seq(Tries) /\ Len(list) = Len(old.attempts) /\ DOMAIN list = DOMAIN old.attempts /\ list[n] = new
        /\ \A m : m \in DOMAIN old.attempts /\ m # n => list[m] = old.attempts[m]
    BY <1>1
  <1> HIDE DEF list
  <1>4. run = [ask |-> old.ask, attempts |-> list]
    BY <1>1 DEF VerifierRuns
  <1>5. run \in VerifierRuns /\ run.ask = old.ask /\ run.attempts = list
    BY <1>1, <1>3, <1>4 DEF VerifierRuns
  <1> HIDE DEF run, d
  <1>6. d \in Seq(VerifierRuns) /\ DOMAIN d = DOMAIN q /\ d[r] = run /\ \A s \in DOMAIN q : s # r => d[s] = q[s]
    BY <1>1, <1>2, <1>5
  <1>7. \A s \in DOMAIN q : d[s].ask = q[s].ask /\ Len(d[s].attempts) = Len(q[s].attempts)
    BY <1>3, <1>5, <1>6
  <1>8. Begun(d) = Begun(q)
    <2>1. \A b \in {<<s, m>> : s \in DOMAIN q, m \in 1..Events} : b[1] \in DOMAIN q
      OBVIOUS
    <2> QED
      BY <1>6, <1>7, <2>1 DEF Begun
  <1>9. Tried(d, a) = new
    BY <1>1, <1>3, <1>5, <1>6 DEF Tried
  <1>10. ASSUME NEW b \in Begun(q) PROVE (b # a => Tried(d, b) = Tried(q, b)) /\ AskOf(d, b) = AskOf(q, b)
    <2>1. b[1] \in DOMAIN q /\ b[2] \in DOMAIN q[b[1]].attempts /\ b = <<b[1], b[2]>>
      BY TriesAre
    <2>2. AskOf(d, b) = AskOf(q, b)
      BY <1>7, <2>1 DEF AskOf
    <2>3. CASE b[1] # r
      BY <1>6, <2>1, <2>2, <2>3 DEF Tried
    <2>4. CASE b[1] = r
      <3>1. b # a => b[2] # n
        BY <1>1, <2>1, <2>4
      <3>2. b # a => list[b[2]] = old.attempts[b[2]]
        BY <1>3, <2>1, <2>4, <3>1
      <3> QED
        BY <1>5, <1>6, <2>2, <2>4, <3>2 DEF Tried
    <2> QED
      BY <2>3, <2>4
  <1>11. /\ d \in Seq(VerifierRuns) /\ DOMAIN d = DOMAIN q /\ Begun(d) = Begun(q)
         /\ \A s \in DOMAIN q : d[s].ask = q[s].ask
         /\ Tried(d, a) = new
         /\ \A b \in Begun(q) : b # a => Tried(d, b) = Tried(q, b)
         /\ \A b \in Begun(q) : AskOf(d, b) = AskOf(q, b)
    BY <1>6, <1>7, <1>8, <1>9, <1>10
  <1> QED
    BY <1>11 DEF d

\* How the attempt a goes on, to new, and adds rows, so that all stays right.
AsRecorded(q, a, new, x) ==
    /\ x.att = a /\ x = RowOf(q, a, x.kind) /\ new.event = Tried(q, a).event
    /\ new.phase \notin {"queued", "read", "go"}
    /\ x.kind = "unused" => new.phase = "over" /\ ~new.evaluated
    /\ x.kind \in {"terminal", "unposted"} => new.phase = "over"
TryGoesOn(q, a, new) ==
    /\ Tried(q, a).phase # "over"
    /\ Tried(q, a).phase = "late" => new.phase = "over" /\ new.evaluated = Tried(q, a).evaluated
    /\ Tried(q, a).phase \notin {"queued", "read"} => new.event = Tried(q, a).event
    /\ Tried(q, a).phase \notin {"queued", "read", "go"} => new.phase \notin {"queued", "read", "go"}
    /\ new.phase \in {"queued", "read", "go", "pended"} => ~new.evaluated
    /\ new.phase = "evaluating" => AskOf(q, a).kind = "evaluate"
    /\ new.phase = "late" => new.publishing
    /\ new.phase = "clear" /\ AskOf(q, a).kind = "recover" => new.publishing
    /\ new.publishing => AskOf(q, a).kind = "recover" /\ new.phase \in {"clear", "late", "over"}
    /\ \A b \in new.barred : Harmless(q, b)
AloneIn(R, q, a) ==
    Tried(q, a).phase \in {"clear", "late"} \/
    \A b \in Begun(q) : b # a /\ Posting(R, q, b) /\ SameReport(q, a, b) => Unsure(R, b)
Follows(R, q, a, new, more) ==
    /\ TryGoesOn(q, a, new) /\ new.seen \subseteq R
    /\ more \subseteq RowRecords /\ \A x, y \in more : x.kind = y.kind
    /\ \A x \in more : (x.kind = "repair" /\ x.att \in Begun(q)) \/ AsRecorded(q, a, new, x)
    /\ AskOf(q, a).kind = "recover" =>
          /\ new.phase \in {"pended", "clear", "late"} =>
                new.event = Tried(q, a).event /\ RowOf(q, a, "pending") \in R \cup more
          /\ "terminal" \in {x.kind : x \in more} => new.publishing /\ RowOf(q, a, "pending") \in R
          /\ new.phase \in {"clear", "late"} \/ "terminal" \in {x.kind : x \in more} => AloneIn(R, q, a)

LEMMA HarmlessStays ==
    ASSUME NEW q \in Seq(VerifierRuns), NEW a \in Begun(q), NEW new \in Tries, TryGoesOn(q, a, new)
    PROVE  \A b : Harmless(q, b) => Harmless(TurnOf(q, a, new), b)
  <1> DEFINE d == TurnOf(q, a, new)
  <1>1. Begun(d) = Begun(q) /\ Tried(d, a) = new /\ \A b \in Begun(q) : b # a => Tried(d, b) = Tried(q, b)
    BY OneTry
  <1> HIDE DEF d
  <1>2. ASSUME NEW b, Harmless(q, b) PROVE Harmless(d, b)
    <2>1. CASE b # a
      BY <1>1, <1>2, <2>1 DEF Harmless
    <2>2. CASE b = a
      <3>1. Tried(q, a).phase = "late" /\ ~Tried(q, a).evaluated
        BY <1>2, <2>2 DEF Harmless, EndedOne, TryGoesOn
      <3>2. new.phase = "over" /\ ~new.evaluated
        BY <3>1 DEF TryGoesOn
      <3> QED
        BY <1>1, <2>2, <3>2 DEF Harmless, EndedOne
    <2> QED
      BY <2>1, <2>2
  <1> QED
    BY <1>2 DEF d

\* What is recorded of the other attempts does not change, nor what of this one.
LEMMA RowsStay ==
    ASSUME NEW R, NEW q \in Seq(VerifierRuns), NEW a \in Begun(q), NEW new \in Tries, NEW more,
           HistoryOK(R, q), Follows(R, q, a, new, more)
    PROVE  LET d == TurnOf(q, a, new)
           IN  /\ \A b \in Begun(q) : AskOf(d, b) = AskOf(q, b)
               /\ \A b \in Begun(q), kind \in RowKinds : b # a => RowOf(d, b, kind) = RowOf(q, b, kind)
               /\ \A kind \in RowKinds : new.event = Tried(q, a).event => RowOf(d, a, kind) = RowOf(q, a, kind)
               /\ \A r \in R : /\ r.att \in Begun(q) /\ r.kind \in RowKinds
                               /\ r.kind # "repair" => r = RowOf(d, r.att, r.kind)
                               /\ r.kind # "repair" => Tried(d, r.att).phase \notin {"queued", "read", "go"}
                               /\ r.kind \in {"terminal", "unposted"} => r.att # a /\ Tried(d, r.att).phase = "over"
  <1> DEFINE d == TurnOf(q, a, new)
  <1>1. /\ Begun(d) = Begun(q) /\ Tried(d, a) = new /\ \A b \in Begun(q) : b # a => Tried(d, b) = Tried(q, b)
        /\ \A b \in Begun(q) : AskOf(d, b) = AskOf(q, b)
    BY OneTry
  <1> HIDE DEF d
  <1>2. \A b \in Begun(q), kind \in RowKinds : b # a => RowOf(d, b, kind) = RowOf(q, b, kind)
    BY <1>1 DEF RowOf
  <1>3. \A kind \in RowKinds : new.event = Tried(q, a).event => RowOf(d, a, kind) = RowOf(q, a, kind)
    BY <1>1 DEF RowOf
  <1>4. ASSUME NEW r \in R
        PROVE  /\ r.att \in Begun(q) /\ r.kind \in RowKinds
               /\ r.kind # "repair" => r = RowOf(d, r.att, r.kind)
               /\ r.kind # "repair" => Tried(d, r.att).phase \notin {"queued", "read", "go"}
               /\ r.kind \in {"terminal", "unposted"} => r.att # a /\ Tried(d, r.att).phase = "over"
    <2>1. RowOK(R, q, r) /\ r \in RowRecords
      BY DEF HistoryOK
    <2>2. r.att \in Begun(q) /\ r.kind \in RowKinds
      BY <2>1 DEF RowOK, RowRecords
    <2>3. r.kind \in {"terminal", "unposted"} => r.att # a /\ Tried(d, r.att).phase = "over"
      BY <1>1, <2>1, <2>2 DEF RowOK, Follows, TryGoesOn
    <2>4. r.kind # "repair" => r = RowOf(q, r.att, r.kind) /\ Tried(q, r.att).phase \notin {"queued", "read", "go"}
      BY <2>1 DEF RowOK
    <2>5. r.kind # "repair" /\ r.att = a => new.event = Tried(q, a).event /\ new.phase \notin {"queued", "read", "go"}
      BY <2>4 DEF Follows, TryGoesOn
    <2>6. r.kind # "repair" => RowOf(d, r.att, r.kind) = RowOf(q, r.att, r.kind)
      BY <1>2, <1>3, <2>2, <2>5
    <2>7. r.kind # "repair" => Tried(d, r.att).phase \notin {"queued", "read", "go"}
      BY <1>1, <2>2, <2>4, <2>5
    <2> QED
      BY <2>2, <2>3, <2>4, <2>6, <2>7
  <1>5. /\ \A b \in Begun(q) : AskOf(d, b) = AskOf(q, b)
        /\ \A b \in Begun(q), kind \in RowKinds : b # a => RowOf(d, b, kind) = RowOf(q, b, kind)
        /\ \A kind \in RowKinds : new.event = Tried(q, a).event => RowOf(d, a, kind) = RowOf(q, a, kind)
        /\ \A r \in R : /\ r.att \in Begun(q) /\ r.kind \in RowKinds
                        /\ r.kind # "repair" => r = RowOf(d, r.att, r.kind)
                        /\ r.kind # "repair" => Tried(d, r.att).phase \notin {"queued", "read", "go"}
                        /\ r.kind \in {"terminal", "unposted"} => r.att # a /\ Tried(d, r.att).phase = "over"
    BY <1>1, <1>2, <1>3, <1>4
  <1> QED
    BY <1>5 DEF d

\* The attempts stay right.
LEMMA TriesStay ==
    ASSUME NEW R, NEW q \in Seq(VerifierRuns), NEW a \in Begun(q), NEW new \in Tries, NEW more,
           HistoryOK(R, q), Follows(R, q, a, new, more)
    PROVE  LET d == TurnOf(q, a, new)
           IN  \A b \in Begun(d) : TryOK(R \cup more, d, b)
  <1> DEFINE d == TurnOf(q, a, new)
             S == R \cup more
  <1>1. /\ Begun(d) = Begun(q) /\ Tried(d, a) = new /\ \A b \in Begun(q) : b # a => Tried(d, b) = Tried(q, b)
        /\ \A b \in Begun(q) : AskOf(d, b) = AskOf(q, b)
    BY OneTry
  <1>2. /\ \A b \in Begun(q), kind \in RowKinds : b # a => RowOf(d, b, kind) = RowOf(q, b, kind)
        /\ \A kind \in RowKinds : new.event = Tried(q, a).event => RowOf(d, a, kind) = RowOf(q, a, kind)
    BY RowsStay
  <1>3. \A b : Harmless(q, b) => Harmless(d, b)
    BY HarmlessStays DEF Follows
  <1>4. R \subseteq S /\ "pending" \in RowKinds
    BY DEF RowKinds
  <1> HIDE DEF d
  <1>5. TryOK(S, d, a)
    <2>1. AskOf(q, a).kind = "recover" /\ new.phase \in {"pended", "clear", "late"} => RowOf(d, a, "pending") \in S
      BY <1>2, <1>4 DEF Follows
    <2> QED
      BY <1>1, <1>3, <1>4, <2>1 DEF TryOK, Follows, TryGoesOn
  <1>6. ASSUME NEW b \in Begun(q), b # a PROVE TryOK(S, d, b)
    <2>1. TryOK(R, q, b)
      BY DEF HistoryOK
    <2>2. Tried(d, b) = Tried(q, b) /\ AskOf(d, b) = AskOf(q, b) /\ RowOf(d, b, "pending") = RowOf(q, b, "pending")
      BY <1>1, <1>2, <1>4, <1>6
    <2> QED
      BY <1>3, <1>4, <2>1, <2>2 DEF TryOK
  <1>7. \A b \in Begun(d) : TryOK(S, d, b)
    BY <1>1, <1>5, <1>6
  <1> QED
    BY <1>7 DEF d

\* So do the rows, the old ones and the new.
LEMMA RowsStayRight ==
    ASSUME NEW R, NEW q \in Seq(VerifierRuns), NEW a \in Begun(q), NEW new \in Tries, NEW more,
           HistoryOK(R, q), Follows(R, q, a, new, more)
    PROVE  LET d == TurnOf(q, a, new)
           IN  \A r \in R \cup more : RowOK(R \cup more, d, r)
  <1> DEFINE d == TurnOf(q, a, new)
             S == R \cup more
  <1>1. /\ Begun(d) = Begun(q) /\ Tried(d, a) = new /\ \A b \in Begun(q) : b # a => Tried(d, b) = Tried(q, b)
        /\ \A b \in Begun(q) : AskOf(d, b) = AskOf(q, b)
    BY OneTry
  <1>2. /\ \A b \in Begun(q), kind \in RowKinds : b # a => RowOf(d, b, kind) = RowOf(q, b, kind)
        /\ \A kind \in RowKinds : new.event = Tried(q, a).event => RowOf(d, a, kind) = RowOf(q, a, kind)
        /\ \A r \in R : /\ r.att \in Begun(q) /\ r.kind \in RowKinds
                        /\ r.kind # "repair" => r = RowOf(d, r.att, r.kind)
                        /\ r.kind # "repair" => Tried(d, r.att).phase \notin {"queued", "read", "go"}
                        /\ r.kind \in {"terminal", "unposted"} => r.att # a /\ Tried(d, r.att).phase = "over"
    BY RowsStay
  <1>3. \A b : Harmless(q, b) => Harmless(d, b)
    BY HarmlessStays DEF Follows
  <1>4. R \subseteq S /\ "pending" \in RowKinds
    BY DEF RowKinds
  <1> HIDE DEF d
  <1>5. ASSUME NEW r \in R PROVE RowOK(S, d, r)
    <2>1. RowOK(R, q, r)
      BY DEF HistoryOK
    <2>2. r.att \in Begun(q) /\ r.kind \in RowKinds
      BY <1>2
    <2>3. r.kind = "unposted" => \A s \in S : s.att = r.att => s.kind # "terminal"
      <3>1. r.kind = "unposted" => r.att # a
        BY <1>2
      <3>2. \A s \in more : s.att = a \/ s.kind = "repair"
        BY DEF Follows, AsRecorded
      <3> QED
        BY <2>1, <3>1, <3>2 DEF RowOK
    <2>4. r.kind = "terminal" /\ AskOf(d, r.att).kind = "recover" =>
              Tried(d, r.att).publishing /\ RowOf(d, r.att, "pending") \in S
      <3> SUFFICES ASSUME r.kind = "terminal", AskOf(d, r.att).kind = "recover"
                   PROVE  Tried(d, r.att).publishing /\ RowOf(d, r.att, "pending") \in S
        OBVIOUS
      <3>1. r.att # a /\ AskOf(q, r.att).kind = "recover"
        BY <1>1, <1>2, <2>2
      <3>2. Tried(q, r.att).publishing /\ RowOf(q, r.att, "pending") \in R
        BY <2>1, <3>1 DEF RowOK
      <3> QED
        BY <1>1, <1>2, <1>4, <2>2, <3>1, <3>2
    <2>5. r.kind = "unused" => Harmless(d, r.att)
      BY <1>3, <2>1 DEF RowOK
    <2> QED
      BY <1>1, <1>2, <2>2, <2>3, <2>4, <2>5 DEF RowOK
  <1>6. ASSUME NEW x \in more PROVE RowOK(S, d, x)
    <2>1. CASE x.kind = "repair" /\ x.att \in Begun(q)
      BY <1>1, <2>1 DEF RowOK
    <2>2. CASE AsRecorded(q, a, new, x)
      <3>1. x.kind \in RowKinds
        BY DEF Follows, RowRecords
      <3>2. x.att = a /\ x = RowOf(d, a, x.kind) /\ new.phase \notin {"queued", "read", "go"}
        BY <1>2, <2>2, <3>1 DEF AsRecorded
      <3>3. x.kind = "unused" => Harmless(d, x.att)
        BY <1>1, <2>2 DEF AsRecorded, Harmless, EndedOne
      <3>4. x.kind \in {"terminal", "unposted"} => Tried(d, x.att).phase = "over"
        BY <1>1, <2>2 DEF AsRecorded
      <3>5. x.kind = "unposted" => \A s \in S : s.att = x.att => s.kind # "terminal"
        BY <1>2, <3>2 DEF Follows
      <3>6. x.kind = "terminal" /\ AskOf(d, a).kind = "recover" =>
                Tried(d, a).publishing /\ RowOf(d, a, "pending") \in S
        BY <1>1, <1>2, <1>4, <2>2 DEF Follows, AsRecorded
      <3> QED
        BY <1>1, <3>2, <3>3, <3>4, <3>5, <3>6 DEF RowOK
    <2> QED
      BY <2>1, <2>2 DEF Follows
  <1>7. \A r \in S : RowOK(S, d, r)
    BY <1>5, <1>6
  <1> QED
    BY <1>7 DEF d

\* And a report is not posted twice.
LEMMA PostsStay ==
    ASSUME NEW R, NEW q \in Seq(VerifierRuns), NEW a \in Begun(q), NEW new \in Tries, NEW more,
           HistoryOK(R, q), Follows(R, q, a, new, more)
    PROVE  PostedOnce(R \cup more, TurnOf(q, a, new))
  <1> DEFINE d == TurnOf(q, a, new)
             S == R \cup more
  <1>1. /\ Begun(d) = Begun(q) /\ Tried(d, a) = new /\ \A b \in Begun(q) : b # a => Tried(d, b) = Tried(q, b)
        /\ \A b \in Begun(q) : AskOf(d, b) = AskOf(q, b)
    BY OneTry
  <1>2. \A r \in R : r.kind \in {"terminal", "unposted"} => r.att # a
    BY RowsStay
  <1> HIDE DEF d
  <1>3. R \subseteq S /\ \A b : Unsure(R, b) => Unsure(S, b)
    BY DEF Unsure
  <1>4. \A x \in more : x.kind = "terminal" => x.att = a /\ new.event = Tried(q, a).event
    BY DEF Follows, AsRecorded
  <1>5. ASSUME NEW b \in Begun(q), b # a, Posting(S, d, b) PROVE Posting(R, q, b)
    <2>1. Tried(d, b) = Tried(q, b) /\ AskOf(d, b) = AskOf(q, b)
      BY <1>1, <1>5
    <2> QED
      BY <1>4, <1>5, <2>1 DEF Posting
  <1>6. ASSUME Posting(S, d, a)
        PROVE  /\ AskOf(q, a).kind = "recover" /\ new.event = Tried(q, a).event
               /\ Posting(R, q, a) \/ \A b \in Begun(q) : b # a /\ Posting(R, q, b) /\ SameReport(q, a, b) => Unsure(R, b)
    <2>1. AskOf(q, a).kind = "recover"
      BY <1>1, <1>6 DEF Posting
    <2>2. new.phase \in {"clear", "late"} \/ \E x \in more : x.kind = "terminal"
      BY <1>1, <1>2, <1>6 DEF Posting
    <2>3. AloneIn(R, q, a) /\ new.event = Tried(q, a).event
      BY <1>4, <2>1, <2>2 DEF Follows
    <2> QED
      BY <2>1, <2>3 DEF AloneIn, Posting
  <1>7. PostedOnce(R, q)
    BY DEF HistoryOK
  <1>8. ASSUME NEW b \in Begun(q), b # a, Posting(S, d, a), Posting(S, d, b),
               SameReport(d, a, b) \/ SameReport(d, b, a)
        PROVE  Unsure(S, a) \/ Unsure(S, b)
    <2>1. Posting(R, q, b)
      BY <1>5, <1>8
    <2>2. SameReport(q, a, b)
      BY <1>1, <1>6, <1>8 DEF SameReport
    <2>3. Posting(R, q, a) \/ Unsure(R, b)
      BY <1>6, <1>8, <2>1, <2>2
    <2>4. Posting(R, q, a) => Unsure(R, a) \/ Unsure(R, b)
      BY <1>7, <1>8, <2>1, <2>2 DEF PostedOnce
    <2> QED
      BY <1>3, <2>3, <2>4
  <1>9. ASSUME NEW b \in Begun(q), NEW e \in Begun(q), b # a, e # a, b # e, Posting(S, d, b), Posting(S, d, e), SameReport(d, b, e)
        PROVE  Unsure(S, b) \/ Unsure(S, e)
    <2>1. Posting(R, q, b) /\ Posting(R, q, e)
      BY <1>5, <1>9
    <2>2. SameReport(q, b, e)
      BY <1>1, <1>9 DEF SameReport
    <2> QED
      BY <1>3, <1>7, <1>9, <2>1, <2>2 DEF PostedOnce
  <1>10. PostedOnce(S, d)
    BY <1>1, <1>8, <1>9 DEF PostedOnce
  <1> QED
    BY <1>10 DEF d

LEMMA HistoryStays ==
    ASSUME NEW R, NEW q \in Seq(VerifierRuns), NEW a \in Begun(q), NEW new \in Tries, NEW more,
           HistoryOK(R, q), Follows(R, q, a, new, more)
    PROVE  HistoryOK(R \cup more, TurnOf(q, a, new))
  <1> DEFINE d == TurnOf(q, a, new)
             S == R \cup more
  <1>1. d \in Seq(VerifierRuns) /\ DOMAIN d = DOMAIN q /\ Begun(d) = Begun(q) /\ \A r \in DOMAIN q : d[r].ask = q[r].ask
    BY OneTry
  <1>2. /\ \A b \in Begun(d) : TryOK(S, d, b)
        /\ \A r \in S : RowOK(S, d, r)
        /\ PostedOnce(S, d)
    BY TriesStay, RowsStayRight, PostsStay
  <1> HIDE DEF d
  <1>3. \A r \in DOMAIN d : SourceOK(d, r)
    BY <1>1 DEF SourceOK, HistoryOK
  <1>4. S \subseteq RowRecords
    BY DEF Follows, HistoryOK
  <1> HIDE DEF S
  <1>5. HistoryOK(S, d)
    BY <1>1, <1>2, <1>3, <1>4 DEF HistoryOK
  <1> QED
    BY <1>5 DEF S, d

\* An attempt that is queued disturbs nothing.
LEMMA FreshTry ==
    LET t == Verification!Fresh IN
    /\ t \in Tries /\ t.phase = "queued" /\ t.seen = {} /\ t.barred = {} /\ ~t.evaluated /\ ~t.publishing
    /\ Verification!None \in Verified
  BY DEF Verification!Fresh, Verification!None, Tries, Verified, TryPhases
LEMMA MoreTries ==
    ASSUME NEW R, NEW q, NEW d \in Seq(VerifierRuns), HistoryOK(R, q),
           \A r \in DOMAIN d : SourceOK(d, r),
           Begun(q) \subseteq Begun(d),
           \A b \in Begun(q) : Tried(d, b) = Tried(q, b) /\ AskOf(d, b) = AskOf(q, b),
           \A b \in Begun(d) : b \notin Begun(q) => Tried(d, b) = Verification!Fresh
    PROVE  HistoryOK(R, d)
  <1>1. \A b \in Begun(q) : \A kind : RowOf(d, b, kind) = RowOf(q, b, kind)
    BY DEF RowOf
  <1>2. \A b : Harmless(q, b) => Harmless(d, b)
    BY DEF Harmless
  <1>3. ASSUME NEW b \in Begun(d) PROVE TryOK(R, d, b)
    <2>1. CASE b \in Begun(q)
      <3>1. TryOK(R, q, b) /\ RowOf(d, b, "pending") = RowOf(q, b, "pending")
        BY <1>1, <2>1 DEF HistoryOK
      <3> QED
        BY <1>2, <2>1, <3>1 DEF TryOK
    <2>2. CASE b \notin Begun(q)
      BY <2>2, FreshTry DEF TryOK
    <2> QED
      BY <2>1, <2>2
  <1>4. ASSUME NEW r \in R PROVE RowOK(R, d, r)
    <2>1. RowOK(R, q, r)
      BY DEF HistoryOK
    <2>2. r.att \in Begun(q) /\ r.att \in Begun(d)
      BY <2>1 DEF RowOK
    <2>3. RowOf(d, r.att, r.kind) = RowOf(q, r.att, r.kind) /\ RowOf(d, r.att, "pending") = RowOf(q, r.att, "pending")
      BY <1>1, <2>2
    <2> QED
      BY <1>2, <2>1, <2>2, <2>3 DEF RowOK
  <1>5. \A r \in R : r.att \in Begun(q)
    BY DEF HistoryOK, RowOK
  <1>6. ASSUME NEW b \in Begun(d), Posting(R, d, b) PROVE b \in Begun(q) /\ Posting(R, q, b)
    <2>1. b \in Begun(q)
      <3> SUFFICES ASSUME b \notin Begun(q) PROVE FALSE
        OBVIOUS
      <3>1. Tried(d, b).phase = "queued"
        BY FreshTry
      <3>2. \E r \in R : r.att = b
        BY <1>6, <3>1 DEF Posting
      <3> QED
        BY <1>5, <3>2
    <2> QED
      BY <1>6, <2>1 DEF Posting
  <1>7. PostedOnce(R, d)
    <2> SUFFICES ASSUME NEW a \in Begun(d), NEW b \in Begun(d), a # b, Posting(R, d, a), Posting(R, d, b), SameReport(d, a, b)
                 PROVE  Unsure(R, a) \/ Unsure(R, b)
      BY DEF PostedOnce
    <2>1. a \in Begun(q) /\ b \in Begun(q) /\ Posting(R, q, a) /\ Posting(R, q, b)
      BY <1>6
    <2>2. SameReport(q, a, b)
      BY <2>1 DEF SameReport
    <2> QED
      BY <2>1, <2>2 DEF HistoryOK, PostedOnce
  <1> QED
    BY <1>3, <1>4, <1>7 DEF HistoryOK

LEMMA VerifierDispatches ==
    ASSUME VerifierInv, Verification!Dispatch
    PROVE  VerifierInv'
  <1>1. PICK ask \in Verification!Asks : c3' = Append(c3, [ask |-> ask, attempts |-> <<Verification!Fresh>>])
    BY DEF Verification!Dispatch
  <1>2. c1' = c1 /\ c2' = c2
    BY DEF Verification!Dispatch
  <1>3. HistoryOK(c2, c3) /\ c3 \in Seq(VerifierRuns) /\ c2 \subseteq RowRecords
    BY DEF VerifierInv, HistoryOK
  <1>4. ask \in RunAsks /\ (ask.kind \in {"recover", "repair"} => ask.source \in Begun(c3))
    <2>1. CASE ask = [kind |-> "evaluate", parent |-> Verification!None, evidence |-> 0, source |-> Verification!Nobody]
      BY <2>1, FreshTry DEF RunAsks, Verification!Nobody, AttemptIds
    <2>2. CASE ask \in [kind : {"evaluate"}, parent : {r.event : r \in c2}, evidence : 0..1, source : {Verification!Nobody}]
      <3>1. ask.parent \in Verified /\ ask.kind = "evaluate" /\ ask.source = <<0, 0>>
        BY <1>3, <2>2 DEF RowRecords, Verification!Nobody
      <3>2. <<0, 0>> \in AttemptIds
        BY DEF AttemptIds
      <3>3. ask = [kind |-> ask.kind, parent |-> ask.parent, evidence |-> ask.evidence, source |-> ask.source] /\ ask.evidence \in 0..1
        BY <2>2
      <3> QED
        BY <3>1, <3>2, <3>3 DEF RunAsks
    <2>3. ASSUME NEW a \in Verification!Attempts,
                 ask \in [kind : {"recover", "repair"}, parent : {Verification!None},
                          evidence : {Verification!Att(a).event.evidence}, source : {a}]
          PROVE  ask \in RunAsks /\ ask.source \in Begun(c3)
      <3>1. a \in Begun(c3) /\ Verification!Att(a) = Tried(c3, a)
        BY VerifierWords
      <3>2. Tried(c3, a) \in Tries /\ a \in AttemptIds
        BY <1>3, <3>1, TriesAre
      <3>3. Verification!Att(a).event.evidence \in 0..1
        BY <3>1, <3>2 DEF Tries, Verified
      <3> QED
        BY <2>3, <3>1, <3>2, <3>3, FreshTry DEF RunAsks
    <2>4. \/ ask = [kind |-> "evaluate", parent |-> Verification!None, evidence |-> 0, source |-> Verification!Nobody]
          \/ ask \in [kind : {"evaluate"}, parent : {r.event : r \in c2}, evidence : 0..1, source : {Verification!Nobody}]
          \/ \E a \in Verification!Attempts : ask \in [kind : {"recover", "repair"}, parent : {Verification!None},
                          evidence : {Verification!Att(a).event.evidence}, source : {a}]
      BY DEF Verification!Asks
    <2> QED
      BY <2>1, <2>2, <2>3, <2>4 DEF Verification!Nobody
  <1> DEFINE run == [ask |-> ask, attempts |-> <<Verification!Fresh>>]
             d == Append(c3, run)
  <1>5. run \in VerifierRuns /\ run.ask = ask /\ Len(run.attempts) = 1 /\ run.attempts[1] = Verification!Fresh
    BY <1>4, FreshTry DEF VerifierRuns
  <1>6. c3' = d
    BY <1>1
  <1> HIDE DEF run
  <1>7. /\ d \in Seq(VerifierRuns) /\ Len(c3) \in Nat /\ DOMAIN d = 1..(Len(c3) + 1) /\ d[Len(c3) + 1] = run
        /\ DOMAIN c3 = 1..Len(c3) /\ \A r \in DOMAIN c3 : d[r] = c3[r]
    BY <1>3, <1>5
  <1> HIDE DEF d
  <1>8. \A b \in Begun(c3) : b \in Begun(d) /\ Tried(d, b) = Tried(c3, b) /\ AskOf(d, b) = AskOf(c3, b)
    <2> TAKE b \in Begun(c3)
    <2>1. b[1] \in DOMAIN c3 /\ b = <<b[1], b[2]>> /\ b[2] \in Nat /\ b[2] # 0 /\ b[2] <= Events /\ b[2] <= Len(c3[b[1]].attempts)
      BY <1>3, TriesAre
    <2>2. d[b[1]] = c3[b[1]] /\ b[1] \in DOMAIN d
      BY <1>7, <2>1
    <2>3. <<b[1], b[2]>> \in Begun(d)
      BY <1>7, <2>1, <2>2, TriesOf
    <2> QED
      BY <2>1, <2>2, <2>3 DEF Tried, AskOf
  <1>9. ASSUME NEW b \in Begun(d), b \notin Begun(c3) PROVE Tried(d, b) = Verification!Fresh
    <2>1. b[1] \in DOMAIN d /\ b = <<b[1], b[2]>> /\ b[2] \in Nat /\ b[2] # 0 /\ b[2] <= Events /\ b[2] <= Len(d[b[1]].attempts)
      BY <1>7, TriesAre
    <2>2. b[1] \notin DOMAIN c3
      <3> SUFFICES ASSUME b[1] \in DOMAIN c3 PROVE FALSE
        OBVIOUS
      <3>1. b[2] <= Len(c3[b[1]].attempts)
        BY <1>7, <2>1
      <3>2. <<b[1], b[2]>> \in Begun(c3)
        BY <1>3, <2>1, <3>1, TriesOf
      <3> QED
        BY <1>9, <2>1, <3>2
    <2>3. b[1] = Len(c3) + 1
      BY <1>7, <2>1, <2>2
    <2>4. Len(d[b[1]].attempts) = 1
      BY <1>5, <1>7, <2>3
    <2>5. b[2] = 1
      BY <2>1, <2>4
    <2> QED
      BY <1>5, <1>7, <2>3, <2>5 DEF Tried
  <1>10. ASSUME NEW r \in DOMAIN d PROVE SourceOK(d, r)
    <2>1. CASE r \in DOMAIN c3
      <3>1. SourceOK(c3, r) /\ d[r] = c3[r]
        BY <1>3, <1>7, <2>1 DEF HistoryOK
      <3> QED
        BY <1>8, <3>1 DEF SourceOK
    <2>2. CASE r = Len(c3) + 1
      <3>1. d[r].ask = ask
        BY <1>5, <1>7, <2>2
      <3>2. ask.kind \in {"recover", "repair"} => ask.source[1] \in DOMAIN c3
        BY <1>3, <1>4, TriesAre
      <3>3. ask.kind \in {"recover", "repair"} => ask.source[1] < r
        BY <1>7, <2>2, <3>2
      <3> QED
        BY <1>4, <1>8, <3>1, <3>3 DEF SourceOK
    <2> QED
      BY <1>7, <2>1, <2>2
  <1>11. HistoryOK(c2, d)
    BY <1>3, <1>7, <1>8, <1>9, <1>10, MoreTries
  <1> QED
    BY <1>2, <1>6, <1>11 DEF VerifierInv

LEMMA VerifierReruns ==
    ASSUME VerifierInv, Verification!Rerun
    PROVE  VerifierInv'
  <1>1. PICK r \in DOMAIN c3 : c3' = [c3 EXCEPT ![r].attempts = Append(@, Verification!Fresh)]
    BY DEF Verification!Rerun
  <1>2. c1' = c1 /\ c2' = c2
    BY DEF Verification!Rerun
  <1>3. HistoryOK(c2, c3) /\ c3 \in Seq(VerifierRuns)
    BY DEF VerifierInv, HistoryOK
  <1> DEFINE old == c3[r]
             list == Append(old.attempts, Verification!Fresh)
             run == [old EXCEPT !.attempts = list]
             d == [c3 EXCEPT ![r] = run]
  <1>4. old \in VerifierRuns /\ old.attempts \in Seq(Tries) /\ Len(old.attempts) \in Nat
    <2>1. old \in VerifierRuns
      BY <1>3
    <2> QED
      BY <2>1 DEF VerifierRuns
  <1>5. /\ list \in Seq(Tries) /\ Len(list) = Len(old.attempts) + 1 /\ list[Len(old.attempts) + 1] = Verification!Fresh
        /\ \A n \in Nat : n # 0 /\ n <= Len(old.attempts) => list[n] = old.attempts[n]
    BY <1>4, FreshTry
  <1>6. c3' = d
    BY <1>1
  <1> HIDE DEF list
  <1>7. run = [ask |-> old.ask, attempts |-> list]
    BY <1>4 DEF VerifierRuns
  <1>8. run \in VerifierRuns /\ run.ask = old.ask /\ run.attempts = list
    BY <1>4, <1>5, <1>7 DEF VerifierRuns
  <1> HIDE DEF run
  <1>9. d \in Seq(VerifierRuns) /\ DOMAIN d = DOMAIN c3 /\ d[r] = run /\ \A s \in DOMAIN c3 : s # r => d[s] = c3[s]
    BY <1>3, <1>8
  <1> HIDE DEF d
  <1>10. \A b \in Begun(c3) : b \in Begun(d) /\ Tried(d, b) = Tried(c3, b) /\ AskOf(d, b) = AskOf(c3, b)
    <2> TAKE b \in Begun(c3)
    <2>1. b[1] \in DOMAIN c3 /\ b = <<b[1], b[2]>> /\ b[2] \in Nat /\ b[2] # 0 /\ b[2] <= Events /\ b[2] <= Len(c3[b[1]].attempts)
      BY <1>3, TriesAre
    <2>2. b[2] <= Len(d[b[1]].attempts) /\ d[b[1]].attempts[b[2]] = c3[b[1]].attempts[b[2]] /\ d[b[1]].ask = c3[b[1]].ask
      BY <1>4, <1>5, <1>8, <1>9, <2>1
    <2>3. <<b[1], b[2]>> \in Begun(d)
      BY <1>9, <2>1, <2>2, TriesOf
    <2> QED
      BY <2>1, <2>2, <2>3 DEF Tried, AskOf
  <1>11. ASSUME NEW b \in Begun(d), b \notin Begun(c3) PROVE Tried(d, b) = Verification!Fresh
    <2>1. b[1] \in DOMAIN d /\ b = <<b[1], b[2]>> /\ b[2] \in Nat /\ b[2] # 0 /\ b[2] <= Events /\ b[2] <= Len(d[b[1]].attempts)
      BY <1>9, TriesAre
    <2>2. ~(b[2] <= Len(c3[b[1]].attempts))
      <3> SUFFICES ASSUME b[2] <= Len(c3[b[1]].attempts) PROVE FALSE
        OBVIOUS
      <3>2. <<b[1], b[2]>> \in Begun(c3)
        BY <1>3, <1>9, <2>1, TriesOf
      <3> QED
        BY <1>11, <2>1, <3>2
    <2>3. b[1] = r
      BY <1>9, <2>1, <2>2
    <2>4. b[2] = Len(old.attempts) + 1
      BY <1>4, <1>5, <1>8, <1>9, <2>1, <2>2, <2>3
    <2> QED
      BY <1>5, <1>8, <1>9, <2>3, <2>4 DEF Tried
  <1>12. ASSUME NEW s \in DOMAIN d PROVE SourceOK(d, s)
    <2>1. SourceOK(c3, s) /\ d[s].ask = c3[s].ask
      BY <1>3, <1>8, <1>9 DEF HistoryOK
    <2> QED
      BY <1>10, <2>1 DEF SourceOK
  <1>13. HistoryOK(c2, d)
    BY <1>3, <1>9, <1>10, <1>11, <1>12, MoreTries
  <1> QED
    BY <1>2, <1>6, <1>13 DEF VerifierInv

\* An attempt and what is known of it.
LEMMA TryParts ==
    ASSUME VerifierInv, NEW a \in Begun(c3)
    PROVE  /\ Tried(c3, a) \in Tries /\ AskOf(c3, a) \in RunAsks /\ TryOK(c2, c3, a)
           /\ c3 \in Seq(VerifierRuns) /\ c2 \subseteq RowRecords /\ HistoryOK(c2, c3)
           /\ a \in Verification!Attempts
           /\ Verification!Att(a) = Tried(c3, a) /\ Verification!Ask(a) = AskOf(c3, a)
           /\ AskOf(c3, a).kind \in {"recover", "repair"} => AskOf(c3, a).source \in Begun(c3) /\ AskOf(c3, a).source[1] < a[1]
  <1>1. HistoryOK(c2, c3) /\ c3 \in Seq(VerifierRuns)
    BY DEF VerifierInv, HistoryOK
  <1>2. Tried(c3, a) \in Tries /\ AskOf(c3, a) \in RunAsks /\ a[1] \in DOMAIN c3
    BY <1>1, TriesAre
  <1>3. SourceOK(c3, a[1]) /\ TryOK(c2, c3, a)
    BY <1>1, <1>2 DEF HistoryOK
  <1>4. AskOf(c3, a).kind \in {"recover", "repair"} => AskOf(c3, a).source \in Begun(c3) /\ AskOf(c3, a).source[1] < a[1]
    BY <1>3 DEF SourceOK, AskOf
  <1>5. c2 \subseteq RowRecords
    BY <1>1 DEF HistoryOK
  <1> QED
    BY <1>1, <1>2, <1>3, <1>4, <1>5, VerifierWords
LEMMA RowTyped ==
    ASSUME VerifierInv, NEW a \in Begun(c3), NEW kind \in RowKinds
    PROVE  RowOf(c3, a, kind) \in RowRecords
  <1>1. Tried(c3, a) \in Tries /\ AskOf(c3, a) \in RunAsks
    BY TryParts
  <1>2. a \in AttemptIds
    BY TriesAre, TryParts
  <1>3. KeyOf(AskOf(c3, a)) \in AttemptIds
    BY <1>1 DEF KeyOf, RunAsks, AttemptIds
  <1>4. Tried(c3, a).event \in Verified /\ AskOf(c3, a).parent \in Verified
    BY <1>1 DEF Tries, RunAsks
  <1> QED
    BY <1>2, <1>3, <1>4 DEF RowOf, RowRecords

LEMMA VerifierMoves ==
    ASSUME VerifierInv, NEW a \in Begun(c3), NEW new \in Tries, NEW more,
           Follows(c2, c3, a, new, more),
           c1' = c1, c2' = c2 \cup more, Verification!Put(a, new)
    PROVE  VerifierInv'
  <1>1. c3 \in Seq(VerifierRuns) /\ HistoryOK(c2, c3)
    BY TryParts
  <1>2. HistoryOK(c2 \cup more, TurnOf(c3, a, new))
    BY <1>1, HistoryStays
  <1>3. c3' = TurnOf(c3, a, new)
    BY DEF Verification!Put, TurnOf
  <1> QED
    BY <1>2, <1>3 DEF VerifierInv

\* The record of an attempt with another phase.
LEMMA NowIs ==
    ASSUME VerifierInv, NEW a \in Begun(c3), NEW phase \in TryPhases
    PROVE  LET t == Tried(c3, a)
               new == Verification!Now(a, phase)
           IN  /\ new = [phase |-> phase, seen |-> t.seen, event |-> t.event, barred |-> t.barred, pended |-> t.pended,
                         evaluated |-> t.evaluated, publishing |-> t.publishing, kept |-> t.kept]
               /\ new \in Tries
  <1> DEFINE t == Tried(c3, a)
             new == Verification!Now(a, phase)
  <1>1. t \in Tries /\ new = [t EXCEPT !.phase = phase]
    BY TryParts DEF Verification!Now
  <1> HIDE DEF t, new
  <1>2. new = [phase |-> phase, seen |-> t.seen, event |-> t.event, barred |-> t.barred, pended |-> t.pended,
               evaluated |-> t.evaluated, publishing |-> t.publishing, kept |-> t.kept]
    BY <1>1 DEF Tries
  <1>3. new \in Tries
    BY <1>1, <1>2 DEF Tries
  <1> QED
    BY <1>2, <1>3 DEF t, new

\* The pull request is read, or is not.
LEMMA VerifierReads ==
    ASSUME VerifierInv, NEW a \in Begun(c3), Verification!ReadHistory(a)
    PROVE  VerifierInv'
  <1> DEFINE t == Tried(c3, a)
             now == Verification!Now(a, "read")
             event == [Verification!None EXCEPT !.request = c1.request]
             new == [now EXCEPT !.seen = c2, !.event = event]
  <1>1. t \in Tries /\ TryOK(c2, c3, a) /\ c2 \subseteq RowRecords /\ Verification!Att(a) = t
    BY TryParts
  <1>2. t.phase = "queued" /\ Verification!Put(a, new) /\ c1' = c1 /\ c2' = c2
    BY <1>1 DEF Verification!ReadHistory
  <1>3. now \in Tries /\ now = [phase |-> "read", seen |-> t.seen, event |-> t.event, barred |-> t.barred, pended |-> t.pended,
                                evaluated |-> t.evaluated, publishing |-> t.publishing, kept |-> t.kept]
    BY NowIs DEF TryPhases
  <1>4. event \in Verified
    BY DEF VerifierInv, Verification!None, Verified
  <1>5. ~t.publishing
    BY <1>1, <1>2 DEF TryOK
  <1>6. ~t.evaluated /\ \A b \in t.barred : Harmless(c3, b)
    BY <1>1, <1>2 DEF TryOK
  <1> HIDE DEF now, event
  <1>7. new = [now EXCEPT !.seen = c2, !.event = event]
    OBVIOUS
  <1> HIDE DEF new, t
  <1>8. new = [phase |-> new.phase, seen |-> new.seen, event |-> new.event, barred |-> new.barred, pended |-> new.pended,
               evaluated |-> new.evaluated, publishing |-> new.publishing, kept |-> new.kept]
    BY <1>3, <1>7
  <1>9. /\ new.phase = "read" /\ new.seen = c2 /\ new.event = event /\ new.barred = t.barred /\ new.pended = t.pended
        /\ new.evaluated = t.evaluated /\ new.publishing = t.publishing /\ new.kept = t.kept
    BY <1>3, <1>7
  <1>10. new \in Tries
    BY <1>1, <1>4, <1>9, <1>8 DEF Tries, TryPhases
  <1>11. TryGoesOn(c3, a, new)
    BY <1>2, <1>5, <1>6, <1>9 DEF TryGoesOn, t
  <1>12. Follows(c2, c3, a, new, {})
    BY <1>2, <1>9, <1>11 DEF Follows, t
  <1> HIDE DEF t
  <1>13. c2' = c2 \cup {}
    BY <1>2
  <1> QED
    BY <1>2, <1>10, <1>12, <1>13, VerifierMoves

\* An attempt that goes on as it was asked to, and says so.
Plain(q, a, new, kinds) ==
    /\ Tried(q, a).phase \notin {"read", "over"}
    /\ new.seen = Tried(q, a).seen /\ new.event = Tried(q, a).event /\ new.barred = Tried(q, a).barred
    /\ new.publishing = Tried(q, a).publishing
    /\ new.phase \in {"pended", "evaluating", "clear", "late", "over"}
    /\ Tried(q, a).phase = "late" => new.phase = "over"
    /\ new.evaluated = Tried(q, a).evaluated \/ (new.phase = "evaluating" /\ Tried(q, a).phase = "pended")
    /\ new.phase = "pended" => Tried(q, a).phase = "go" /\ "pending" \in kinds
    /\ new.phase = "evaluating" => AskOf(q, a).kind = "evaluate" /\ Tried(q, a).phase # "late"
    /\ new.phase = "clear" => AskOf(q, a).kind # "recover" /\ Tried(q, a).phase = "queued"
    /\ new.phase = "late" => Tried(q, a).publishing /\ Tried(q, a).phase = "clear"
    /\ kinds \subseteq {"pending", "unused", "kept", "terminal", "unsure"} /\ \A j, k \in kinds : j = k
    /\ kinds # {} => Tried(q, a).phase # "queued"
    /\ "unused" \in kinds => new.phase = "over" /\ Tried(q, a).phase = "pended"
    /\ "terminal" \in kinds => new.phase = "over" /\ Tried(q, a).phase \in {"evaluating", "clear", "late"}
RowsOf(q, a, kinds) == {RowOf(q, a, kind) : kind \in kinds}

LEMMA PlainMoves ==
    ASSUME VerifierInv, NEW a \in Begun(c3), NEW new \in Tries, NEW kinds,
           Plain(c3, a, new, kinds),
           c1' = c1, c2' = c2 \cup RowsOf(c3, a, kinds), Verification!Put(a, new)
    PROVE  VerifierInv'
  <1> DEFINE t == Tried(c3, a)
             ask == AskOf(c3, a)
             more == RowsOf(c3, a, kinds)
  <1>1. t \in Tries /\ ask \in RunAsks /\ TryOK(c2, c3, a)
    BY TryParts
  <1>2. t.phase \in TryPhases /\ t.evaluated \in BOOLEAN /\ new.evaluated \in BOOLEAN /\ new.phase \in TryPhases
        /\ t.publishing \in BOOLEAN /\ new.publishing \in BOOLEAN
    BY <1>1 DEF Tries
  <1>3. /\ t.seen \subseteq c2
        /\ t.phase \in {"queued", "read", "go", "pended"} => ~t.evaluated
        /\ t.phase = "evaluating" => ask.kind = "evaluate"
        /\ t.phase = "late" => t.publishing
        /\ t.phase = "clear" /\ ask.kind = "recover" => t.publishing
        /\ t.publishing => ask.kind = "recover" /\ t.phase \in {"clear", "late", "over"}
        /\ ask.kind = "recover" /\ t.phase \in {"pended", "clear", "late"} => RowOf(c3, a, "pending") \in c2
        /\ \A b \in t.barred : Harmless(c3, b)
    BY <1>1 DEF TryOK
  <1>4. kinds \subseteq RowKinds
    BY DEF Plain, RowKinds
  <1>5. more \subseteq RowRecords
    <2>1. \A kind \in kinds : RowOf(c3, a, kind) \in RowRecords
      BY <1>4, RowTyped
    <2> QED
      BY <2>1 DEF RowsOf
  <1>6. /\ \A x \in more : x.kind \in kinds /\ x.att = a /\ x = RowOf(c3, a, x.kind)
        /\ \A kind \in kinds : RowOf(c3, a, kind) \in more
    BY DEF RowsOf, RowOf
  <1>7. TryGoesOn(c3, a, new)
    <2>1. t.phase = "late" => new.phase = "over" /\ new.evaluated = t.evaluated
      BY <1>2 DEF Plain
    <2>2. new.phase \in {"queued", "read", "go", "pended"} => ~new.evaluated
      BY <1>2, <1>3 DEF Plain
    <2>3. new.publishing => ask.kind = "recover" /\ new.phase \in {"clear", "late", "over"}
      BY <1>2, <1>3 DEF Plain
    <2>4. \A b \in new.barred : Harmless(c3, b)
      BY <1>3 DEF Plain
    <2>5. new.phase = "late" => new.publishing
      BY <1>2 DEF Plain
    <2> QED
      BY <2>1, <2>2, <2>3, <2>4, <2>5 DEF Plain, TryGoesOn
  <1>8. \A x \in more : AsRecorded(c3, a, new, x)
    <2> TAKE x \in more
    <2>1. x.kind \in kinds /\ x.att = a /\ x = RowOf(c3, a, x.kind)
      BY <1>6
    <2>2. x.kind = "unused" => new.phase = "over" /\ ~new.evaluated
      BY <1>2, <1>3, <2>1 DEF Plain
    <2>3. x.kind \in {"terminal", "unposted"} => new.phase = "over"
      BY <2>1 DEF Plain
    <2> QED
      BY <2>1, <2>2, <2>3 DEF AsRecorded, Plain
  <1>9. \A x, y \in more : x.kind = y.kind
    BY <1>6 DEF Plain
  <1>10. ASSUME ask.kind = "recover"
         PROVE  /\ new.phase \in {"pended", "clear", "late"} =>
                      new.event = t.event /\ RowOf(c3, a, "pending") \in c2 \cup more
                /\ "terminal" \in {x.kind : x \in more} => new.publishing /\ RowOf(c3, a, "pending") \in c2
                /\ new.phase \in {"clear", "late"} \/ "terminal" \in {x.kind : x \in more} => AloneIn(c2, c3, a)
    <2>1. "terminal" \in {x.kind : x \in more} => t.phase \in {"clear", "late"}
      BY <1>3, <1>6, <1>10 DEF Plain
    <2>2. new.phase \in {"clear", "late"} => t.phase = "clear"
      BY <1>10 DEF Plain
    <2>3. new.phase = "pended" => RowOf(c3, a, "pending") \in more
      BY <1>6 DEF Plain
    <2>4. new.publishing = t.publishing /\ new.event = t.event
      BY DEF Plain
    <2> QED
      BY <1>3, <1>10, <2>1, <2>2, <2>3, <2>4 DEF AloneIn
  <1>11. Follows(c2, c3, a, new, more)
    BY <1>3, <1>5, <1>7, <1>8, <1>9, <1>10 DEF Follows, Plain
  <1>12. c2' = c2 \cup more
    OBVIOUS
  <1> HIDE DEF more
  <1> QED
    BY <1>11, <1>12, VerifierMoves

LEMMA TrySays ==
    ASSUME NEW a, NEW kind
    PROVE  Verification!Say(a, kind) => c2' = c2 \cup RowsOf(c3, a, {kind})
  BY VerifierWords DEF Verification!Say, RowsOf
LEMMA TrySilent ==
    ASSUME NEW a, UNCHANGED c2
    PROVE  c2' = c2 \cup RowsOf(c3, a, {})
  BY DEF RowsOf

\* A page of the history is missing.
LEMMA VerifierMisses ==
    ASSUME VerifierInv, NEW a \in Begun(c3), Verification!MissHistory(a)
    PROVE  VerifierInv'
  <1> DEFINE t == Tried(c3, a)
             now == Verification!Now(a, "over")
             new == now
  <1>1. t \in Tries /\ TryOK(c2, c3, a) /\ Verification!Att(a) = t /\ Verification!Ask(a) = AskOf(c3, a)
    BY TryParts
  <1>2. t.phase = "queued" /\ Verification!Put(a, new) /\ c1' = c1
    BY <1>1 DEF Verification!MissHistory
  <1>3. now \in Tries /\ now = [phase |-> "over", seen |-> t.seen, event |-> t.event, barred |-> t.barred, pended |-> t.pended,
                                evaluated |-> t.evaluated, publishing |-> t.publishing, kept |-> t.kept]
    BY NowIs DEF TryPhases
  <1>4. new \in Tries /\ new.phase = "over" /\ new.seen = t.seen /\ new.event = t.event /\ new.barred = t.barred
        /\ new.evaluated = t.evaluated /\ new.publishing = t.publishing
    BY <1>1, <1>3
  <1> HIDE DEF new
  <1>5. c2' = c2 \cup RowsOf(c3, a, {})
    BY TrySilent DEF Verification!MissHistory
  <1>6. Plain(c3, a, new, {})
    BY <1>2, <1>4 DEF Plain
  <1> QED
    BY <1>2, <1>4, <1>5, <1>6, PlainMoves

\* The attempt is recorded as pending, or that fails.
LEMMA VerifierPends ==
    ASSUME VerifierInv, NEW a \in Begun(c3), Verification!Pend(a)
    PROVE  VerifierInv'
  <1> DEFINE t == Tried(c3, a)
             now == Verification!Now(a, "pended")
             new == [now EXCEPT !.pended = TRUE]
  <1>1. t \in Tries /\ TryOK(c2, c3, a) /\ Verification!Att(a) = t /\ Verification!Ask(a) = AskOf(c3, a)
    BY TryParts
  <1>2. t.phase = "go" /\ Verification!Put(a, new) /\ c1' = c1
    BY <1>1 DEF Verification!Pend
  <1>3. now \in Tries /\ now = [phase |-> "pended", seen |-> t.seen, event |-> t.event, barred |-> t.barred, pended |-> t.pended,
                                evaluated |-> t.evaluated, publishing |-> t.publishing, kept |-> t.kept]
    BY NowIs DEF TryPhases
  <1> HIDE DEF now
  <1>4. new \in Tries /\ new.phase = "pended" /\ new.seen = t.seen /\ new.event = t.event /\ new.barred = t.barred
        /\ new.evaluated = t.evaluated /\ new.publishing = t.publishing
    BY <1>1, <1>3 DEF Tries
  <1> HIDE DEF new
  <1>5. c2' = c2 \cup RowsOf(c3, a, {"pending"})
    BY TrySays DEF Verification!Pend
  <1>6. Plain(c3, a, new, {"pending"})
    BY <1>2, <1>4 DEF Plain
  <1> QED
    BY <1>2, <1>4, <1>5, <1>6, PlainMoves

LEMMA VerifierLosesPend ==
    ASSUME VerifierInv, NEW a \in Begun(c3), Verification!LosePend(a)
    PROVE  VerifierInv'
  <1> DEFINE t == Tried(c3, a)
             now == Verification!Now(a, "over")
             new == now
  <1>1. t \in Tries /\ TryOK(c2, c3, a) /\ Verification!Att(a) = t /\ Verification!Ask(a) = AskOf(c3, a)
    BY TryParts
  <1>2. t.phase = "go" /\ Verification!Put(a, new) /\ c1' = c1
    BY <1>1 DEF Verification!LosePend
  <1>3. now \in Tries /\ now = [phase |-> "over", seen |-> t.seen, event |-> t.event, barred |-> t.barred, pended |-> t.pended,
                                evaluated |-> t.evaluated, publishing |-> t.publishing, kept |-> t.kept]
    BY NowIs DEF TryPhases
  <1>4. new \in Tries /\ new.phase = "over" /\ new.seen = t.seen /\ new.event = t.event /\ new.barred = t.barred
        /\ new.evaluated = t.evaluated /\ new.publishing = t.publishing
    BY <1>1, <1>3
  <1> HIDE DEF new
  <1>5. c2' = c2 \cup RowsOf(c3, a, {"pending"}) \/ c2' = c2 \cup RowsOf(c3, a, {})
    BY TrySays, TrySilent DEF Verification!LosePend
  <1>6. Plain(c3, a, new, {"pending"})
    BY <1>2, <1>4 DEF Plain
  <1>7. Plain(c3, a, new, {})
    BY <1>2, <1>4 DEF Plain
  <1> QED
    BY <1>2, <1>4, <1>5, <1>6, <1>7, PlainMoves

\* A provider is asked, or it is recorded that none was.
LEMMA VerifierEvaluates ==
    ASSUME VerifierInv, NEW a \in Begun(c3), Verification!Evaluate(a)
    PROVE  VerifierInv'
  <1> DEFINE t == Tried(c3, a)
             now == Verification!Now(a, "evaluating")
             new == [now EXCEPT !.evaluated = TRUE]
  <1>1. t \in Tries /\ TryOK(c2, c3, a) /\ Verification!Att(a) = t /\ Verification!Ask(a) = AskOf(c3, a)
    BY TryParts
  <1>2. t.phase = "pended" /\ AskOf(c3, a).kind = "evaluate" /\ Verification!Put(a, new) /\ c1' = c1
    BY <1>1 DEF Verification!Evaluate
  <1>3. now \in Tries /\ now = [phase |-> "evaluating", seen |-> t.seen, event |-> t.event, barred |-> t.barred, pended |-> t.pended,
                                evaluated |-> t.evaluated, publishing |-> t.publishing, kept |-> t.kept]
    BY NowIs DEF TryPhases
  <1> HIDE DEF now
  <1>4. new \in Tries /\ new.phase = "evaluating" /\ new.seen = t.seen /\ new.event = t.event /\ new.barred = t.barred
        /\ new.evaluated = TRUE /\ new.publishing = t.publishing
    BY <1>1, <1>3 DEF Tries
  <1> HIDE DEF new
  <1>5. c2' = c2 \cup RowsOf(c3, a, {})
    BY TrySilent DEF Verification!Evaluate
  <1>6. Plain(c3, a, new, {})
    BY <1>2, <1>4 DEF Plain
  <1> QED
    BY <1>2, <1>4, <1>5, <1>6, PlainMoves

LEMMA VerifierNotInvoked ==
    ASSUME VerifierInv, NEW a \in Begun(c3), Verification!NotInvoked(a)
    PROVE  VerifierInv'
  <1> DEFINE t == Tried(c3, a)
             now == Verification!Now(a, "over")
             new == now
  <1>1. t \in Tries /\ TryOK(c2, c3, a) /\ Verification!Att(a) = t /\ Verification!Ask(a) = AskOf(c3, a)
    BY TryParts
  <1>2. t.phase = "pended" /\ AskOf(c3, a).kind = "evaluate" /\ Verification!Put(a, new) /\ c1' = c1
    BY <1>1 DEF Verification!NotInvoked
  <1>3. now \in Tries /\ now = [phase |-> "over", seen |-> t.seen, event |-> t.event, barred |-> t.barred, pended |-> t.pended,
                                evaluated |-> t.evaluated, publishing |-> t.publishing, kept |-> t.kept]
    BY NowIs DEF TryPhases
  <1>4. new \in Tries /\ new.phase = "over" /\ new.seen = t.seen /\ new.event = t.event /\ new.barred = t.barred
        /\ new.evaluated = t.evaluated /\ new.publishing = t.publishing
    BY <1>1, <1>3
  <1> HIDE DEF new
  <1>5. c2' = c2 \cup RowsOf(c3, a, {"unused"})
    BY TrySays DEF Verification!NotInvoked
  <1>6. Plain(c3, a, new, {"unused"})
    BY <1>2, <1>4 DEF Plain
  <1> QED
    BY <1>2, <1>4, <1>5, <1>6, PlainMoves

LEMMA VerifierAnswers ==
    ASSUME VerifierInv, NEW a \in Begun(c3), Verification!Answer(a)
    PROVE  VerifierInv'
  <1> DEFINE t == Tried(c3, a)
             now == Verification!Now(a, "over")
             new == [now EXCEPT !.kept = TRUE]
  <1>1. t \in Tries /\ TryOK(c2, c3, a) /\ Verification!Att(a) = t /\ Verification!Ask(a) = AskOf(c3, a)
    BY TryParts
  <1>2. t.phase = "evaluating" /\ Verification!Put(a, new) /\ c1' = c1
    BY <1>1 DEF Verification!Answer
  <1>3. now \in Tries /\ now = [phase |-> "over", seen |-> t.seen, event |-> t.event, barred |-> t.barred, pended |-> t.pended,
                                evaluated |-> t.evaluated, publishing |-> t.publishing, kept |-> t.kept]
    BY NowIs DEF TryPhases
  <1> HIDE DEF now
  <1>4. new \in Tries /\ new.phase = "over" /\ new.seen = t.seen /\ new.event = t.event /\ new.barred = t.barred
        /\ new.evaluated = t.evaluated /\ new.publishing = t.publishing
    BY <1>1, <1>3 DEF Tries
  <1> HIDE DEF new
  <1>5. c2' = c2 \cup RowsOf(c3, a, {"terminal"}) \/ c2' = c2 \cup RowsOf(c3, a, {"kept"})
    BY TrySays DEF Verification!Answer
  <1>6. Plain(c3, a, new, {"terminal"})
    BY <1>2, <1>4 DEF Plain
  <1>7. Plain(c3, a, new, {"kept"})
    BY <1>2, <1>4 DEF Plain
  <1> QED
    BY <1>2, <1>4, <1>5, <1>6, <1>7, PlainMoves

\* A job is cancelled.
LEMMA VerifierDies ==
    ASSUME VerifierInv, NEW a \in Begun(c3), Verification!Cancel(a)
    PROVE  VerifierInv'
  <1> DEFINE t == Tried(c3, a)
             end == IF t.publishing THEN "late" ELSE "over"
             now == Verification!Now(a, end)
             new == [now EXCEPT !.kept = t.evaluated]
  <1>1. t \in Tries /\ TryOK(c2, c3, a) /\ Verification!Att(a) = t /\ Verification!Ask(a) = AskOf(c3, a)
    BY TryParts
  <1>2. t.phase \in {"go", "pended", "evaluating", "clear"} /\ Verification!Put(a, new) /\ c1' = c1
    BY <1>1 DEF Verification!Cancel
  <1>3. now \in Tries /\ now = [phase |-> end, seen |-> t.seen, event |-> t.event, barred |-> t.barred, pended |-> t.pended,
                                evaluated |-> t.evaluated, publishing |-> t.publishing, kept |-> t.kept]
    BY NowIs DEF TryPhases
  <1>4. end \in TryPhases
    BY DEF TryPhases
  <1> HIDE DEF now, end
  <1>5. new \in Tries /\ new.phase = end /\ new.seen = t.seen /\ new.event = t.event /\ new.barred = t.barred
        /\ new.evaluated = t.evaluated /\ new.publishing = t.publishing
    BY <1>1, <1>3, <1>4 DEF Tries
  <1> HIDE DEF new
  <1>6. c2' = c2 \cup RowsOf(c3, a, {})
    BY TrySilent DEF Verification!Cancel
  <1>7. t.publishing => t.phase = "clear"
    BY <1>1, <1>2 DEF TryOK
  <1>8. Plain(c3, a, new, {})
    BY <1>2, <1>5, <1>7 DEF Plain, end
  <1> QED
    BY <1>2, <1>5, <1>6, <1>8, PlainMoves

\* A retained report is posted, or its fate is not known.
LEMMA VerifierPosts ==
    ASSUME VerifierInv, NEW a \in Begun(c3), Verification!PublishRetainedReport(a)
    PROVE  VerifierInv'
  <1> DEFINE t == Tried(c3, a)
             now == Verification!Now(a, "over")
             new == now
  <1>1. t \in Tries /\ TryOK(c2, c3, a) /\ Verification!Att(a) = t /\ Verification!Ask(a) = AskOf(c3, a)
    BY TryParts
  <1>2. t.phase = "clear" /\ AskOf(c3, a).kind = "recover" /\ Verification!Put(a, new) /\ c1' = c1
    BY <1>1 DEF Verification!PublishRetainedReport
  <1>3. now \in Tries /\ now = [phase |-> "over", seen |-> t.seen, event |-> t.event, barred |-> t.barred, pended |-> t.pended,
                                evaluated |-> t.evaluated, publishing |-> t.publishing, kept |-> t.kept]
    BY NowIs DEF TryPhases
  <1>4. new \in Tries /\ new.phase = "over" /\ new.seen = t.seen /\ new.event = t.event /\ new.barred = t.barred
        /\ new.evaluated = t.evaluated /\ new.publishing = t.publishing
    BY <1>1, <1>3
  <1> HIDE DEF new
  <1>5. c2' = c2 \cup RowsOf(c3, a, {"terminal"})
    BY TrySays DEF Verification!PublishRetainedReport
  <1>6. Plain(c3, a, new, {"terminal"})
    BY <1>2, <1>4 DEF Plain
  <1> QED
    BY <1>2, <1>4, <1>5, <1>6, PlainMoves

LEMMA VerifierLosesReport ==
    ASSUME VerifierInv, NEW a \in Begun(c3), Verification!LoseReport(a)
    PROVE  VerifierInv'
  <1> DEFINE t == Tried(c3, a)
             now == Verification!Now(a, "late")
             new == now
  <1>1. t \in Tries /\ TryOK(c2, c3, a) /\ Verification!Att(a) = t /\ Verification!Ask(a) = AskOf(c3, a)
    BY TryParts
  <1>2. t.phase = "clear" /\ AskOf(c3, a).kind = "recover" /\ Verification!Put(a, new) /\ c1' = c1
    BY <1>1 DEF Verification!LoseReport
  <1>3. now \in Tries /\ now = [phase |-> "late", seen |-> t.seen, event |-> t.event, barred |-> t.barred, pended |-> t.pended,
                                evaluated |-> t.evaluated, publishing |-> t.publishing, kept |-> t.kept]
    BY NowIs DEF TryPhases
  <1>4. new \in Tries /\ new.phase = "late" /\ new.seen = t.seen /\ new.event = t.event /\ new.barred = t.barred
        /\ new.evaluated = t.evaluated /\ new.publishing = t.publishing
    BY <1>1, <1>3
  <1> HIDE DEF new
  <1>5. c2' = c2 \cup RowsOf(c3, a, {"unsure"})
    BY TrySays DEF Verification!LoseReport
  <1>6. t.publishing
    BY <1>1, <1>2 DEF TryOK
  <1>7. Plain(c3, a, new, {"unsure"})
    BY <1>2, <1>4, <1>6 DEF Plain
  <1> QED
    BY <1>2, <1>4, <1>5, <1>7, PlainMoves

LEMMA VerifierArrives ==
    ASSUME VerifierInv, NEW a \in Begun(c3), Verification!Arrive(a)
    PROVE  VerifierInv'
  <1> DEFINE t == Tried(c3, a)
             now == Verification!Now(a, "over")
             new == now
  <1>1. t \in Tries /\ TryOK(c2, c3, a) /\ Verification!Att(a) = t /\ Verification!Ask(a) = AskOf(c3, a)
    BY TryParts
  <1>2. t.phase = "late" /\ Verification!Put(a, new) /\ c1' = c1
    BY <1>1 DEF Verification!Arrive
  <1>3. now \in Tries /\ now = [phase |-> "over", seen |-> t.seen, event |-> t.event, barred |-> t.barred, pended |-> t.pended,
                                evaluated |-> t.evaluated, publishing |-> t.publishing, kept |-> t.kept]
    BY NowIs DEF TryPhases
  <1>4. new \in Tries /\ new.phase = "over" /\ new.seen = t.seen /\ new.event = t.event /\ new.barred = t.barred
        /\ new.evaluated = t.evaluated /\ new.publishing = t.publishing
    BY <1>1, <1>3
  <1> HIDE DEF new
  <1>5. c2' = c2 \cup RowsOf(c3, a, {"terminal"})
    BY TrySays DEF Verification!Arrive
  <1>6. Plain(c3, a, new, {"terminal"})
    BY <1>2, <1>4 DEF Plain
  <1> QED
    BY <1>2, <1>4, <1>5, <1>6, PlainMoves

\* Of some attempts there is a newest one.
LEMMA NewestOne ==
    ASSUME NEW q \in Seq(VerifierRuns), NEW S, S \subseteq Begun(q), S # {}
    PROVE  Verification!Newest(S) \in S
  <1> DEFINE Ages == {Len(q) - a[1] : a \in S}
  <1>1. \A a \in S : a[1] \in Nat /\ a[1] <= Len(q) /\ a[2] \in Nat /\ a[2] <= Events
    BY TriesAre
  <1>2. Len(q) \in Nat /\ Events \in Nat
    BY ServicesAssumption
  <1>3. Ages \subseteq Nat /\ Ages # {}
    BY <1>1, <1>2
  <1>4. PICK m \in Ages : \A x \in Ages : m <= x
    BY <1>3, Least
  <1>5. PICK e \in S : m = Len(q) - e[1]
    OBVIOUS
  <1> DEFINE T == {a \in S : a[1] = e[1]}
             Waits == {Events - a[2] : a \in T}
  <1>6. Waits \subseteq Nat /\ Waits # {}
    BY <1>1, <1>2, <1>5
  <1>7. PICK n \in Waits : \A x \in Waits : n <= x
    BY <1>6, Least
  <1>8. PICK f \in T : n = Events - f[2]
    OBVIOUS
  <1>9. ASSUME NEW b \in S PROVE ~Verification!Newer(b, f)
    <2>1. b[1] <= e[1]
      <3>1. Len(q) - b[1] \in Ages
        OBVIOUS
      <3>2. Len(q) - e[1] <= Len(q) - b[1]
        BY <1>4, <1>5, <3>1
      <3> HIDE DEF Ages
      <3> QED
        BY <1>1, <1>2, <1>5, <3>2
    <2>2. b[1] = f[1] => b[2] <= f[2]
      <3> SUFFICES ASSUME b[1] = f[1] PROVE b[2] <= f[2]
        OBVIOUS
      <3>1. Events - b[2] \in Waits
        BY <1>8
      <3>2. Events - f[2] <= Events - b[2]
        BY <1>7, <1>8, <3>1
      <3>3. f \in S
        BY <1>8
      <3> HIDE DEF Waits, T
      <3> QED
        BY <1>1, <1>2, <3>2, <3>3
    <2>3. f[1] = e[1] /\ f \in S
      BY <1>8
    <2> HIDE DEF T, Waits, Ages
    <2> QED
      BY <1>1, <2>1, <2>2, <2>3 DEF Verification!Newer
  <1>10. f \in S
    BY <1>8
  <1> QED
    BY <1>9, <1>10 DEF Verification!Newest

\* What is reconciled of an attempt that is pending holds of all that followed.
LEMMA ReconciledOver ==
    ASSUME VerifierInv, NEW r \in c2, NEW me, Verification!Reconciled(r, me)
    PROVE  /\ \A b \in Verification!From(r.att) : b # me => Harmless(c3, b)
           /\ r.att \in Verification!From(r.att)
  <1>1. RowOK(c2, c3, r) /\ c3 \in Seq(VerifierRuns)
    BY DEF VerifierInv, HistoryOK
  <1>2. r.att \in Begun(c3)
    BY <1>1 DEF RowOK
  <1>3. r.att[2] \in Nat
    BY <1>1, <1>2, TriesAre
  <1>4. r.att \in Verification!From(r.att)
    BY <1>2, <1>3, VerifierWords DEF Verification!From
  <1>5. ASSUME NEW b \in Verification!From(r.att), b # me PROVE Harmless(c3, b)
    <2>1. b \in Begun(c3)
      BY VerifierWords DEF Verification!From
    <2>2. EndedOne(Tried(c3, b)) /\ ~Tried(c3, b).evaluated
      BY <1>5, VerifierWords DEF Verification!Reconciled, Verification!Ended, Verification!Unstarted
    <2> QED
      BY <2>1, <2>2 DEF Harmless
  <1> QED
    BY <1>4, <1>5

\* Whom an attempt may ask a provider after asked nobody, and will not.
LEMMA BarredHarmless ==
    ASSUME VerifierInv, NEW a \in Begun(c3), NEW seen, seen \subseteq c2, NEW event,
           Verification!MayEvaluate(a, seen, event)
    PROVE  \A b \in Verification!Barred(a, seen, event) : Harmless(c3, b)
  <1> DEFINE here == Verification!Of(seen, event)
             newest == Verification!Newest(Verification!At(here))
             own(b) == Verification!By(here, b)
             parent == Verification!Ask(a).parent
             free == parent # Verification!None /\ ~Verification!Settled(seen, parent)
             Known(b) == \/ "unused" \in Verification!Kinds(own(b))
                         \/ own(b) # {} /\ \A r \in own(b) : Verification!Reconciled(r, a)
  <1>1. c3 \in Seq(VerifierRuns) /\ \A r \in c2 : RowOK(c2, c3, r) /\ r \in RowRecords
    BY DEF VerifierInv, HistoryOK
  <1>2. \A r \in here : r \in seen /\ r \in c2 /\ r.att \in Begun(c3) /\ r.kind # "repair" /\ r.kind # "terminal" /\ r.kind \in RowKinds
    <2>1. "terminal" \notin Verification!Kinds(here)
      BY DEF Verification!MayEvaluate, Verification!Completed
    <2>2. \A r \in here : r.kind # "terminal" /\ r.kind # "repair" /\ r \in seen
      BY <2>1 DEF Verification!Kinds, Verification!Of
    <2> QED
      BY <1>1, <2>2 DEF RowOK, RowRecords
  <1>3. \A b : own(b) \subseteq here /\ \A r \in own(b) : r.att = b
    BY DEF Verification!By
  <1>4. \A b : "terminal" \notin Verification!Kinds(own(b))
    BY <1>2, <1>3 DEF Verification!Kinds
  <1>5. ASSUME here # {} PROVE newest \in Verification!At(here) /\ own(newest) # {}
    <2>1. Verification!At(here) \subseteq Begun(c3) /\ Verification!At(here) # {}
      BY <1>2, <1>5 DEF Verification!At
    <2>2. newest \in Verification!At(here)
      BY <1>1, <2>1, NewestOne
    <2> QED
      BY <2>2 DEF Verification!At, Verification!By
  <1>6. ASSUME here # {} PROVE Known(newest)
    <2>1. /\ Verification!GuardExistingEvent(seen, event) \in {"none", "retry"} \/
                (Verification!GuardExistingEvent(seen, event) = "pending" /\ \A r \in own(newest) : Verification!Reconciled(r, a))
      BY DEF Verification!MayEvaluate
    <2>2. Verification!GuardExistingEvent(seen, event) =
             IF \E r \in own(newest) : r.key # Verification!Nobody THEN "refused"
             ELSE IF Verification!Kinds(own(newest)) \cap Verification!Incomplete = {} THEN "pending"
             ELSE IF Verification!Kinds(own(newest)) \cap Verification!Incomplete = {"unused"} THEN "retry" ELSE "refused"
      BY <1>4, <1>6 DEF Verification!GuardExistingEvent
    <2>3. CASE Verification!GuardExistingEvent(seen, event) = "retry"
      BY <2>2, <2>3
    <2>4. CASE Verification!GuardExistingEvent(seen, event) = "pending"
      BY <1>5, <1>6, <2>1, <2>4
    <2>5. Verification!GuardExistingEvent(seen, event) # "none"
      BY <2>2
    <2> QED
      BY <2>1, <2>3, <2>4, <2>5
  <1>7. ASSUME free, NEW b \in Verification!At(here) PROVE Known(b)
    <2>1. own(b) # {} /\ here # {}
      BY <1>7 DEF Verification!At, Verification!By
    <2>2. Verification!Resolved(seen, event, a)
      BY <1>7 DEF Verification!MayEvaluate, Verification!Predecessor, Verification!Unfinished
    <2>3. \/ Verification!KnownNoEvaluation(own(b), event, b)
          \/ Verification!Kinds(own(b)) \in {{"terminal"}, {"terminal", "pending"}}
          \/ b = newest
          \/ \A r \in own(b) : Verification!Reconciled(r, a)
      BY <1>7, <2>2 DEF Verification!Resolved
    <2>4. CASE Verification!KnownNoEvaluation(own(b), event, b)
      <3>1. "unused" \in Verification!Kinds(Verification!By(Verification!Of(own(b), event), b))
        BY <2>4 DEF Verification!KnownNoEvaluation
      <3>2. Verification!By(Verification!Of(own(b), event), b) \subseteq own(b)
        BY DEF Verification!By, Verification!Of
      <3> QED
        BY <3>1, <3>2 DEF Verification!Kinds
    <2>5. Verification!Kinds(own(b)) \notin {{"terminal"}, {"terminal", "pending"}}
      BY <1>4
    <2> QED
      BY <1>6, <2>1, <2>3, <2>4, <2>5
  <1> HIDE DEF newest, free
  <1>8. ASSUME NEW b, Known(b)
        PROVE  /\ b # a => Harmless(c3, b)
               /\ Verification!Kinds(own(b)) = {"pending"} => \A x \in Verification!From(b) : x # a => Harmless(c3, x)
    <2>1. CASE "unused" \in Verification!Kinds(own(b))
      <3>1. PICK r \in own(b) : r.kind = "unused"
        BY <2>1 DEF Verification!Kinds
      <3>2. RowOK(c2, c3, r) /\ r.att = b
        BY <1>1, <1>2, <1>3
      <3> QED
        BY <2>1, <3>1, <3>2 DEF RowOK
    <2>2. CASE own(b) # {} /\ \A r \in own(b) : Verification!Reconciled(r, a)
      <3>1. PICK r \in own(b) : Verification!Reconciled(r, a)
        BY <2>2
      <3>2. r \in c2 /\ r.att = b
        BY <1>2, <1>3
      <3> QED
        BY <3>1, <3>2, ReconciledOver
    <2> QED
      BY <1>8, <2>1, <2>2
  <1> DEFINE known == IF here = {} THEN {} ELSE IF free THEN Verification!At(here) ELSE {newest}
  <1>9. \A b \in known : Known(b)
    BY <1>6, <1>7
  <1>10. Verification!Barred(a, seen, event) =
            (known \cup UNION {Verification!From(b) : b \in {b \in known : Verification!Kinds(own(b)) = {"pending"}}}) \ {a}
    BY DEF Verification!Barred, free, newest
  <1> HIDE DEF known, Known, own
  <1>11. ASSUME NEW x \in Verification!Barred(a, seen, event) PROVE Harmless(c3, x)
    <2>1. x # a /\ (x \in known \/ \E b \in known : Verification!Kinds(own(b)) = {"pending"} /\ x \in Verification!From(b))
      BY <1>10
    <2> QED
      BY <1>8, <1>9, <2>1
  <1> QED
    BY <1>11

\* Who is ready to report finds nobody else at the same report, but one whose
\* fate is recorded as unknown.
LEMMA ReadyAlone ==
    ASSUME VerifierInv, NEW a \in Begun(c3), AskOf(c3, a).kind = "recover",
           Verification!RecoveryHistory(c2, Tried(c3, a).event, AskOf(c3, a).source, AskOf(c3, a).source, a) = "ready"
    PROVE  AloneIn(c2, c3, a)
  <1> DEFINE event == Tried(c3, a).event
             source == AskOf(c3, a).source
             later == {r \in c2 : r.kind # "repair" /\ Verification!Newer(r.att, source) /\ r.att # a}
             same == {r \in later : r.event = event /\ r.key = source}
             ends(b) == Verification!Kinds(Verification!By(later, b)) \cap Verification!Incomplete
             answered(b) == "terminal" \in Verification!Kinds(Verification!By(same, b))
             settled == {b \in Verification!At(same) : answered(b) /\ ends(b) = {"unsure"}}
             safe == {b \in Verification!At(same) : ends(b) = {"unposted"} /\ ~answered(b)}
             open == {r \in later : ~(r \in same /\ (r.att \in settled \/ (r.att \in safe /\ r.kind \in Verification!States)))}
  <1>1. \A r \in open : r \in same /\ r.kind = "pending" /\ Verification!Reconciled(r, a)
    BY DEF Verification!RecoveryHistory
  <1>2. /\ \A r \in c2 : RowOK(c2, c3, r)
        /\ \A b \in Begun(c3) : TryOK(c2, c3, b)
        /\ c3 \in Seq(VerifierRuns)
    BY DEF VerifierInv, HistoryOK
  <1> SUFFICES ASSUME NEW b \in Begun(c3), b # a, Posting(c2, c3, b), SameReport(c3, a, b) PROVE Unsure(c2, b)
    BY DEF AloneIn
  <1> DEFINE r == RowOf(c3, b, "pending")
  <1>3. AskOf(c3, b).kind = "recover" /\ AskOf(c3, b).source = source /\ Tried(c3, b).event = event
    BY DEF Posting, SameReport
  <1>4. Tried(c3, b).publishing /\ r \in c2
    <2>1. CASE Tried(c3, b).phase \in {"clear", "late"}
      BY <1>2, <1>3, <2>1 DEF TryOK
    <2>2. CASE \E s \in c2 : s.kind = "terminal" /\ s.att = b
      BY <1>2, <1>3, <2>2 DEF RowOK
    <2> QED
      BY <2>1, <2>2 DEF Posting
  <1>5. r.att = b /\ r.kind = "pending" /\ r.event = event /\ r.key = source
    BY <1>3 DEF RowOf, KeyOf
  <1>6. source \in Begun(c3) /\ source[1] < b[1]
    BY <1>3, TryParts
  <1>7. source[1] \in Nat /\ b[1] \in Nat /\ source[2] # 0 /\ b[2] \in Nat
    BY <1>2, <1>6, TriesAre
  <1>8. Verification!Newer(b, source)
    BY <1>6, <1>7 DEF Verification!Newer
  <1> HIDE DEF r, event, source
  <1>9. r \in later /\ r \in same
    BY <1>4, <1>5, <1>8
  <1>10. \A u \in later : u \in c2
    OBVIOUS
  <1>11. \A kind : kind \in ends(b) => \E u \in later : u.att = b /\ u.kind = kind
    BY DEF Verification!Kinds, Verification!By
  <1>12. r \notin open
    <2> SUFFICES ASSUME r \in open PROVE FALSE
      OBVIOUS
    <2>1. Verification!Reconciled(r, a)
      BY <1>1
    <2>2. source # Verification!Nobody
      BY <1>7 DEF Verification!Nobody
    <2>3. b \in Verification!From(b)
      BY <1>7, VerifierWords DEF Verification!From
    <2>4. Verification!Unpublished(b, a)
      BY <1>5, <2>1, <2>2 DEF Verification!Reconciled
    <2> QED
      BY <1>4, <2>3, <2>4, VerifierWords DEF Verification!Unpublished
  <1>13. b \in settled \/ b \in safe
    BY <1>5, <1>9, <1>12
  <1>14. CASE b \in settled
    <2>1. "unsure" \in ends(b)
      BY <1>14
    <2> HIDE DEF ends, settled
    <2> QED
      BY <1>10, <1>11, <2>1 DEF Unsure
  <1>15. CASE b \in safe
    <2>1. "unposted" \in ends(b)
      BY <1>15
    <2> HIDE DEF ends, safe
    <2>2. PICK u \in c2 : u.att = b /\ u.kind = "unposted"
      BY <1>10, <1>11, <2>1
    <2>3. RowOK(c2, c3, u)
      BY <1>2
    <2>4. Tried(c3, b).phase = "over" /\ \A s \in c2 : s.att = b => s.kind # "terminal"
      BY <2>2, <2>3 DEF RowOK
    <2> QED
      BY <2>4 DEF Posting
  <1> QED
    BY <1>13, <1>14, <1>15

\* The event is complete, and the attempt may go on or not.
LEMMA VerifierDecides ==
    ASSUME VerifierInv, NEW a \in Begun(c3), Verification!BuildVerifierContext(a)
    PROVE  VerifierInv'
  <1> DEFINE t == Tried(c3, a)
             ask == AskOf(c3, a)
             event == Verification!EventOf(a)
             may == IF ask.kind = "recover" THEN Verification!MayRecover(a, t.seen, event)
                    ELSE Verification!MayEvaluate(a, t.seen, event)
             phase == IF may THEN "go" ELSE "over"
             now == Verification!Now(a, phase)
             held == IF may THEN event ELSE Verification!None
             barred == IF may /\ ask.kind = "evaluate" THEN Verification!Barred(a, t.seen, event) ELSE {}
             new == [now EXCEPT !.seen = {}, !.event = held, !.barred = barred]
  <1>1. t \in Tries /\ ask \in RunAsks /\ TryOK(c2, c3, a) /\ Verification!Att(a) = t /\ Verification!Ask(a) = ask
        /\ c3 \in Seq(VerifierRuns)
    BY TryParts
  <1>2. t.phase = "read" /\ Verification!Put(a, new) /\ c1' = c1 /\ c2' = c2
    BY <1>1 DEF Verification!BuildVerifierContext
  <1>3. ~t.evaluated /\ ~t.publishing /\ t.seen \subseteq c2
    BY <1>1, <1>2 DEF TryOK
  <1>4. phase \in TryPhases
    BY DEF TryPhases
  <1>5. \A b \in barred : Harmless(c3, b)
    BY <1>3, BarredHarmless
  <1>6. barred \subseteq AttemptIds
    BY <1>1, <1>5, TriesAre DEF Harmless
  <1>7. held \in Verified
    <2>1. t.event \in Verified
      BY <1>1 DEF Tries
    <2>2. event = [request |-> t.event.request, ci |-> c1.ci, evidence |-> ask.evidence]
      BY <1>1 DEF Verification!EventOf, Verification!HardGate
    <2>3. t.event.request \in 0..2 /\ c1.ci \in {"green", "red", "none"} /\ ask.evidence \in 0..1
      BY <1>1, <2>1 DEF VerifierInv, Verified, RunAsks
    <2>4. event \in Verified
      BY <2>2, <2>3 DEF Verified
    <2> HIDE DEF event, may
    <2> QED
      BY <2>4, FreshTry
  <1>8. phase \in {"go", "over"}
    OBVIOUS
  <1> HIDE DEF phase, held, barred
  <1>9. now \in Tries /\ now = [phase |-> phase, seen |-> t.seen, event |-> t.event, barred |-> t.barred, pended |-> t.pended,
                                evaluated |-> t.evaluated, publishing |-> t.publishing, kept |-> t.kept]
    BY <1>4, NowIs
  <1>10. new = [now EXCEPT !.seen = {}, !.event = held, !.barred = barred]
    OBVIOUS
  <1> HIDE DEF now, new, t
  <1>11. new = [phase |-> new.phase, seen |-> new.seen, event |-> new.event, barred |-> new.barred, pended |-> new.pended,
                evaluated |-> new.evaluated, publishing |-> new.publishing, kept |-> new.kept]
    BY <1>9, <1>10
  <1>12. /\ new.phase = phase /\ new.seen = {} /\ new.event = held /\ new.barred = barred /\ new.pended = t.pended
         /\ new.evaluated = t.evaluated /\ new.publishing = t.publishing /\ new.kept = t.kept
    BY <1>9, <1>10
  <1>13. new \in Tries
    BY <1>1, <1>4, <1>6, <1>7, <1>11, <1>12 DEF Tries
  <1>14. TryGoesOn(c3, a, new)
    BY <1>2, <1>3, <1>5, <1>8, <1>12 DEF TryGoesOn, t
  <1>15. Follows(c2, c3, a, new, {})
    BY <1>8, <1>12, <1>14 DEF Follows
  <1>16. c2' = c2 \cup {}
    BY <1>2
  <1> QED
    BY <1>2, <1>13, <1>15, <1>16, VerifierMoves

\* Before the report is posted, the rows are read again.
LEMMA VerifierChecks ==
    ASSUME VerifierInv, NEW a \in Begun(c3), Verification!CheckReport(a)
    PROVE  VerifierInv'
  <1> DEFINE t == Tried(c3, a)
             source == AskOf(c3, a).source
             history == IF c1.request # t.event.request THEN "refused"
                        ELSE Verification!RecoveryHistory(c2, t.event, source, source, a)
             phase == IF history = "ready" THEN "clear" ELSE "over"
             now == Verification!Now(a, phase)
             new == [now EXCEPT !.publishing = TRUE]
             kinds == IF history = "refused" THEN {"unposted"} ELSE {}
             more == RowsOf(c3, a, kinds)
  <1>1. t \in Tries /\ TryOK(c2, c3, a) /\ Verification!Att(a) = t /\ Verification!Ask(a) = AskOf(c3, a)
    BY TryParts
  <1>2. t.phase = "pended" /\ AskOf(c3, a).kind = "recover" /\ Verification!Put(a, new) /\ c1' = c1
    BY <1>1 DEF Verification!CheckReport
  <1>3. c2' = c2 \cup more
    <2>1. IF history = "refused" THEN Verification!Say(a, "unposted") ELSE UNCHANGED c2
      BY <1>1 DEF Verification!CheckReport
    <2> HIDE DEF history
    <2>2. CASE history = "refused"
      BY <2>1, <2>2, TrySays
    <2>3. CASE history # "refused"
      BY <2>1, <2>3, TrySilent
    <2> QED
      BY <2>2, <2>3
  <1>4. phase = "clear" => AloneIn(c2, c3, a)
    BY <1>2, ReadyAlone
  <1>5. phase \in {"clear", "over"} /\ kinds \in {{}, {"unposted"}} /\ (kinds # {} => phase = "over")
    OBVIOUS
  <1>6. phase \in TryPhases
    BY <1>5 DEF TryPhases
  <1> HIDE DEF phase, kinds
  <1>7. now \in Tries /\ now = [phase |-> phase, seen |-> t.seen, event |-> t.event, barred |-> t.barred, pended |-> t.pended,
                                evaluated |-> t.evaluated, publishing |-> t.publishing, kept |-> t.kept]
    BY <1>6, NowIs
  <1> HIDE DEF now
  <1>8. new \in Tries /\ new.phase = phase /\ new.seen = t.seen /\ new.event = t.event /\ new.barred = t.barred
        /\ new.evaluated = t.evaluated /\ new.publishing = TRUE
    BY <1>1, <1>6, <1>7 DEF Tries
  <1> HIDE DEF new
  <1>9. /\ t.seen \subseteq c2 /\ ~t.evaluated /\ RowOf(c3, a, "pending") \in c2
        /\ \A b \in t.barred : Harmless(c3, b)
    BY <1>1, <1>2 DEF TryOK
  <1>10. TryGoesOn(c3, a, new)
    BY <1>2, <1>5, <1>8, <1>9 DEF TryGoesOn
  <1>11. /\ \A x \in more : x.kind = "unposted" /\ x.att = a /\ x = RowOf(c3, a, x.kind) /\ phase = "over"
         /\ more \subseteq RowRecords
    <2>1. \A x \in more : x.kind = "unposted" /\ x = RowOf(c3, a, "unposted") /\ phase = "over"
      BY <1>5 DEF RowsOf, RowOf
    <2>2. RowOf(c3, a, "unposted") \in RowRecords /\ RowOf(c3, a, "unposted").att = a
      BY RowTyped DEF RowOf, RowKinds
    <2> QED
      BY <2>1, <2>2
  <1> HIDE DEF more
  <1>12. \A x \in more : AsRecorded(c3, a, new, x)
    BY <1>8, <1>11 DEF AsRecorded
  <1>13. Follows(c2, c3, a, new, more)
    BY <1>4, <1>5, <1>8, <1>9, <1>10, <1>11, <1>12 DEF Follows
  <1> QED
    BY <1>2, <1>3, <1>8, <1>13, VerifierMoves

\* What was retained is put beside its row.
LEMMA VerifierChecksRepair ==
    ASSUME VerifierInv, NEW a \in Begun(c3), Verification!CheckRepair(a)
    PROVE  VerifierInv'
  <1> DEFINE t == Tried(c3, a)
             source == AskOf(c3, a).source
             phase == IF Verification!RepairHistory(source, a) /\ Verification!Acquired(source) THEN "clear" ELSE "over"
             new == Verification!Now(a, phase)
  <1>1. t \in Tries /\ TryOK(c2, c3, a) /\ Verification!Att(a) = t /\ Verification!Ask(a) = AskOf(c3, a)
    BY TryParts
  <1>2. t.phase = "queued" /\ AskOf(c3, a).kind = "repair" /\ Verification!Put(a, new) /\ c1' = c1 /\ c2' = c2
    BY <1>1 DEF Verification!CheckRepair
  <1>3. phase \in {"clear", "over"} /\ phase \in TryPhases
    BY DEF TryPhases
  <1> HIDE DEF phase
  <1>4. new \in Tries /\ new.phase = phase /\ new.seen = t.seen /\ new.event = t.event /\ new.barred = t.barred
        /\ new.evaluated = t.evaluated /\ new.publishing = t.publishing
    BY <1>1, <1>3, NowIs
  <1> HIDE DEF new
  <1>5. Plain(c3, a, new, {})
    BY <1>2, <1>3, <1>4 DEF Plain
  <1>6. c2' = c2 \cup RowsOf(c3, a, {})
    BY <1>2, TrySilent
  <1> QED
    BY <1>2, <1>4, <1>5, <1>6, PlainMoves
LEMMA VerifierRepairs ==
    ASSUME VerifierInv, NEW a \in Begun(c3), Verification!PublishRepair(a)
    PROVE  VerifierInv'
  <1> DEFINE t == Tried(c3, a)
             source == AskOf(c3, a).source
             new == Verification!Now(a, "over")
             mark == Verification!Mark(source)
             more == IF Verification!RepairHistory(source, a) THEN {mark} ELSE {}
  <1>1. t \in Tries /\ TryOK(c2, c3, a) /\ Verification!Att(a) = t /\ Verification!Ask(a) = AskOf(c3, a)
        /\ c3 \in Seq(VerifierRuns)
    BY TryParts
  <1>2. t.phase = "clear" /\ AskOf(c3, a).kind = "repair" /\ Verification!Put(a, new) /\ c1' = c1 /\ c2' = c2 \cup more
    BY <1>1 DEF Verification!PublishRepair
  <1>3. new \in Tries /\ new.phase = "over" /\ new.seen = t.seen /\ new.event = t.event /\ new.barred = t.barred
        /\ new.evaluated = t.evaluated /\ new.publishing = t.publishing
    BY <1>1, NowIs DEF TryPhases
  <1>4. source \in Begun(c3)
    BY <1>2, TryParts
  <1>5. mark \in RowRecords /\ mark.kind = "repair" /\ mark.att = source
    <2>1. Tried(c3, source) \in Tries /\ source \in AttemptIds
      BY <1>1, <1>4, TriesAre
    <2>2. Tried(c3, source).event \in Verified /\ Verification!None \in Verified
      BY <2>1, FreshTry DEF Tries
    <2>3. Verification!Nobody \in AttemptIds
      BY DEF Verification!Nobody, AttemptIds
    <2> HIDE DEF source
    <2> QED
      BY <2>1, <2>2, <2>3, VerifierWords DEF Verification!Mark, RowRecords, RowKinds
  <1> HIDE DEF new, mark, source
  <1>6. more \subseteq RowRecords /\ (\A x, y \in more : x.kind = y.kind) /\ \A x \in more : x.kind = "repair" /\ x.att \in Begun(c3)
    BY <1>4, <1>5
  <1> HIDE DEF more
  <1>7. t.seen \subseteq c2 /\ ~t.publishing /\ \A b \in t.barred : Harmless(c3, b)
    BY <1>1, <1>2 DEF TryOK
  <1>8. TryGoesOn(c3, a, new)
    BY <1>2, <1>3, <1>7 DEF TryGoesOn
  <1>9. Follows(c2, c3, a, new, more)
    BY <1>2, <1>3, <1>6, <1>7, <1>8 DEF Follows
  <1> QED
    BY <1>2, <1>3, <1>9, VerifierMoves

LEMMA VerifierChanges ==
    ASSUME VerifierInv, Verification!Change
    PROVE  VerifierInv'
  <1>1. c2' = c2 /\ c3' = c3 /\ (c1' = [c1 EXCEPT !.request = 1 - @] \/ c1' = [c1 EXCEPT !.ci = IF @ = "green" THEN "red" ELSE "green"])
    BY DEF Verification!Change
  <1>2. c1 \in [request : 0..1, ci : {"green", "red"}]
    BY DEF VerifierInv
  <1>3. c1' \in [request : 0..1, ci : {"green", "red"}]
    BY <1>1, <1>2
  <1> QED
    BY <1>1, <1>3 DEF VerifierInv

LEMMA VerifierStep ==
    ASSUME Verifying => VerifierInv, [Next]_<<part, cells>>
    PROVE  (Verifying => VerifierInv)'
  <1> SUFFICES ASSUME Verifying' PROVE VerifierInv'
    OBVIOUS
  <1>1. CASE UNCHANGED <<part, cells>>
    BY <1>1 DEF Verifying, VerifierInv, cells
  <1>2. CASE Next
    <2>1. part = "verification" /\ Verification!Next /\ VerifierInv
      BY <1>2 DEF Next, Verifying
    <2>2. CASE Verification!Dispatch \/ Verification!Rerun \/ Verification!Change
      BY <2>1, <2>2, VerifierDispatches, VerifierReruns, VerifierChanges
    <2>3. ASSUME NEW a \in Begun(c3),
                 \/ Verification!ReadHistory(a) \/ Verification!MissHistory(a) \/ Verification!BuildVerifierContext(a)
                 \/ Verification!Pend(a) \/ Verification!LosePend(a)
                 \/ Verification!Evaluate(a) \/ Verification!NotInvoked(a) \/ Verification!Answer(a) \/ Verification!Cancel(a)
                 \/ Verification!CheckReport(a) \/ Verification!PublishRetainedReport(a) \/ Verification!LoseReport(a)
                 \/ Verification!Arrive(a) \/ Verification!CheckRepair(a) \/ Verification!PublishRepair(a)
          PROVE  VerifierInv'
      <3>1. ASSUME \/ Verification!ReadHistory(a) \/ Verification!MissHistory(a) \/ Verification!BuildVerifierContext(a)
                   \/ Verification!Pend(a) \/ Verification!LosePend(a)
            PROVE  VerifierInv'
        BY <2>1, <3>1, VerifierReads, VerifierMisses, VerifierDecides, VerifierPends, VerifierLosesPend
      <3>2. ASSUME \/ Verification!Evaluate(a) \/ Verification!NotInvoked(a) \/ Verification!Answer(a)
                   \/ Verification!Cancel(a) \/ Verification!CheckReport(a)
            PROVE  VerifierInv'
        BY <2>1, <3>2, VerifierEvaluates, VerifierNotInvoked, VerifierAnswers, VerifierDies, VerifierChecks
      <3>3. ASSUME \/ Verification!PublishRetainedReport(a) \/ Verification!LoseReport(a)
                   \/ Verification!Arrive(a) \/ Verification!CheckRepair(a) \/ Verification!PublishRepair(a)
            PROVE  VerifierInv'
        BY <2>1, <3>3, VerifierPosts, VerifierLosesReport, VerifierArrives, VerifierChecksRepair, VerifierRepairs
      <3> QED
        BY <2>3, <3>1, <3>2, <3>3
    <2> QED
      BY <2>1, <2>2, <2>3, VerifierWords DEF Verification!Next
  <1> QED
    BY <1>1, <1>2

LEMMA VerifierStart == Init => (Verifying => VerifierInv)
  <1> SUFFICES ASSUME Init, part = "verification" PROVE VerifierInv
    BY DEF Verifying
  <1>1. c1 = [request |-> 0, ci |-> "green"] /\ c2 = {} /\ c3 = <<>>
    BY DEF Init, Verification!Init
  <1>2. Begun(c3) = {} /\ DOMAIN c3 = {} /\ c3 \in Seq(VerifierRuns)
    BY <1>1 DEF Begun
  <1>3. HistoryOK(c2, c3)
    BY <1>1, <1>2 DEF HistoryOK, PostedOnce
  <1> QED
    BY <1>1, <1>3 DEF VerifierInv
LEMMA VerifierInvariance == Spec => [](Verifying => VerifierInv)
  BY VerifierStart, VerifierStep, PTL DEF Spec

\* No attempt asks a provider about an event when it may know that another has,
\* and what was retained is reported once, unless it is recorded that the fate of
\* a report is not known, for any number of runs, attempts and faults
\* (guardExistingEvent, reconcilePendingExecution, publishRetainedReport).
THEOREM EvaluatedOnceAlways == Spec => []EvaluatedOnce
  <1>1. ASSUME VerifierInv PROVE Verification!EvaluatedOnce
    <2>1. HistoryOK(c2, c3)
      BY <1>1 DEF VerifierInv
    <2>2. \A b \in Verification!Attempts : \A x \in Verification!Att(b).barred : ~Verification!Att(x).evaluated
      BY <2>1, VerifierWords DEF HistoryOK, TryOK, Harmless
    <2>3. ASSUME NEW r \in c2, r.kind = "terminal", r.key # Verification!Nobody
          PROVE  /\ r.att \in Begun(c3) /\ Posting(c2, c3, r.att) /\ r.event = Tried(c3, r.att).event
                 /\ r.key = AskOf(c3, r.att).source
      <3>1. RowOK(c2, c3, r)
        BY <2>1 DEF HistoryOK
      <3>2. r.att \in Begun(c3) /\ r = RowOf(c3, r.att, r.kind)
        BY <2>3, <3>1 DEF RowOK
      <3>3. r.key = KeyOf(AskOf(c3, r.att)) /\ r.event = Tried(c3, r.att).event
        BY <3>2 DEF RowOf
      <3>4. AskOf(c3, r.att).kind = "recover" /\ r.key = AskOf(c3, r.att).source
        BY <2>3, <3>3 DEF KeyOf, Verification!Nobody
      <3> QED
        BY <2>3, <3>2, <3>3, <3>4 DEF Posting
    <2>4. \A r, s \in {r \in c2 : r.kind = "terminal" /\ r.key # Verification!Nobody} :
              r.event = s.event /\ r.key = s.key /\ r.att # s.att
                  => \E u \in c2 : u.kind = "unsure" /\ u.att \in {r.att, s.att}
      <3> SUFFICES ASSUME NEW r \in c2, NEW s \in c2, r.kind = "terminal", r.key # Verification!Nobody,
                          s.kind = "terminal", s.key # Verification!Nobody,
                          r.event = s.event, r.key = s.key, r.att # s.att
                   PROVE  Unsure(c2, r.att) \/ Unsure(c2, s.att)
        BY DEF Unsure
      <3>1. SameReport(c3, r.att, s.att)
        BY <2>3 DEF SameReport
      <3> QED
        BY <2>1, <2>3, <3>1 DEF HistoryOK, PostedOnce
    <2> QED
      BY <2>2, <2>4 DEF Verification!EvaluatedOnce
  <1>2. (Verifying => VerifierInv) => EvaluatedOnce
    BY <1>1 DEF Verifying, EvaluatedOnce
  <1> QED
    BY <1>2, VerifierInvariance, PTL
=============================================================================
