-------------------------- MODULE AuthorityLedger --------------------------
(***************************************************************************)
(* keepalive_authority_state.js: the single-use authority that lets one    *)
(* workflow attempt recheck a blocked pull request.  One ledger file per   *)
(* pull request and one immutable index file per attempt live on a branch; *)
(* every write is one conditional PUT that is never retried.  The callers  *)
(* run in different workflow runs and interleave at every request:         *)
(*   - an attempt: prepares, finalizes, starts its worker, releases after  *)
(*     a failed preflight, confirms after its worker;                      *)
(*   - a reporter: reconciles an attempt whose run ended without a worker; *)
(*   - an updater (the keepalive loop): begins a challenge.                *)
(* call[p] is the one exported function that p is in, with what it has     *)
(* read; a step of it is one request with the checks the code makes on the *)
(* previous answer.  A PUT succeeds iff the ledger is still the record     *)
(* that was read (the blob sha is its content's), may be refused while it  *)
(* is (the branch moved: 409), and may have no answer: then it is on the   *)
(* wire, where it may land later or never.                                 *)
(***************************************************************************)
EXTENDS AuthorityRecords

CONSTANTS
    Reporters, Updaters,
    Legacy,        \* attempts that may hold a preparation written without claim
    ClockLag,      \* how far a caller's clock may be behind
    MaxFresh,      \* bound: generations
    MaxTime,       \* bound: the clock
    MaxLost,       \* bound: writes without an answer
    MaxMoves       \* bound: changes of the pull request

ASSUME LegacyAssumption == Legacy \subseteq Attempts
ASSUME ClockLagAssumption == ClockLag \in Nat
ASSUME ProcsAssumption ==
    Attempts \cap (Reporters \cup Updaters) = {} /\ Reporters \cap Updaters = {}

Procs == Attempts \cup Reporters \cup Updaters

VARIABLES
    ledger,    \* the pull request's ledger file
    index,     \* the attempts' index files
    wire,      \* ledger writes whose caller gave up on the answer
    pr,        \* head and routing of the pull request
    now,       \* the clock
    run,       \* progress of the attempts' workflow runs
    claims,    \* the signed claim each run was dispatched with
    call,      \* what each process is doing
    fresh,     \* the next generation
    lost, moves,       \* counters that bound lost writes and changes
    spent,     \* history: generation and owner of every consumed ledger
    refunded   \* history: attempts whose release was reported

storage == <<ledger, index, wire, fresh, lost, spent>>
world   == <<pr, now, moves>>
runs    == <<run, claims>>
vars    == <<storage, world, runs, call, refunded>>

Routes == {"attention", "human", "plain", "closed"}

RunStates == {"new", "queued", "refused", "prepared", "failed", "granted",
              "working", "ended", "worked"}

(* The functions reconcileFailedAuthorityAttempt calls; "idle" for none.   *)
Ops == {"idle", "recovering", "refreshing", "releasing", "reopening"}

Steps == {"idle", "preparing", "indexed", "finalizing", "consumed",
          "releasing", "release-checked", "release-rejected", "release-lost",
          "refreshing", "refresh-checked", "refresh-lost",
          "recovering", "recover-checked", "reopening", "reopen-checked",
          "confirming", "reread", "beginning", "reaped",
          "legacy-indexed", "legacy-checked", "legacy-lost", "legacy-released"}

BoundaryType ==
    [fingerprint : Fingerprints, head : Heads, expires : Int, expected : Nat]

(* A boundary is never null.                                               *)
ASSUME BoundaryAssumption == None \notin BoundaryType

CallType ==
    [step : Steps, target : Attempts \cup {None}, claim : ClaimType \cup {None},
     at : Int, prior : LedgerType \cup {Absent}, next : LedgerType \cup {Absent},
     op : Ops, boundary : BoundaryType \cup {None}, tries : 0..3]

Idle == [step |-> "idle", target |-> None, claim |-> None, at |-> 0,
         prior |-> Absent, next |-> Absent, op |-> "idle", boundary |-> None,
         tries |-> 0]

-----------------------------------------------------------------------------
(* Calls                                                                   *)

At(p, step) == call[p].step = step

Goto(p, step) == call' = [call EXCEPT ![p].step = step]

Settle(p, step, next) ==
    call' = [call EXCEPT ![p].step = step, ![p].next = next]

Done(p) == call' = [call EXCEPT ![p] = Idle]

(* p enters a function that starts by reading the ledger.                  *)
Enter(p, step, a, claim, at) ==
    call' = [call EXCEPT ![p] =
               [Idle EXCEPT !.step = step, !.target = a, !.claim = claim,
                            !.at = at, !.prior = ledger]]

(* The times a caller may have taken as "now" before its request arrives.  *)
Clock == {t \in (now - ClockLag)..now : t >= 0}

Eligible(head) == pr.head = head /\ pr.route = "attention"

(* A function called by beginChallenge returns into its loop.              *)
InBegin(p) == call[p].boundary # None

(* Mutant of Continue: a fourth read.                                      *)
OneReadTooMany(p) ==
    LET c == call[p] IN
    call' = [call EXCEPT ![p] =
               [Idle EXCEPT !.step = "beginning", !.prior = ledger, !.at = c.at,
                            !.boundary = c.boundary, !.tries = c.tries + 1]]

(* The loop of beginChallenge: three reads of the ledger at most.          *)
Continue(p) ==
    LET c == call[p] IN
    call' = [call EXCEPT ![p] =
               IF c.tries < 3
               THEN [Idle EXCEPT !.step = "beginning", !.prior = ledger,
                       !.at = c.at, !.boundary = c.boundary, !.tries = c.tries + 1]
               ELSE Idle]

(* The release of attempt call[p].target is reported.                      *)
ReportReleased(p) ==
    /\ refunded' = refunded \cup {call[p].target}
    /\ IF InBegin(p) THEN Goto(p, "reaped") ELSE Done(p)

-----------------------------------------------------------------------------
(* The conditional PUT                                                     *)

Commit(next) ==
    /\ ledger' = next
    /\ spent' = IF next.status = "consumed"
                THEN spent \cup {[generation |-> next.generation,
                                  owner |-> next.receipt.owner]}
                ELSE spent

(* Mutant of Accepted: the PUT omits the sha it read.                      *)
BlindPut(p, next) == Commit(next) /\ UNCHANGED <<wire, lost>>

Accepted(p, next) ==
    /\ ledger = call[p].prior
    /\ Commit(next)
    /\ UNCHANGED <<wire, lost>>

Rejected == UNCHANGED <<ledger, spent, wire, lost>>

Unanswered(p, next) ==
    /\ lost < MaxLost
    /\ lost' = lost + 1
    /\ wire' = wire \cup {[prior |-> call[p].prior, next |-> next]}
    /\ UNCHANGED <<ledger, spent>>

(* A write without an answer reaches the branch.                           *)
Land(w) ==
    /\ ledger = w.prior
    /\ Commit(w.next)
    /\ wire' = wire \ {w}
    /\ UNCHANGED <<index, fresh, lost, world, runs, call, refunded>>

(* A write that rotates the generation draws a new one; MaxFresh bounds it.*)
Draw == fresh <= MaxFresh /\ fresh' = fresh + 1

(* createAttemptIndex: put if absent; its answer may be lost as well.      *)
IndexHeld(a, receipt) ==
    /\ index' = IF index[a] = None THEN [index EXCEPT ![a] = receipt] ELSE index
    /\ UNCHANGED lost

IndexUncertain(a, receipt) ==
    /\ lost < MaxLost
    /\ lost' = lost + 1
    /\ index' \in {index, [index EXCEPT ![a] = IF @ = None THEN receipt ELSE @]}

-----------------------------------------------------------------------------
(* An attempt: prepare                                                     *)

(* The command checks the pull request, then reads the ledger.             *)
StartPrepare(a) ==
    /\ run[a] = "queued" /\ At(a, "idle") /\ ledger # Absent
    /\ Eligible(claims[a].head)
    /\ \E t \in Clock : Enter(a, "preparing", a, claims[a], t)
    /\ run' = [run EXCEPT ![a] = "refused"]
    /\ UNCHANGED <<storage, world, claims, refunded>>

PrepareIndex(a) ==
    LET c == call[a] IN
    /\ At(a, "preparing")
    /\ ClaimMatchesState(c.claim, c.prior, c.at)
    /\ ~Owns(a, c.prior.released) /\ ~Owns(a, c.prior.recovered)
    /\ \/ IndexHeld(a, Receipt(a, c.claim)) /\ Goto(a, "indexed")
       \/ IndexUncertain(a, Receipt(a, c.claim)) /\ Done(a)
    /\ UNCHANGED <<ledger, wire, fresh, spent, world, runs, refunded>>

PreparePut(a) ==
    LET c    == call[a]
        next == Prepared(c.prior, index[a])
    IN  /\ At(a, "indexed")
        /\ index[a] = Receipt(a, c.claim)
        /\ \/ Accepted(a, next) /\ run' = [run EXCEPT ![a] = "prepared"]
           \/ (Rejected \/ Unanswered(a, next)) /\ UNCHANGED run
        /\ Done(a)
        /\ UNCHANGED <<index, fresh, world, claims, refunded>>

-----------------------------------------------------------------------------
(* An attempt: finalize                                                    *)

StartFinalize(a) ==
    /\ run[a] = "prepared" /\ At(a, "idle")
    /\ Eligible(claims[a].head)
    /\ \E t \in Clock : Enter(a, "finalizing", a, claims[a], t)
    /\ run' = [run EXCEPT ![a] = "failed"]
    /\ UNCHANGED <<storage, world, claims, refunded>>

(* Mutant of FinalizePut: an unanswered PUT is taken for a success.        *)
FinalizeOptimistic(a) ==
    LET c    == call[a]
        next == Consumed(c.prior, c.claim)
    IN  /\ At(a, "finalizing")
        /\ PreparedFor(c.prior, a, c.claim)
        /\ index[a] = c.prior.receipt
        /\ \/ (Accepted(a, next) \/ Unanswered(a, next)) /\ Goto(a, "consumed")
           \/ Rejected /\ Done(a)
        /\ UNCHANGED <<index, fresh, world, runs, refunded>>

FinalizePut(a) ==
    LET c    == call[a]
        next == Consumed(c.prior, c.claim)
    IN  /\ At(a, "finalizing")
        /\ PreparedFor(c.prior, a, c.claim)
        /\ index[a] = c.prior.receipt
        /\ \/ Accepted(a, next) /\ Goto(a, "consumed")
           \/ (Rejected \/ Unanswered(a, next)) /\ Done(a)
        /\ UNCHANGED <<index, fresh, world, runs, refunded>>

(* The grant is denied when the pull request moved during the PUT.         *)
FinalizeGrant(a) ==
    /\ At(a, "consumed")
    /\ Eligible(call[a].claim.head)
    /\ run' = [run EXCEPT ![a] = "granted"]
    /\ Done(a)
    /\ UNCHANGED <<storage, world, claims, refunded>>

-----------------------------------------------------------------------------
(* releasePreparedChallenge, called by the attempt, by a reporter and      *)
(* inside beginChallenge                                                   *)

StartRelease(a) ==
    /\ run[a] \in {"prepared", "failed", "granted"} /\ At(a, "idle")
    /\ Eligible(claims[a].head)
    /\ \E t \in Clock : Enter(a, "releasing", a, claims[a], t)
    /\ run' = [run EXCEPT ![a] = "failed"]
    /\ UNCHANGED <<storage, world, claims, refunded>>

ReleaseAlready(p) ==
    LET c == call[p] IN
    /\ At(p, "releasing")
    /\ ReleasedFor(c.prior, c.target, c.claim)
    /\ \/ ~Expired(c.prior, c.at) /\ ReportReleased(p)
       \/ Expired(c.prior, c.at) /\ Goto(p, "refreshing") /\ UNCHANGED refunded
    /\ UNCHANGED <<storage, world, runs>>

(* An expired preparation is released only on a current pull request.      *)
ReleaseCheck(p) ==
    LET c == call[p] IN
    /\ At(p, "releasing")
    /\ PreparedFor(c.prior, c.target, c.claim)
    /\ Expired(c.prior, c.at) => Eligible(c.claim.head)
    /\ Goto(p, "release-checked")
    /\ UNCHANGED <<storage, world, runs, refunded>>

ReleasePut(p) ==
    LET c    == call[p]
        next == Released(c.prior, fresh, c.at)
    IN  /\ At(p, "release-checked")
        /\ IF Expired(c.prior, c.at) THEN Draw ELSE UNCHANGED fresh
        /\ \/ Accepted(p, next) /\ ReportReleased(p)
           \/ /\ \/ Rejected /\ Settle(p, "release-rejected", next)
                 \/ Unanswered(p, next) /\ Settle(p, "release-lost", next)
              /\ UNCHANGED refunded
        /\ UNCHANGED <<index, world, runs>>

(* Mutant of ReleaseSettle: a release without an answer counts as done.    *)
ReleaseAssumed(p) ==
    /\ At(p, "release-rejected") \/ At(p, "release-lost")
    /\ ReportReleased(p)
    /\ UNCHANGED <<storage, world, runs>>

(* After a PUT that was not accepted the ledger tells what happened; in    *)
(* beginChallenge a conflict means another round.                          *)
ReleaseSettle(p) ==
    LET c == call[p]
        settled == /\ ledger.status = "available"
                   /\ ledger.generation = c.next.generation
                   /\ ledger.released # None
                   /\ ledger.released.receipt = c.next.released.receipt
    IN  /\ At(p, "release-rejected") \/ At(p, "release-lost")
        /\ \/ settled /\ ReportReleased(p)
           \/ /\ ~settled /\ InBegin(p) /\ At(p, "release-rejected")
              /\ Continue(p)
              /\ UNCHANGED refunded
        /\ UNCHANGED <<storage, world, runs>>

-----------------------------------------------------------------------------
(* refreshReleasedChallenge and refreshRecoveredChallenge                  *)

(* findAuthorityPrForAttempt: the index agrees with a receipt of the ledger*)
FoundInLedger(a) ==
    /\ index[a] # None
    /\ \/ ledger.receipt = index[a]
       \/ ledger.released # None /\ ledger.released.receipt = index[a]
       \/ ledger.recovered # None /\ ledger.recovered.receipt = index[a]

RefreshCheck(p) ==
    LET c == call[p] IN
    /\ At(p, "refreshing")
    /\ c.prior.status = "available"
    /\ Owns(c.target, c.prior.released)
    /\ FoundInLedger(c.target)
    /\ Eligible(c.prior.head)
    /\ \/ ~Expired(c.prior, c.at) /\ ReportReleased(p)
       \/ /\ Expired(c.prior, c.at)
          /\ Goto(p, "refresh-checked")
          /\ UNCHANGED refunded
    /\ UNCHANGED <<storage, world, runs>>

RefreshPut(p) ==
    LET c    == call[p]
        next == ReleasedRefreshed(c.prior, fresh, c.at)
    IN  /\ At(p, "refresh-checked")
        /\ Draw
        /\ \/ Accepted(p, next) /\ ReportReleased(p)
           \/ /\ Rejected \/ Unanswered(p, next)
              /\ Settle(p, "refresh-lost", next)
              /\ UNCHANGED refunded
        /\ UNCHANGED <<index, world, runs>>

RefreshSettle(p) ==
    LET c == call[p] IN
    /\ At(p, "refresh-lost")
    /\ ledger.status = "available"
    /\ ledger.generation = c.next.generation
    /\ ledger.released # None
    /\ ledger.released.receipt = c.prior.released.receipt
    /\ ReportReleased(p)
    /\ UNCHANGED <<storage, world, runs>>

RecoverCheck(p) ==
    LET c == call[p] IN
    /\ At(p, "recovering")
    /\ c.prior.status = "available"
    /\ Owns(c.target, c.prior.recovered)
    /\ index[c.target] = c.prior.recovered.receipt
    /\ c.prior.recovered.receipt.claim.head = c.prior.head
    /\ Eligible(c.prior.head)
    /\ IF Expired(c.prior, c.at) THEN Goto(p, "recover-checked") ELSE Done(p)
    /\ UNCHANGED <<storage, world, runs, refunded>>

(* What the re-reads after the PUT add is the answer alone.                *)
RecoverPut(p) ==
    LET c    == call[p]
        next == RecoveredRefreshed(c.prior, fresh, c.at)
    IN  /\ At(p, "recover-checked")
        /\ \/ Draw /\ (Accepted(p, next) \/ Unanswered(p, next))
           \/ Rejected /\ UNCHANGED fresh
        /\ Done(p)
        /\ UNCHANGED <<index, world, runs, refunded>>

-----------------------------------------------------------------------------
(* A reporter: reconcileFailedAuthorityAttempt                             *)

(* Mutant of StartReconcile: the evidence about the worker is not asked for*)
ReconcileUnproven(r, a) ==
    /\ run[a] # "new" /\ At(r, "idle") /\ ledger.status = "consumed"
    /\ ledger.claim.head = ledger.head
    /\ ledger.receipt = Receipt(a, ledger.claim)
    /\ call' = [call EXCEPT ![r] =
                  [Idle EXCEPT !.step = "reread", !.op = "reopening",
                               !.target = a, !.claim = ledger.claim]]
    /\ UNCHANGED <<storage, world, runs, refunded>>

(* Mutant of StartReconcile: a preparation is left to its owner.           *)
ReconcileConsumedOnly(r, a) ==
    /\ run[a] = "ended" /\ At(r, "idle") /\ ledger.status = "consumed"
    /\ ledger.claim.head = ledger.head
    /\ ledger.receipt = Receipt(a, ledger.claim)
    /\ call' = [call EXCEPT ![r] =
                  [Idle EXCEPT !.step = "reread", !.op = "reopening",
                               !.target = a, !.claim = ledger.claim]]
    /\ UNCHANGED <<storage, world, runs, refunded>>

(* The run of a is over and its worker provably did not start.  The first  *)
(* read chooses the function that settles the attempt and reads again.     *)
StartReconcile(r, a) ==
    /\ run[a] = "ended" /\ At(r, "idle") /\ ledger # Absent
    /\ \E op \in {"recovering", "refreshing", "releasing", "reopening"} :
         /\ op = "recovering" => ledger.status = "available"
                                   /\ Owns(a, ledger.recovered)
         /\ op = "refreshing" => /\ ledger.status = "available"
                                 /\ Owns(a, ledger.released)
                                 /\ ~Owns(a, ledger.recovered)
         /\ op \in {"releasing", "reopening"} =>
              /\ ledger.status = (IF op = "releasing" THEN "prepared"
                                                      ELSE "consumed")
              /\ ledger.claim # None
              /\ ledger.claim.head = ledger.head
              /\ ledger.receipt = Receipt(a, ledger.claim)
         /\ call' = [call EXCEPT ![r] =
                       [Idle EXCEPT !.step = "reread", !.op = op, !.target = a,
                                    !.claim = ledger.claim]]
    /\ UNCHANGED <<storage, world, runs, refunded>>

Reread(r) ==
    /\ At(r, "reread")
    /\ \E t \in Clock :
         Enter(r, call[r].op, call[r].target, call[r].claim, t)
    /\ UNCHANGED <<storage, world, runs, refunded>>

(* reopenUnconfirmedChallenge with the evidence not-started; with any other*)
(* evidence it writes nothing.                                             *)
ReopenCheck(r) ==
    LET c == call[r] IN
    /\ At(r, "reopening")
    /\ c.prior.status = "consumed"
    /\ c.prior.head = c.claim.head
    /\ c.prior.generation = c.claim.generation
    /\ c.prior.fingerprint = c.claim.fingerprint
    /\ c.prior.receipt = Receipt(c.target, c.claim)
    /\ pr.head = c.prior.head
    /\ pr.route \notin {"closed", "human"}
    /\ \E t \in Clock :
         call' = [call EXCEPT ![r].step = "reopen-checked", ![r].at = t]
    /\ UNCHANGED <<storage, world, runs, refunded>>

ReopenPut(r) ==
    LET next == Reopened(call[r].prior, fresh, call[r].at)
    IN  /\ At(r, "reopen-checked")
        /\ \/ Draw /\ (Accepted(r, next) \/ Unanswered(r, next))
           \/ Rejected /\ UNCHANGED fresh
        /\ Done(r)
        /\ UNCHANGED <<index, world, runs, refunded>>

-----------------------------------------------------------------------------
(* An attempt: confirmChallenge, after its worker and the needs-human label*)

StartConfirm(a) ==
    LET l == ledger IN
    /\ run[a] = "working" /\ At(a, "idle")
    /\ l.status = "consumed"
    /\ ClaimOf(l) = claims[a] /\ l.receipt = Receipt(a, claims[a])
    /\ pr.head = l.head /\ pr.route = "human"
    /\ \E t \in Clock : ~Expired(l, t) /\ Enter(a, "confirming", a, claims[a], t)
    /\ UNCHANGED <<storage, world, runs, refunded>>

ConfirmPut(a) ==
    LET next == Confirmed(call[a].prior)
    IN  /\ At(a, "confirming")
        /\ Accepted(a, next) \/ Rejected \/ Unanswered(a, next)
        /\ Done(a)
        /\ UNCHANGED <<index, fresh, world, runs, refunded>>

-----------------------------------------------------------------------------
(* An updater: beginChallenge                                              *)

StartBegin(u) ==
    /\ At(u, "idle")
    /\ \E t \in Clock, f \in Fingerprints, h \in Heads, x \in 0..(fresh - 1) :
         call' = [call EXCEPT ![u] =
                    [Idle EXCEPT !.step = "beginning", !.at = t, !.tries = 1,
                       !.prior = ledger,
                       !.boundary = [fingerprint |-> f, head |-> h,
                                     expires |-> t + Window, expected |-> x]]]
    /\ UNCHANGED <<storage, world, runs, refunded>>

Beginning(u) ==
    /\ At(u, "beginning")
    /\ ExpectedGenerationMatches(call[u].prior, call[u].boundary.expected,
                                 call[u].boundary.head)

(* Mutant of BeginIssue: a receipt on the same head does not stay.         *)
IssueOverReceipt(u) ==
    LET c    == call[u]
        next == Issued(c.prior, c.boundary, fresh)
    IN  /\ Beginning(u)
        /\ \/ c.prior.head # c.boundary.head
           \/ c.prior.status # "available"
           \/ c.prior.fingerprint # c.boundary.fingerprint
           \/ Expired(c.prior, c.at)
        /\ \/ Draw /\ (Accepted(u, next) \/ Unanswered(u, next)) /\ Done(u)
           \/ Rejected /\ Continue(u) /\ UNCHANGED fresh
        /\ UNCHANGED <<index, world, runs, refunded>>

(* A receipt on the same head stays; so does a live challenge of the same  *)
(* boundary.                                                               *)
BeginIssue(u) ==
    LET c    == call[u]
        next == Issued(c.prior, c.boundary, fresh)
    IN  /\ Beginning(u)
        /\ c.prior.head = c.boundary.head =>
             /\ c.prior.status = "available"
             /\ c.prior.fingerprint = c.boundary.fingerprint
                  => Expired(c.prior, c.at)
        /\ \/ Draw /\ (Accepted(u, next) \/ Unanswered(u, next)) /\ Done(u)
           \/ Rejected /\ Continue(u) /\ UNCHANGED fresh
        /\ UNCHANGED <<index, world, runs, refunded>>

Reapable(c) ==
    /\ c.prior.status = "prepared"
    /\ c.prior.head = c.boundary.head
    /\ Expired(c.prior, c.at)

(* recoverExpiredPreparation: the index and the pull request are verified, *)
(* then the preparation is released in the name of its owner.              *)
BeginReap(u) ==
    LET c == call[u] IN
    /\ Beginning(u) /\ Reapable(c) /\ c.prior.claim # None
    /\ PreparedFor(c.prior, c.prior.receipt.owner, c.prior.claim)
    /\ c.prior.claim = ClaimOf(c.prior)
    /\ index[c.prior.receipt.owner] = c.prior.receipt
    /\ Eligible(c.prior.head)
    /\ call' = [call EXCEPT ![u] =
                  [@ EXCEPT !.step = "releasing", !.prior = ledger,
                            !.target = c.prior.receipt.owner,
                            !.claim = c.prior.claim]]
    /\ UNCHANGED <<storage, world, runs, refunded>>

(* A preparation that is no longer current is another round.               *)
BeginRetry(u) ==
    LET c == call[u] IN
    /\ At(u, "releasing") /\ InBegin(u)
    /\ ~PreparedFor(c.prior, c.target, c.claim)
    /\ ~ReleasedFor(c.prior, c.target, c.claim)
    /\ Continue(u)
    /\ UNCHANGED <<storage, world, runs, refunded>>

BeginReaped(u) ==
    LET c == call[u] IN
    /\ At(u, "reaped")
    /\ ReleasedFor(ledger, c.target, c.claim)
    /\ Eligible(c.claim.head)
    /\ Continue(u)
    /\ UNCHANGED <<storage, world, runs, refunded>>

(* Mutant of LegacyIndex: goes on without having seen the index.           *)
LegacyIndexUnseen(u) ==
    LET c == call[u]
        a == c.prior.receipt.owner
    IN  /\ Beginning(u) /\ Reapable(c) /\ c.prior.claim = None
        /\ c.prior.receipt.claim.head = c.prior.head
        /\ Eligible(c.prior.head)
        /\ IndexHeld(a, c.prior.receipt) \/ IndexUncertain(a, c.prior.receipt)
        /\ Goto(u, "legacy-indexed")
        /\ UNCHANGED <<ledger, wire, fresh, spent, world, runs, refunded>>

(* recoverExpiredLegacyPreparation: the index is created from the receipt. *)
LegacyIndex(u) ==
    LET c == call[u]
        a == c.prior.receipt.owner
    IN  /\ Beginning(u) /\ Reapable(c) /\ c.prior.claim = None
        /\ c.prior.receipt.claim.head = c.prior.head
        /\ Eligible(c.prior.head)
        /\ IndexHeld(a, c.prior.receipt) \/ IndexUncertain(a, c.prior.receipt)
        /\ index'[a] = c.prior.receipt
        /\ Goto(u, "legacy-indexed")
        /\ UNCHANGED <<ledger, wire, fresh, spent, world, runs, refunded>>

LegacyReread(u) ==
    LET c == call[u] IN
    /\ At(u, "legacy-indexed")
    /\ ledger.status = "prepared" /\ ledger.claim = None
    /\ ledger.receipt = c.prior.receipt
    /\ ledger.generation = c.prior.generation
    /\ Eligible(c.prior.head)
    /\ call' = [call EXCEPT ![u].step = "legacy-checked", ![u].prior = ledger]
    /\ UNCHANGED <<storage, world, runs, refunded>>

LegacyPut(u) ==
    LET c    == call[u]
        next == Released(c.prior, fresh, c.at)
    IN  /\ At(u, "legacy-checked")
        /\ Draw
        /\ \/ Accepted(u, next) /\ Goto(u, "legacy-released")
           \/ (Rejected \/ Unanswered(u, next)) /\ Settle(u, "legacy-lost", next)
        /\ UNCHANGED <<index, world, runs, refunded>>

(* Another ledger, or a read that failed, means another round.             *)
LegacySettle(u) ==
    /\ At(u, "legacy-lost")
    /\ \/ ledger = call[u].next /\ Goto(u, "legacy-released")
       \/ Continue(u)
    /\ UNCHANGED <<storage, world, runs, refunded>>

LegacyReleased(u) ==
    /\ At(u, "legacy-released")
    /\ Eligible(call[u].boundary.head)
    /\ Continue(u)
    /\ UNCHANGED <<storage, world, runs, refunded>>

-----------------------------------------------------------------------------
(* The world around the ledger                                             *)

(* An early return, a failed read or a killed process: a call ends without *)
(* another write.  The guards of the steps above are the code's.           *)
Return(p) ==
    /\ ~At(p, "idle")
    /\ Done(p)
    /\ UNCHANGED <<storage, world, runs, refunded>>

(* The sweep signs the current challenge of an eligible pull request and   *)
(* dispatches a run with it.                                               *)
Dispatch(a) ==
    /\ run[a] = "new"
    /\ ledger.status = "available"
    /\ Eligible(ledger.head) /\ ~Expired(ledger, now)
    /\ run' = [run EXCEPT ![a] = "queued"]
    /\ claims' = [claims EXCEPT ![a] = ClaimOf(ledger)]
    /\ UNCHANGED <<storage, world, call, refunded>>

(* All jobs of a finished run are run again: a new attempt, the same claim.*)
Rerun(a, b) ==
    /\ run[a] = "new" /\ run[b] \in {"ended", "worked"}
    /\ run' = [run EXCEPT ![a] = "queued"]
    /\ claims' = [claims EXCEPT ![a] = claims[b]]
    /\ UNCHANGED <<storage, world, call, refunded>>

StartWorker(a) ==
    /\ run[a] = "granted" /\ At(a, "idle")
    /\ run' = [run EXCEPT ![a] = "working"]
    /\ UNCHANGED <<storage, world, claims, call, refunded>>

(* A run ends, or is cancelled at any point.                               *)
EndRun(a) ==
    /\ run[a] \notin {"new", "ended", "worked"}
    /\ run' = [run EXCEPT ![a] = IF @ = "working" THEN "worked" ELSE "ended"]
    /\ Done(a)
    /\ UNCHANGED <<storage, world, claims, refunded>>

Tick ==
    /\ now < MaxTime
    /\ now' = now + 1
    /\ UNCHANGED <<storage, pr, moves, runs, call, refunded>>

(* A push, or a change of labels or state of the pull request.             *)
MovePr ==
    /\ moves < MaxMoves
    /\ moves' = moves + 1
    /\ \E h \in Heads, r \in Routes :
         /\ h = pr.head \/ r = pr.route
         /\ pr' = [head |-> h, route |-> r]
    /\ pr' # pr
    /\ UNCHANGED <<storage, now, runs, call, refunded>>

-----------------------------------------------------------------------------
LegacyPreparation(a, h, f) ==
    LET claim == [generation |-> 1, fingerprint |-> f, expires |-> Window, head |-> h]
    IN  [Absent EXCEPT !.status = "prepared", !.revision = 1, !.generation = 1,
           !.fingerprint = f, !.head = h, !.expires = Window,
           !.receipt = Receipt(a, claim)]

Init ==
    /\ \/ /\ ledger = Absent /\ fresh = 1
          /\ run = [a \in Attempts |-> "new"]
       \/ \E a \in Legacy, h \in Heads, f \in Fingerprints :
            /\ ledger = LegacyPreparation(a, h, f) /\ fresh = 2
            /\ run = [b \in Attempts |-> IF b = a THEN "ended" ELSE "new"]
    /\ claims = [a \in Attempts |->
                   IF run[a] = "new" THEN None ELSE ledger.receipt.claim]
    /\ index = [a \in Attempts |-> None]
    /\ wire = {}
    /\ pr \in [head : Heads, route : {"attention"}]
    /\ now = 0
    /\ call = [p \in Procs |-> Idle]
    /\ lost = 0 /\ moves = 0
    /\ spent = {} /\ refunded = {}

AttemptStep(a) ==
    \/ Dispatch(a) \/ \E b \in Attempts : Rerun(a, b)
    \/ StartPrepare(a) \/ PrepareIndex(a) \/ PreparePut(a)
    \/ StartFinalize(a) \/ FinalizePut(a) \/ FinalizeGrant(a)
    \/ StartRelease(a) \/ StartWorker(a)
    \/ StartConfirm(a) \/ ConfirmPut(a) \/ EndRun(a)

ReporterStep(r) ==
    \/ \E a \in Attempts : StartReconcile(r, a)
    \/ Reread(r)
    \/ RecoverCheck(r) \/ RecoverPut(r)
    \/ ReopenCheck(r) \/ ReopenPut(r)

UpdaterStep(u) ==
    \/ StartBegin(u) \/ BeginIssue(u)
    \/ BeginReap(u) \/ BeginRetry(u) \/ BeginReaped(u)
    \/ LegacyIndex(u) \/ LegacyReread(u) \/ LegacyPut(u)
    \/ LegacySettle(u) \/ LegacyReleased(u)

SharedStep(p) ==
    \/ ReleaseAlready(p) \/ ReleaseCheck(p) \/ ReleasePut(p) \/ ReleaseSettle(p)
    \/ RefreshCheck(p) \/ RefreshPut(p) \/ RefreshSettle(p)
    \/ Return(p)

Next ==
    \/ \E a \in Attempts : AttemptStep(a)
    \/ \E r \in Reporters : ReporterStep(r)
    \/ \E u \in Updaters : UpdaterStep(u)
    \/ \E p \in Procs : SharedStep(p)
    \/ \E w \in wire : Land(w)
    \/ Tick \/ MovePr

Spec == Init /\ [][Next]_vars

(* The hourly sweep replays the reporter for every ended attempt, and a    *)
(* request that is repeated for ever is answered in the end; nothing is    *)
(* assumed of attempts and updaters.                                       *)
ReporterFairness(r) ==
    /\ WF_vars(Return(r))
    /\ \A a \in Attempts : SF_vars(StartReconcile(r, a))
    /\ SF_vars(Reread(r))
    /\ SF_vars(ReleaseCheck(r)) /\ SF_vars(ReleasePut(r) /\ ledger' # ledger)
    /\ SF_vars(ReopenCheck(r)) /\ SF_vars(ReopenPut(r) /\ ledger' # ledger)

FairSpec == Spec /\ \A r \in Reporters : ReporterFairness(r)

-----------------------------------------------------------------------------
(* Properties                                                              *)

(* Every variable keeps its shape.                                         *)
TypeOK ==
    /\ ledger \in LedgerType \cup {Absent}
    /\ index \in [Attempts -> ReceiptType \cup {None}]
    /\ wire \subseteq [prior : LedgerType \cup {Absent}, next : LedgerType]
    /\ pr \in [head : Heads, route : Routes]
    /\ now \in Nat
    /\ run \in [Attempts -> RunStates]
    /\ claims \in [Attempts -> ClaimType \cup {None}]
    /\ call \in [Procs -> CallType]
    /\ fresh \in Nat /\ lost \in Nat /\ moves \in Nat
    /\ spent \subseteq [generation : Nat, owner : Attempts]
    /\ refunded \subseteq Attempts

(* A generation that was consumed once is never offered or reserved again, *)
(* whatever writes are in flight: only new generations authorize.          *)
NeverReissued ==
    ledger.status \in {"available", "prepared"} =>
        \A s \in spent : s.generation # ledger.generation

(* A generation is consumed by one attempt at most.                        *)
SingleUse ==
    \A s, t \in spent : s.generation = t.generation => s.owner = t.owner

(* A granted run holds the receipt of the generation it was dispatched     *)
(* with, even when later writers have moved the ledger on.                 *)
GrantsAreSpent ==
    \A a \in Attempts :
        run[a] \in {"granted", "working", "worked"} =>
            [generation |-> claims[a].generation, owner |-> a] \in spent

(* The ledger never offers a refund of a receipt whose worker ran: neither *)
(* a late release nor a reporter can give back authority that was used.    *)
WorkNeverRefunded ==
    \A a \in Attempts :
        run[a] \in {"working", "worked"} =>
            ~Owns(a, ledger.released) /\ ~Owns(a, ledger.recovered)

(* An attempt that is reported released never consumes, not even by a write*)
(* that was in flight when the release was reported.                       *)
ReleasedNeverSpent == \A s \in spent : s.owner \notin refunded

(* Every receipt the ledger holds or refunds is the one in the immutable   *)
(* index of its owner; only a preparation of the old format may have none. *)
ReceiptBacked ==
    /\ ledger.receipt # None =>
         \/ index[ledger.receipt.owner] = ledger.receipt
         \/ /\ ledger.status = "prepared" /\ ledger.claim = None
            /\ index[ledger.receipt.owner] = None
    /\ \A refund \in {ledger.released, ledger.recovered} \ {None} :
         index[refund.receipt.owner] = refund.receipt

(* While the head stays, a spent receipt moves in two ways only: it is     *)
(* confirmed, or it is reopened under a new generation after its run ended *)
(* without a worker.  A confirmed one does not move.                       *)
SpentReceiptMoves ==
    /\ ledger.status \in {"consumed", "confirmed"}
    /\ ledger'.head = ledger.head
    /\ ledger' # ledger
    => /\ ledger.status = "consumed"
       /\ \/ /\ ledger'.status = "confirmed"
             /\ ledger'.receipt = ledger.receipt
             /\ ledger'.generation = ledger.generation
          \/ /\ ledger'.status = "available"
             /\ Owns(ledger.receipt.owner, ledger'.recovered)
             /\ ledger'.generation # ledger.generation
             /\ run[ledger.receipt.owner] = "ended"

SpentReceiptMovesProperty == [][SpentReceiptMoves]_vars

(* The run of a ended without a worker while the ledger holds its receipt. *)
Stranded(a) ==
    /\ ledger.status \in {"prepared", "consumed"}
    /\ ledger.receipt.owner = a
    /\ run[a] = "ended"

(* If the pull request stays eligible, no ended attempt keeps the authority*)
(* for ever: neither a killed job, nor a lost answer, nor a preparation    *)
(* that lands after its run is over blocks the next challenge.             *)
StrandedAuthorityFreed ==
    <>[]Eligible(ledger.head) =>
        \A a \in Attempts : []<>~Stranded(a)

-----------------------------------------------------------------------------
(* Refinement                                                              *)

Phase == CASE ledger.status = "absent"    -> "none"
           [] ledger.status = "available" -> "open"
           [] ledger.status = "prepared"  -> "reserved"
           [] ledger.status = "consumed"  -> "spent"
           [] ledger.status = "confirmed" -> "settled"

Holder == IF ledger.receipt = None THEN None ELSE ledger.receipt.owner

Authority ==
    INSTANCE SingleUseAuthority
    WITH Attempts <- Attempts, None <- None, phase <- Phase,
         generation <- ledger.generation, holder <- Holder, spent <- spent

(* The ledger is a single-use authority: every write that takes effect,    *)
(* whoever sent it and whenever it lands, is a step of that specification. *)
ImplementsSingleUse == Authority!Spec
=============================================================================
