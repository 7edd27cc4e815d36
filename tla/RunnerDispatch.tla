--------------------------- MODULE RunnerDispatch ---------------------------
(***************************************************************************)
(* scripts/runner_lib/core.py: which workflow attempt may start a runner   *)
(* on a pull request, for one provider.  The record is kept in comments of *)
(* the pull request: a dispatch posts an immutable reservation, its        *)
(* completion a receipt that names the reservation, and a reader takes the *)
(* newest reservation and the newest receipt for it.  There is no lock:    *)
(* an attempt reads, decides and posts in separate requests, and a post    *)
(* whose answer is lost may have been stored, be stored later, or never.   *)
(* An attempt that answers an authority challenge also holds a preparation *)
(* in the ledger of AuthorityLedger; auth is what becomes of it, seen from *)
(* here: prepare, finalize and release are one step each.                  *)
(***************************************************************************)
EXTENDS Integers, Sequences, FiniteSets, FiniteSetsExt

CONSTANTS
    Attempts,    \* workflow attempts
    Heads,       \* commit SHAs the pull request's head takes
    None,
    Limit,       \* UNPRODUCTIVE_COMPLETION_RETRY_LIMIT
    StaleAfter,  \* PENDING_STALE_AFTER_SECONDS
    Cooldown,    \* UNPRODUCTIVE_COMPLETION_COOLDOWN_SECONDS
    Serial,      \* the attempts share a concurrency group
    Late,        \* a post without an answer may be stored after later reads
    MaxTime,     \* bound: the clock
    MaxLost,     \* bound: posts without an answer
    MaxMoves,    \* bound: changes of the head
    MaxRacing    \* bound: attempts followed once an answer was lost

ASSUME LimitAssumption == Limit \in Nat
ASSUME DelaysAssumption == StaleAfter \in Nat /\ Cooldown \in Nat
ASSUME ModesAssumption == Serial \in BOOLEAN /\ Late \in BOOLEAN

VARIABLES
    comments,  \* the trusted marker comments, oldest first, each a
               \* reservation or a receipt with its record
    wire,      \* comments whose writer gave up on the answer
    fallback,  \* the record an older version left in a repository variable
    head,      \* head of the pull request
    now,       \* the clock
    pc,        \* attempt -> what it does next, see below
    job,       \* attempt -> arguments and what it has read
    auth,      \* attempt -> its preparation in the authority ledger: none,
               \* prepared, consumed, refunded or reaped
    lost, moves    \* counters that bound lost posts and changes of the head

store == <<comments, wire, lost>>
world == <<fallback, head, now, moves>>
vars  == <<store, world, pc, job, auth>>

Terminal == {"completed", "error"}

Known == {"yes", "no", "unknown"}

(* A continuation count that was never written is -1.                      *)
RecordType ==
    [owner : Attempts \cup {None}, head : Heads,
     status : Terminal \cup {"pending"}, started : Int, ended : Int,
     productive : Known, incomplete : Known,
     unproductive : 0..(Limit + 1), continuations : -1..(Limit + 1),
     preflight : BOOLEAN]

ASSUME NoneAssumption == None \notin Attempts \cup RecordType

(* Where an attempt stands.  Up to "release" it is inside should_dispatch, *)
(* at "readback" inside finalize_authority_challenge, at "cleanup" and     *)
(* "refund" inside release_authority_challenge, and at "close" and         *)
(* "record" inside record_completion.                                      *)
Inactive == {"new", "recorded", "ended"}

(* Of a job, prior is the record a dispatch is decided on and mine the     *)
(* attempt's own as it last posted or read it; closing holds while it      *)
(* gives an authority challenge back.                                      *)

(* What a run tells record_completion.                                     *)
OutcomeType ==
    [success : BOOLEAN, productive : Known, incomplete : Known,
     preflight : BOOLEAN]

At(a, place) == pc[a] = place

Goto(a, place) == pc' = [pc EXCEPT ![a] = place]

-----------------------------------------------------------------------------
(* read_record                                                             *)

Reservations(s) == {i \in DOMAIN s : s[i].kind = "reservation"}

(* Mutant of ReceiptsFor: any receipt after the reservation counts.        *)
AnyReceipts(s, i) == {j \in (i + 1)..Len(s) : s[j].kind = "receipt"}

ReceiptsFor(s, i) ==
    {j \in (i + 1)..Len(s) :
        s[j].kind = "receipt" /\ s[j].record.owner = s[i].record.owner}

(* The record in the primary store: the newest reservation, or the newest  *)
(* receipt for it.                                                         *)
RecordIn(s) ==
    IF Reservations(s) = {} THEN None
    ELSE LET i == Max(Reservations(s)) IN
         s[Max({i} \cup ReceiptsFor(s, i))].record

(* Only when there is none, the record of the older version.               *)
Prior == IF RecordIn(comments) = None THEN fallback ELSE RecordIn(comments)

-----------------------------------------------------------------------------
(* The decision                                                            *)

PendingIsStale(r, t) == t - r.started > StaleAfter

PendingIsLive(r, t) ==
    r # None /\ r.status = "pending" /\ ~PendingIsStale(r, t)

UnproductiveCount(r) == IF r = None THEN 0 ELSE r.unproductive

ContinuationCount(r) ==
    IF r = None THEN 0
    ELSE IF r.continuations = -1 THEN r.unproductive ELSE r.continuations

Retryable(r) ==
    r.status = "completed" /\ (r.productive = "no" \/ r.incomplete = "yes")

RetryCount(r) ==
    IF r.productive = "no"
    THEN Max({ContinuationCount(r), r.unproductive})
    ELSE ContinuationCount(r)

(* should_dispatch without a challenge; an error is always retried.        *)
Grants(r, h, t) ==
    \/ r = None
    \/ r.head # h
    \/ r.status = "error"
    \/ r.status = "pending" /\ PendingIsStale(r, t)
    \/ Retryable(r) /\ (RetryCount(r) <= Limit \/ t >= r.ended + Cooldown)

-----------------------------------------------------------------------------
(* The records that are written                                            *)

(* Mutant of Reservation: the tally starts again.                          *)
ReservationAfresh(r, a, h, t) ==
    [owner |-> a, head |-> h, status |-> "pending", started |-> t, ended |-> t,
     productive |-> "unknown", incomplete |-> "unknown", unproductive |-> 0,
     continuations |-> -1, preflight |-> FALSE]

(* _reserve_dispatch: on the same head the tally of r is carried over.     *)
Reservation(r, a, h, t) ==
    LET same  == r # None /\ r.head = h
        count == ContinuationCount(r)
    IN  [owner |-> a, head |-> h, status |-> "pending",
         started |-> t, ended |-> t,
         productive |-> IF same /\ r.unproductive # 0 /\ r.productive = "no"
                        THEN "no" ELSE "unknown",
         incomplete |-> IF same /\ r.incomplete = "yes" THEN "yes" ELSE "unknown",
         unproductive |-> IF same THEN r.unproductive ELSE 0,
         continuations |-> IF same /\ count # 0 THEN count ELSE -1,
         preflight |-> FALSE]

Capped(n) == IF n > Limit + 1 THEN Limit + 1 ELSE n

(* record_completion for the attempt that holds r: what a replay of a      *)
(* recorded completion says of the work does not count again.              *)
Completion(r, o, t) ==
    LET replay     == r.status \in Terminal
        measured   == IF replay THEN r.productive ELSE o.productive
        productive == IF measured = "unknown" /\ r.productive = "no"
                      THEN "no" ELSE measured
        incomplete == IF replay \/ o.incomplete = "unknown"
                      THEN r.incomplete ELSE o.incomplete
        unproductive ==
          CASE productive = "yes"     -> 0
            [] productive = "unknown" -> r.unproductive
            [] replay -> IF r.unproductive = 0 THEN 1 ELSE r.unproductive
            [] OTHER  -> Capped(r.unproductive + 1)
        continuations ==
          CASE incomplete = "no"  -> 0
            [] incomplete = "yes" ->
                 IF replay THEN ContinuationCount(r)
                 ELSE Capped(ContinuationCount(r) + 1)
            [] OTHER -> IF productive = "no" THEN unproductive
                                             ELSE r.continuations
        done == [r EXCEPT !.ended = IF replay THEN r.ended ELSE t,
                          !.incomplete = incomplete, !.preflight = o.preflight]
    IN  IF o.success
        THEN [done EXCEPT !.status = "completed", !.productive = productive,
                          !.unproductive = unproductive,
                          !.continuations = continuations]
        ELSE [done EXCEPT !.status = "error"]

Outcome(success, productive, incomplete) ==
    [success |-> success, productive |-> productive,
     incomplete |-> incomplete, preflight |-> FALSE]

PreflightFailed ==
    [success |-> FALSE, productive |-> "unknown", incomplete |-> "unknown",
     preflight |-> TRUE]

(* What a run that was dispatched on head h may find when its worker has   *)
(* exited: a new head, the old one with some or no progress on the         *)
(* checklist, or nothing readable.                                         *)
Outcomes(h) ==
    {Outcome(TRUE, "unknown", "unknown"), Outcome(FALSE, "unknown", "unknown")}
    \cup IF head # h THEN {Outcome(TRUE, "yes", "no")}
         ELSE {o \in OutcomeType :
                 o.success /\ o.incomplete # "unknown" /\ ~o.preflight}
              \cup {Outcome(FALSE, "unknown", "yes")}

-----------------------------------------------------------------------------
(* Comments                                                                *)

Entry(kind, r) == [kind |-> kind, record |-> r]

(* A comment is created, or replaces the one that is already at a place.   *)
Stored(s, e, place) ==
    IF place = 0 THEN Append(s, e) ELSE [s EXCEPT ![place] = e]

Put(e, place) ==
    /\ comments' = Stored(comments, e, place)
    /\ UNCHANGED <<wire, lost>>

Started == {a \in Attempts : pc[a] # "new"}

(* No answer: the comment was stored, will be, or will never be.           *)
PutUnanswered(e, place) ==
    /\ lost < MaxLost /\ Cardinality(Started) <= MaxRacing
    /\ lost' = lost + 1
    /\ \/ comments' = Stored(comments, e, place) /\ UNCHANGED wire
       \/ Late /\ wire' = wire \cup {[entry |-> e, place |-> place]}
               /\ UNCHANGED comments
       \/ UNCHANGED <<comments, wire>>

(* write_completion replaces the attempt's own receipt if it is newer than *)
(* every reservation.                                                      *)
ReceiptPlace(a) ==
    LET newest == Max({0} \cup Reservations(comments))
    IN  Max({0} \cup {j \in DOMAIN comments :
                          /\ j > newest
                          /\ comments[j].kind = "receipt"
                          /\ comments[j].record.owner = a})

-----------------------------------------------------------------------------
(* should_dispatch                                                         *)

Alone(a) == Serial => \A b \in Attempts \ {a} : pc[b] \in Inactive

Set(a, field, value) == job' = [job EXCEPT ![a] = [@ EXCEPT ![field] = value]]

(* What a command had read is gone when it exits.                          *)
Forget(a) == job' = [job EXCEPT ![a] = [@ EXCEPT !.prior = None, !.mine = None]]

(* A workflow run reaches the dispatch step, with or without a challenge.  *)
Start(a) ==
    /\ At(a, "new")
    /\ Alone(a)
    /\ lost > 0 => Cardinality(Started) < MaxRacing
    /\ \E authority \in BOOLEAN :
          job' = [job EXCEPT ![a] =
                    [@ EXCEPT !.authority = authority, !.head = head]]
    /\ Goto(a, "read")
    /\ UNCHANGED <<store, world, auth>>

(* A grant is decided on the record as it was read, whatever happens to it *)
(* before the reservation is posted.                                       *)
Read(a) ==
    /\ At(a, "read")
    /\ IF job[a].authority
       THEN /\ Goto(a, IF PendingIsLive(Prior, now) THEN "ended" ELSE "prepare")
            /\ UNCHANGED job
       ELSE IF Grants(Prior, job[a].head, now)
            THEN Set(a, "prior", Prior) /\ Goto(a, "post")
            ELSE Goto(a, "ended") /\ UNCHANGED job
    /\ UNCHANGED <<store, world, auth>>

Prepare(a) ==
    /\ At(a, "prepare")
    /\ auth' = [auth EXCEPT ![a] = "prepared"]
    /\ Goto(a, "reread")
    /\ UNCHANGED <<store, world, job>>

(* The second read: a dispatch that took the slot during the preparation   *)
(* keeps it.                                                               *)
Reread(a) ==
    /\ At(a, "reread")
    /\ IF PendingIsLive(Prior, now)
       THEN Goto(a, "release") /\ UNCHANGED job
       ELSE Set(a, "prior", Prior) /\ Goto(a, "post")
    /\ UNCHANGED <<store, world, auth>>

(* Mutant of Reserve: the post is taken for done.                          *)
ReserveBlindly(a) ==
    /\ At(a, "post")
    /\ Forget(a)
    /\ LET r == Reservation(job[a].prior, a, job[a].head, now)
           e == Entry("reservation", r)
       IN Put(e, 0) \/ PutUnanswered(e, 0)
    /\ Goto(a, "granted")
    /\ UNCHANGED <<world, auth>>

Reserve(a) ==
    /\ At(a, "post")
    /\ LET r == Reservation(job[a].prior, a, job[a].head, now)
           e == Entry("reservation", r)
       IN \/ /\ Put(e, 0)
             /\ Forget(a)
             /\ Goto(a, "granted")
          \/ /\ PutUnanswered(e, 0)
             /\ Set(a, "mine", r)
             /\ Goto(a, "recheck")
    /\ UNCHANGED <<world, auth>>

(* After a post without an answer: granted only if the record is exactly   *)
(* the one posted.  An attempt with a challenge looks again before it      *)
(* gives up.                                                               *)
Recheck(a) ==
    /\ At(a, "recheck")
    /\ Forget(a)
    /\ \/ RecordIn(comments) = job[a].mine /\ Goto(a, "granted")
       \/ RecordIn(comments) # job[a].mine /\ ~job[a].authority /\ Goto(a, "ended")
       \/ job[a].authority /\ Goto(a, "reconcile")
    /\ UNCHANGED <<store, world, auth>>

Owns(a, r) == r # None /\ r.owner = a /\ r.head = job[a].head

OwnsPending(a, r) == Owns(a, r) /\ r.status = "pending"

Reconcile(a) ==
    /\ At(a, "reconcile")
    /\ LET r == RecordIn(comments) IN
          Goto(a, IF r = None THEN "release"
                  ELSE IF OwnsPending(a, r) THEN "granted" ELSE "ended")
    /\ UNCHANGED <<store, world, job, auth>>

-----------------------------------------------------------------------------
(* The jobs that follow a grant                                            *)

(* Work starts, or the preflight fails; without a challenge nothing is     *)
(* recorded then (Stop).                                                   *)
Begin(a) ==
    /\ At(a, "granted")
    /\ ~job[a].authority
    /\ Goto(a, "working")
    /\ UNCHANGED <<store, world, job, auth>>

FailPreflight(a) ==
    /\ At(a, "granted")
    /\ job[a].authority
    /\ Goto(a, "cleanup")
    /\ UNCHANGED <<store, world, job, auth>>

(* finalize_authority_challenge: the preparation is consumed, and the      *)
(* answer may be lost; one that was reaped cannot be consumed.             *)
Finalize(a) ==
    /\ At(a, "granted")
    /\ job[a].authority
    /\ \/ /\ auth[a] = "prepared"
          /\ auth' = [auth EXCEPT ![a] = "consumed"]
          /\ pc' \in {[pc EXCEPT ![a] = next] : next \in {"readback", "cleanup"}}
       \/ /\ auth[a] # "prepared"
          /\ Goto(a, "cleanup")
          /\ UNCHANGED auth
    /\ UNCHANGED <<store, world, job>>

ReadBack(a) ==
    /\ At(a, "readback")
    /\ Goto(a, IF OwnsPending(a, RecordIn(comments)) THEN "working" ELSE "cleanup")
    /\ UNCHANGED <<store, world, job, auth>>

(* Mutant of Cleanup: the challenge is given back before the reservation   *)
(* is closed.                                                              *)
CleanupOpenly(a) ==
    /\ At(a, "cleanup")
    /\ Goto(a, IF Owns(a, RecordIn(comments)) THEN "refund" ELSE "ended")
    /\ UNCHANGED <<store, world, job, auth>>

(* release_authority_challenge: an own pending reservation is closed with  *)
(* an error first; one this cleanup closed earlier is given back.          *)
Cleanup(a) ==
    /\ At(a, "cleanup")
    /\ LET r == RecordIn(comments) IN
          \/ /\ OwnsPending(a, r)
             /\ Set(a, "closing", TRUE)
             /\ Goto(a, "close")
          \/ /\ ~OwnsPending(a, r)
             /\ Goto(a, IF Owns(a, r) /\ r.status = "error" /\ r.preflight
                        THEN "refund" ELSE "ended")
             /\ UNCHANGED job
    /\ UNCHANGED <<store, world, auth>>

(* The release of a preparation, by should_dispatch or by the cleanup; its *)
(* answer does not matter here.                                            *)
Refund(a) ==
    /\ At(a, "release") \/ At(a, "refund")
    /\ auth' = [auth EXCEPT ![a] = IF @ = "prepared" THEN "refunded" ELSE @]
    /\ Goto(a, "ended")
    /\ UNCHANGED <<store, world, job>>

(* record_completion, first half: it records nothing for an attempt that   *)
(* no longer has the slot.  An attempt may record its completion again.    *)
Complete(a) ==
    /\ pc[a] \in {"working", "recorded", "close"}
    /\ Alone(a)
    /\ \/ /\ Owns(a, RecordIn(comments))
          /\ Set(a, "mine", RecordIn(comments))
          /\ Goto(a, "record")
       \/ /\ ~Owns(a, RecordIn(comments))
          /\ Goto(a, "ended")
          /\ UNCHANGED job
    /\ UNCHANGED <<store, world, auth>>

(* What a call reports: a repeated one the same exit of the worker, with   *)
(* head and checklist as they are now.                                     *)
Reported(a) ==
    IF job[a].closing THEN {PreflightFailed}
    ELSE {o \in Outcomes(job[a].head) :
             job[a].mine.status \in Terminal =>
                 o.success = (job[a].mine.status = "completed")}

(* Second half: the receipt, computed from the record as it was read.      *)
Record(a) ==
    /\ At(a, "record")
    /\ \E o \in Reported(a) :
          LET e == Entry("receipt", Completion(job[a].mine, o, now)) IN
             \/ /\ Put(e, ReceiptPlace(a))
                /\ Goto(a, IF job[a].closing THEN "refund" ELSE "recorded")
             \/ /\ PutUnanswered(e, ReceiptPlace(a))
                /\ Goto(a, IF job[a].closing THEN "cleanup" ELSE "recorded")
    /\ Forget(a)
    /\ UNCHANGED <<world, auth>>

(* The run is cancelled or killed, a read fails, or a job of it does.      *)
Stop(a) ==
    /\ pc[a] \notin Inactive
    /\ Goto(a, "ended")
    /\ Forget(a)
    /\ UNCHANGED <<store, world, auth>>

-----------------------------------------------------------------------------
(* The world                                                               *)

(* The window of a preparation closes and another run reaps it.            *)
Reap(a) ==
    /\ auth[a] = "prepared"
    /\ auth' = [auth EXCEPT ![a] = "reaped"]
    /\ UNCHANGED <<store, world, pc, job>>

Arrive(w) ==
    /\ comments' = Stored(comments, w.entry, w.place)
    /\ wire' = wire \ {w}
    /\ UNCHANGED <<lost, world, pc, job, auth>>

Tick ==
    /\ now < MaxTime
    /\ now' = now + 1
    /\ UNCHANGED <<store, fallback, head, moves, pc, job, auth>>

MoveHead ==
    /\ moves < MaxMoves
    /\ head' \in Heads \ {head}
    /\ moves' = moves + 1
    /\ UNCHANGED <<store, fallback, now, pc, job, auth>>

Init ==
    /\ comments = <<>>
    /\ wire = {}
    /\ head \in Heads
    /\ fallback \in {None, Reservation(None, None, head, 0)}
    /\ now = 0
    /\ pc = [a \in Attempts |-> "new"]
    /\ job = [a \in Attempts |->
                [authority |-> FALSE, closing |-> FALSE, head |-> head,
                 prior |-> None, mine |-> None]]
    /\ auth = [a \in Attempts |-> "none"]
    /\ lost = 0 /\ moves = 0

Next ==
    \/ \E a \in Attempts :
          \/ Start(a) \/ Read(a) \/ Prepare(a) \/ Reread(a) \/ Reserve(a)
          \/ Recheck(a) \/ Reconcile(a) \/ Begin(a) \/ FailPreflight(a)
          \/ Finalize(a) \/ ReadBack(a) \/ Cleanup(a) \/ Refund(a)
          \/ Complete(a) \/ Record(a) \/ Stop(a) \/ Reap(a)
    \/ \E w \in wire : Arrive(w)
    \/ Tick
    \/ MoveHead

Spec == Init /\ [][Next]_vars

-----------------------------------------------------------------------------
(* Properties                                                              *)

Reserved(a) ==
    \E i \in Reservations(comments) : comments[i].record.owner = a

(* No run works without a reservation of its own in the pull request, and  *)
(* none works on a challenge it has not paid with a consumed preparation,  *)
(* even when the answer to the post was lost (_reserve_dispatch,           *)
(* should_dispatch's reconciliation, finalize_authority_challenge).        *)
WorkIsBacked ==
    \A a \in Attempts : At(a, "working") =>
        Reserved(a) /\ (job[a].authority => auth[a] = "consumed")

(* The record changes hands only by a new reservation; the completion of   *)
(* an attempt that has lost the slot changes nothing that is read, and a   *)
(* closed reservation never opens again (write_completion, read_record).   *)
RecordMoves ==
    LET r == RecordIn(comments)
        s == RecordIn(comments')
    IN  r # s =>
          \/ s.status = "pending" /\ ~Reserved(s.owner)
          \/ r # None /\ s.owner = r.owner /\ s.status \in Terminal

NewerOwnerKept == [][RecordMoves]_vars

(* A challenge that was given back has no reservation that still blocks    *)
(* other dispatches, and no run works on it (should_dispatch, "Never       *)
(* refund the prepared ledger entry on that ambiguous result";             *)
(* release_authority_challenge).                                           *)
RefundedNotPending ==
    \A a \in Attempts : auth[a] = "refunded" =>
        ~OwnsPending(a, RecordIn(comments)) /\ ~At(a, "working")

-----------------------------------------------------------------------------
(* Retries, read off the comments                                          *)

(* What became of a reservation.                                           *)
Final(i) == comments[Max({i} \cup ReceiptsFor(comments, i))].record

(* The reservations on the same head that came right before it.            *)
Before(i) ==
    {j \in Reservations(comments) :
        j < i /\ \A k \in j..i : k \in Reservations(comments) =>
                     comments[k].record.head = comments[i].record.head}

(* The last of their completions, as long as each has the field's value.   *)
Streak(i, field, value) ==
    {j \in Before(i) :
        \A k \in Before(i) :
            k >= j /\ Final(k).status = "completed" => Final(k)[field] = value}

Completions(J) == {j \in J : Final(j).status = "completed"}

(* Once Limit + 1 completions in a row on a head brought nothing, or left  *)
(* the task list unfinished, the next run on that head waits for Cooldown  *)
(* to pass since the last, whatever failed or went stale in between; a     *)
(* challenge need not wait (should_dispatch, _reserve_dispatch).           *)
RetryWaits ==
    \A i \in Reservations(comments) :
        LET r    == comments[i].record
            last == Final(Max(Before(i)))
        IN  (/\ ~job[r.owner].authority
             /\ \/ Cardinality(Completions(Streak(i, "productive", "no"))) > Limit
                \/ Cardinality(Completions(Streak(i, "incomplete", "yes"))) > Limit
             /\ last.status = "completed")
            => r.started >= last.ended + Cooldown

=============================================================================
