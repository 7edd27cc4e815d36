----------------------- MODULE AuthorityLedgerProofs -----------------------
(***************************************************************************)
(* AuthorityLedger keeps its single-use promise for every number of        *)
(* attempts, reporters, updaters, heads, lost answers and clock values.    *)
(* The argument: a write can only take effect on the record it was         *)
(* computed from, so what must be invariant is a fact about every computed *)
(* pair of records (WriteOK), wherever the pair is: about to be sent by a  *)
(* call, or on the wire.  Generations only grow along such pairs, and what *)
(* was spent stays at or below the ledger's generation.                    *)
(***************************************************************************)
EXTENDS AuthorityLedger, TLAPS

Receipted == {"prepared", "consumed", "confirmed"}

(* The ledger holds a receipt exactly in the states that reserve or spend. *)
Shape(l) == l.receipt # None <=> l.status \in Receipted

(* What one conditional write may make of the record it was computed from. *)
WriteOK(l, n) ==
    /\ n \in LedgerType /\ Shape(n)
    /\ \/ n.status = "available" /\ n.generation > l.generation
       \/ /\ n.generation = l.generation
          /\ \/ l.status = "available" /\ n.status = "prepared"
             \/ l.status = "prepared"  /\ n.status = "available"
             \/ /\ n.receipt = l.receipt
                /\ \/ l.status = "prepared" /\ n.status = "consumed"
                   \/ l.status = "consumed" /\ n.status = "confirmed"

(* The steps of a call that settles an attempt.                            *)
TargetSteps == {"reread", "releasing", "release-checked", "release-rejected",
                "release-lost", "refreshing", "refresh-checked", "refresh-lost"}

(* What a call has read, by the step that will use it.                     *)
SnapshotOK(c) ==
    /\ Shape(c.prior)
    /\ c.step \in {"indexed", "refresh-checked", "recover-checked"}
         => c.prior.status = "available"
    /\ c.step \in {"release-checked", "legacy-checked"}
         => c.prior.status = "prepared"
    /\ c.step \in {"reopen-checked", "confirming"} => c.prior.status = "consumed"
    /\ c.step = "refresh-checked" => c.prior.released # None
    /\ c.step = "recover-checked" => c.prior.recovered # None
    /\ c.step \in {"beginning", "reaped", "legacy-indexed", "legacy-checked",
                   "legacy-lost", "legacy-released"}
         => c.boundary # None
    /\ c.step \in TargetSteps => c.target \in Attempts
    /\ c.step = "reread" => c.op # "idle"
    /\ c.step = "indexed" => c.claim \in ClaimType

OwnerOK(a) ==
    /\ run[a] = "new" => call[a] = Idle
    /\ call[a].step \in {"finalizing", "consumed"} => call[a].claim = claims[a]
    /\ call[a].step = "consumed" =>
         [generation |-> claims[a].generation, owner |-> a] \in spent

CallInv ==
    /\ \A p \in Procs : SnapshotOK(call[p]) /\ call[p].prior.generation < fresh
    /\ \A a \in Attempts : OwnerOK(a)

WireInv == \A w \in wire : WriteOK(w.prior, w.next) /\ w.next.generation < fresh

SpentBelow ==
    \A s \in spent :
        /\ s.generation <= ledger.generation
        /\ ledger.status \notin {"consumed", "confirmed"} =>
             s.generation < ledger.generation

LedgerInv == Shape(ledger) /\ ledger.generation < fresh /\ SpentBelow

IInv == TypeOK /\ LedgerInv /\ WireInv /\ CallInv /\ SingleUse /\ GrantsAreSpent

-----------------------------------------------------------------------------
(* The records that writes put in place                                    *)

Record == LedgerType \cup {Absent}

(* Absent is a record without a receipt.                                   *)
LEMMA AbsentShape == Shape(Absent) /\ Absent.generation = 0 /\ Absent.status = "absent"
  BY DEF Shape, Absent, Receipted

(* beginChallenge replaces any record by a challenge of a later generation.*)
LEMMA IssuedOK ==
    ASSUME NEW l \in Record, NEW b \in BoundaryType, NEW g \in Nat, l.generation < g
    PROVE  WriteOK(l, Issued(l, b, g)) /\ Issued(l, b, g).generation = g
  <1> DEFINE n == Issued(l, b, g)
  <1>1. l.revision + 1 \in Nat
    BY DEF Record, LedgerType, Absent
  <1>2. n.released \in ReleasedType \cup {None}
    <2>1. CASE l.status = "available" /\ l.released # None
      <3>1. l \in LedgerType /\ l.released \in ReleasedType
        BY <2>1 DEF Record, LedgerType, Absent
      <3>2. Lineage(l.released, l) \in SUBSET Nat
        BY <3>1 DEF Lineage, LedgerType, ReleasedType, ReceiptType, ClaimType
      <3>3. [l.released EXCEPT !.lineage = Lineage(l.released, l)] \in ReleasedType
        BY <3>1, <3>2 DEF ReleasedType
      <3> QED
        BY <3>3 DEF Issued
    <2>2. CASE ~(l.status = "available" /\ l.released # None)
      BY <2>2 DEF Issued
    <2> QED
      BY <2>1, <2>2
  <1>3. n \in LedgerType
    <2> DEFINE rel == n.released
    <2>1. n = [status |-> "available", revision |-> l.revision + 1, generation |-> g,
               fingerprint |-> b.fingerprint, head |-> b.head, expires |-> b.expires,
               receipt |-> None, claim |-> None, released |-> rel, recovered |-> None]
      BY DEF Issued
    <2>2. rel \in ReleasedType \cup {None}
      BY <1>2
    <2> HIDE DEF n, rel
    <2> QED
      BY <1>1, <2>1, <2>2 DEF LedgerType, Statuses, BoundaryType
  <1>4. n.status = "available" /\ n.generation = g /\ n.receipt = None
    BY DEF Issued
  <1>5. Shape(n)
    BY <1>4 DEF Shape, Receipted
  <1> QED
    BY <1>3, <1>4, <1>5 DEF WriteOK

(* prepareChallenge reserves an offered generation.                        *)
LEMMA PreparedOK ==
    ASSUME NEW l \in LedgerType, l.status = "available", NEW r \in ReceiptType
    PROVE  WriteOK(l, Prepared(l, r)) /\ Prepared(l, r).generation = l.generation
  <1>1. Prepared(l, r) \in LedgerType
    <2>1. ASSUME NEW s \in Statuses, NEW rc \in ReceiptType, NEW c \in ClaimType, NEW k \in Nat
          PROVE  [l EXCEPT !.status = s, !.receipt = rc, !.claim = c, !.released = None,
                           !.recovered = None, !.revision = k] \in LedgerType
      BY DEF LedgerType
    <2>2. "prepared" \in Statuses /\ r.claim \in ClaimType /\ l.revision + 1 \in Nat
      BY DEF Statuses, ReceiptType, LedgerType
    <2> QED
      BY <2>1, <2>2 DEF Prepared
  <1>2. /\ Prepared(l, r).status = "prepared" /\ Prepared(l, r).receipt = r
        /\ Prepared(l, r).generation = l.generation
    BY DEF Prepared, LedgerType
  <1> QED
    BY <1>1, <1>2, NoneAssumption DEF WriteOK, Shape, Receipted

(* finalizeChallenge spends the reserved one.                              *)
LEMMA ConsumedOK ==
    ASSUME NEW l \in LedgerType, l.status = "prepared", Shape(l),
           NEW c \in ClaimType \cup {None}
    PROVE  /\ WriteOK(l, Consumed(l, c)) /\ Consumed(l, c).generation = l.generation
           /\ Consumed(l, c).status = "consumed" /\ Consumed(l, c).receipt = l.receipt
  <1>1. Consumed(l, c) \in LedgerType
    <2>1. ASSUME NEW s \in Statuses, NEW k \in Nat
          PROVE  [l EXCEPT !.status = s, !.claim = c, !.revision = k] \in LedgerType
      BY DEF LedgerType
    <2>2. {"available", "consumed", "confirmed"} \subseteq Statuses /\ l.revision + 1 \in Nat
      BY DEF Statuses, LedgerType
    <2> QED
      BY <2>1, <2>2 DEF Consumed
  <1>2. /\ Consumed(l, c).status = "consumed" /\ Consumed(l, c).receipt = l.receipt
        /\ Consumed(l, c).generation = l.generation
    BY DEF Consumed, LedgerType
  <1> QED
    BY <1>1, <1>2 DEF WriteOK, Shape, Receipted

(* confirmChallenge settles a spent one.                                   *)
LEMMA ConfirmedOK ==
    ASSUME NEW l \in LedgerType, l.status = "consumed", Shape(l)
    PROVE  WriteOK(l, Confirmed(l)) /\ Confirmed(l).generation = l.generation
  <1>1. Confirmed(l) \in LedgerType
    <2>1. ASSUME NEW s \in Statuses, NEW k \in Nat
          PROVE  [l EXCEPT !.status = s, !.revision = k] \in LedgerType
      BY DEF LedgerType
    <2>2. {"available", "consumed", "confirmed"} \subseteq Statuses /\ l.revision + 1 \in Nat
      BY DEF Statuses, LedgerType
    <2> QED
      BY <2>1, <2>2 DEF Confirmed
  <1>2. /\ Confirmed(l).status = "confirmed" /\ Confirmed(l).receipt = l.receipt
        /\ Confirmed(l).generation = l.generation
    BY DEF Confirmed, LedgerType
  <1> QED
    BY <1>1, <1>2 DEF WriteOK, Shape, Receipted

(* What taking the receipt off and opening a new window do to a record.    *)
LEMMA FreedRenewed ==
    ASSUME NEW l \in LedgerType, NEW g \in Nat, NEW t \in Int
    PROVE  /\ Freed(l) \in LedgerType /\ Renewed(l, g, t) \in LedgerType
           /\ Freed(l).status = "available" /\ Freed(l).receipt = None
           /\ Freed(l).generation = l.generation
           /\ Renewed(l, g, t).generation = g
           /\ Renewed(l, g, t).status = l.status
           /\ Renewed(l, g, t).receipt = l.receipt
  <1>1. Freed(l) \in LedgerType
    <2>1. ASSUME NEW s \in Statuses, NEW k \in Nat
          PROVE  [l EXCEPT !.status = s, !.receipt = None, !.claim = None,
                           !.revision = k] \in LedgerType
      BY DEF LedgerType
    <2>2. {"available", "consumed", "confirmed"} \subseteq Statuses /\ l.revision + 1 \in Nat
      BY DEF Statuses, LedgerType
    <2> QED
      BY <2>1, <2>2 DEF Freed
  <1>2. t + Window \in Int
    BY WindowAssumption
  <1>3. Renewed(l, g, t) \in LedgerType
    BY <1>2 DEF Renewed, LedgerType
  <1> QED
    BY <1>1, <1>3 DEF Freed, Renewed, LedgerType

(* A release returns the reserved generation or opens a later one.         *)
LEMMA ReleasedOK ==
    ASSUME NEW l \in LedgerType, l.status = "prepared", Shape(l),
           NEW g \in Nat, NEW t \in Int, l.generation < g
    PROVE  /\ WriteOK(l, Released(l, g, t))
           /\ Released(l, g, t).generation = IF Expired(l, t) THEN g ELSE l.generation
  <1> DEFINE refund == [receipt |-> l.receipt, lineage |-> {l.generation}]
             free   == [Freed(l) EXCEPT !.released = refund]
  <1>1. l.receipt \in ReceiptType /\ l.generation \in Nat
    BY DEF LedgerType, Shape, Receipted
  <1>2. refund \in ReleasedType
    BY <1>1 DEF ReleasedType
  <1>3. free \in LedgerType
    <2>1. ASSUME NEW m \in LedgerType, NEW r \in ReleasedType
          PROVE  [m EXCEPT !.released = r] \in LedgerType
      BY DEF LedgerType
    <2> HIDE DEF refund
    <2> QED
      BY <1>2, <2>1, FreedRenewed
  <1>4. free.status = "available" /\ free.receipt = None /\ free.generation = l.generation
    BY FreedRenewed DEF LedgerType
  <1>5. Released(l, g, t) = IF Expired(l, t) THEN Renewed(free, g, t) ELSE free
    BY DEF Released
  <1> HIDE DEF free
  <1>6. /\ Renewed(free, g, t) \in LedgerType /\ Renewed(free, g, t).generation = g
        /\ Renewed(free, g, t).status = "available" /\ Renewed(free, g, t).receipt = None
    BY <1>3, <1>4, FreedRenewed
  <1> QED
    BY <1>1, <1>3, <1>4, <1>5, <1>6 DEF WriteOK, Shape, Receipted

(* A refresh of a release opens a later generation.                        *)
LEMMA ReleasedRefreshedOK ==
    ASSUME NEW l \in LedgerType, l.status = "available", Shape(l), l.released # None,
           NEW g \in Nat, NEW t \in Int, l.generation < g
    PROVE  WriteOK(l, ReleasedRefreshed(l, g, t)) /\ ReleasedRefreshed(l, g, t).generation = g
  <1> DEFINE refund == [l.released EXCEPT !.lineage = Lineage(l.released, l)]
             open   == Renewed(l, g, t)
             n      == [open EXCEPT !.released = refund, !.revision = open.revision + 1]
  <1>1. l.released \in ReleasedType /\ l.generation \in Nat
    BY DEF LedgerType
  <1>2. Lineage(l.released, l) \in SUBSET Nat
    BY <1>1 DEF Lineage, ReleasedType, ReceiptType, ClaimType
  <1>3. refund \in ReleasedType
    BY <1>1, <1>2 DEF ReleasedType
  <1>4. ReleasedRefreshed(l, g, t) = n
    BY DEF ReleasedRefreshed
  <1>5. /\ open \in LedgerType /\ open.generation = g
        /\ open.status = "available" /\ open.receipt = l.receipt
    BY FreedRenewed
  <1>6. open.revision + 1 \in Nat
    BY <1>5 DEF LedgerType
  <1> HIDE DEF open, refund
  <1>7. n \in LedgerType
    <2>1. ASSUME NEW m \in LedgerType, NEW r \in ReleasedType, NEW k \in Nat
          PROVE  [m EXCEPT !.released = r, !.revision = k] \in LedgerType
      BY DEF LedgerType
    <2> QED
      BY <1>3, <1>5, <1>6, <2>1
  <1>8. n.generation = g /\ n.status = "available" /\ n.receipt = l.receipt
    BY <1>5 DEF LedgerType
  <1> QED
    BY <1>1, <1>4, <1>7, <1>8 DEF WriteOK, Shape, Receipted

(* A reopening opens a later generation and keeps the receipt as a refund. *)
LEMMA ReopenedOK ==
    ASSUME NEW l \in LedgerType, l.status = "consumed", Shape(l),
           NEW g \in Nat, NEW t \in Int, l.generation < g
    PROVE  WriteOK(l, Reopened(l, g, t)) /\ Reopened(l, g, t).generation = g
  <1> DEFINE refund == [receipt |-> l.receipt, lineage |-> {l.generation}]
             open   == Renewed(Freed(l), g, t)
             n      == [open EXCEPT !.recovered = refund]
  <1>1. l.receipt \in ReceiptType /\ l.generation \in Nat
    BY DEF LedgerType, Shape, Receipted
  <1>2. refund \in RecoveredType
    BY <1>1 DEF RecoveredType
  <1>3. /\ open \in LedgerType /\ open.generation = g
        /\ open.status = "available" /\ open.receipt = None
    BY FreedRenewed
  <1>4. Reopened(l, g, t) = n
    BY DEF Reopened
  <1> HIDE DEF open, refund
  <1>5. n \in LedgerType
    BY <1>2, <1>3 DEF LedgerType
  <1>6. n.generation = g /\ n.status = "available" /\ n.receipt = None
    BY <1>3 DEF LedgerType
  <1> QED
    BY <1>1, <1>4, <1>5, <1>6 DEF WriteOK, Shape, Receipted

(* A refresh of a reopening opens a later generation.                      *)
LEMMA RecoveredRefreshedOK ==
    ASSUME NEW l \in LedgerType, l.status = "available", Shape(l), l.recovered # None,
           NEW g \in Nat, NEW t \in Int, l.generation < g
    PROVE  WriteOK(l, RecoveredRefreshed(l, g, t)) /\ RecoveredRefreshed(l, g, t).generation = g
  <1> DEFINE refund == [l.recovered EXCEPT !.lineage = NextRecoveredLineage(l)]
             open   == Renewed(l, g, t)
             n      == [open EXCEPT !.recovered = refund, !.revision = open.revision + 1]
  <1>1. l.recovered \in RecoveredType /\ l.generation \in Nat
    BY DEF LedgerType
  <1>2. Lineage(l.recovered, l) \in SUBSET Nat /\ l.recovered.receipt.claim.generation \in Nat
    BY <1>1 DEF Lineage, RecoveredType, ReceiptType, ClaimType
  <1>3. NextRecoveredLineage(l) \in SUBSET Nat
    BY <1>2 DEF NextRecoveredLineage, MostRecent
  <1>4. refund \in RecoveredType
    BY <1>1, <1>3 DEF RecoveredType
  <1>5. RecoveredRefreshed(l, g, t) = n
    BY DEF RecoveredRefreshed
  <1>6. /\ open \in LedgerType /\ open.generation = g
        /\ open.status = "available" /\ open.receipt = l.receipt
    BY FreedRenewed
  <1>7. open.revision + 1 \in Nat
    BY <1>6 DEF LedgerType
  <1> HIDE DEF open, refund
  <1>8. n \in LedgerType
    <2>1. ASSUME NEW m \in LedgerType, NEW r \in RecoveredType, NEW k \in Nat
          PROVE  [m EXCEPT !.recovered = r, !.revision = k] \in LedgerType
      BY DEF LedgerType
    <2> QED
      BY <1>4, <1>6, <1>7, <2>1
  <1>9. n.generation = g /\ n.status = "available" /\ n.receipt = l.receipt
    BY <1>6 DEF LedgerType
  <1> QED
    BY <1>1, <1>5, <1>8, <1>9 DEF WriteOK, Shape, Receipted

-----------------------------------------------------------------------------
(* Writes take effect                                                      *)

StorageInv ==
    /\ ledger \in Record
    /\ wire \subseteq [prior : Record, next : LedgerType]
    /\ fresh \in Nat /\ lost \in Nat
    /\ spent \subseteq [generation : Nat, owner : Attempts]
    /\ LedgerInv /\ WireInv /\ SingleUse

(* The generation of a record is a natural number, its receipt a receipt.  *)
LEMMA RecordFields ==
    ASSUME NEW l \in Record
    PROVE  /\ l.generation \in Nat /\ l.receipt \in ReceiptType \cup {None}
           /\ l.status # "absent" => l \in LedgerType
           /\ l.claim \in ClaimType \cup {None}
  BY DEF Record, LedgerType, Absent

(* A write that takes effect keeps what was spent at or below the ledger.  *)
LEMMA CommitOK ==
    ASSUME StorageInv, NEW n, WriteOK(ledger, n), Commit(n),
           n.generation < fresh', fresh \in Nat, fresh' \in Nat, fresh <= fresh'
    PROVE  /\ ledger' \in Record
           /\ spent' \subseteq [generation : Nat, owner : Attempts]
           /\ spent \subseteq spent'
           /\ LedgerInv' /\ SingleUse'
  <1>1. ledger' = n /\ n \in LedgerType /\ n \in Record /\ Shape(n)
    BY DEF Commit, WriteOK, Record
  <1>2. /\ ledger.generation \in Nat /\ n.generation \in Nat
        /\ n.receipt \in ReceiptType \cup {None}
        /\ ledger.generation <= n.generation
    BY <1>1, RecordFields DEF StorageInv, WriteOK
  <1>3. CASE n.status = "consumed"
    <2> DEFINE use == [generation |-> n.generation, owner |-> n.receipt.owner]
    <2>1. n.receipt \in ReceiptType
      BY <1>1, <1>2, <1>3 DEF Shape, Receipted
    <2>2. use \in [generation : Nat, owner : Attempts] /\ use.generation = n.generation
      BY <1>2, <2>1 DEF ReceiptType
    <2>3. spent' = spent \cup {use}
      BY <1>3 DEF Commit
    <2>4. ledger.status = "prepared" /\ n.generation = ledger.generation
      BY <1>3 DEF WriteOK
    <2>5. \A s \in spent : s.generation \in Nat /\ s.generation < n.generation
      BY <2>4 DEF StorageInv, LedgerInv, SpentBelow
    <2> HIDE DEF use
    <2>6. SpentBelow'
      BY <1>1, <1>2, <1>3, <2>2, <2>3, <2>5 DEF SpentBelow
    <2>7. SingleUse'
      BY <1>2, <2>2, <2>3, <2>5 DEF SingleUse, StorageInv
    <2> QED
      BY <1>1, <1>2, <2>2, <2>3, <2>6, <2>7 DEF LedgerInv, StorageInv
  <1>4. CASE n.status # "consumed"
    <2>1. spent' = spent
      BY <1>4 DEF Commit
    <2>2. \A s \in spent : s.generation \in Nat
      BY DEF StorageInv
    <2>3. SpentBelow'
      BY <1>1, <1>2, <1>4, <2>1, <2>2 DEF SpentBelow, StorageInv, LedgerInv, WriteOK
    <2> QED
      BY <1>1, <2>1, <2>3 DEF LedgerInv, StorageInv, SingleUse
  <1> QED
    BY <1>3, <1>4

(* One conditional PUT, whatever its outcome.                              *)
LEMMA PutOK ==
    ASSUME StorageInv, NEW p \in Procs, NEW n, call[p].prior \in Record,
           WriteOK(call[p].prior, n), n.generation < fresh',
           fresh' \in Nat, fresh <= fresh',
           Accepted(p, n) \/ Rejected \/ Unanswered(p, n)
    PROVE  StorageInv' /\ spent \subseteq spent'
  <1>1. \A w \in wire : w.next \in LedgerType /\ w.next.generation \in Nat
    BY RecordFields DEF StorageInv, Record, LedgerType
  <1>2. CASE Accepted(p, n)
    <2>1. WriteOK(ledger, n) /\ Commit(n) /\ wire' = wire /\ lost' = lost
      BY <1>2 DEF Accepted
    <2>2. WireInv'
      BY <1>1, <2>1 DEF WireInv, StorageInv
    <2> QED
      BY <2>1, <2>2, CommitOK DEF StorageInv
  <1>3. CASE Rejected
    BY <1>1, <1>3, RecordFields
       DEF Rejected, StorageInv, LedgerInv, WireInv, SingleUse, SpentBelow
  <1>4. CASE Unanswered(p, n)
    <2> DEFINE w == [prior |-> call[p].prior, next |-> n]
    <2>1. /\ wire' = wire \cup {w} /\ lost' \in Nat
          /\ ledger' = ledger /\ spent' = spent
      BY <1>4 DEF Unanswered, StorageInv
    <2>2. w \in [prior : Record, next : LedgerType] /\ w.prior = call[p].prior /\ w.next = n
      BY DEF WriteOK
    <2> HIDE DEF w
    <2>3. WireInv'
      BY <1>1, <2>1, <2>2 DEF WireInv, StorageInv
    <2>4. LedgerInv' /\ SingleUse'
      BY <2>1, RecordFields DEF LedgerInv, StorageInv, SpentBelow, SingleUse
    <2> QED
      BY <2>1, <2>2, <2>3, <2>4 DEF StorageInv
  <1> QED
    BY <1>2, <1>3, <1>4

-----------------------------------------------------------------------------
(* Calls move on                                                           *)

CallOK(c) ==
    c \in CallType /\ SnapshotOK(c) /\ c.prior.generation < fresh

(* The steps that are tied to the run of an attempt.                       *)
OwnerSteps == {"finalizing", "consumed"}

(* What the invariant says of a call.                                      *)
LEMMA CallFields ==
    ASSUME IInv, NEW p \in Procs
    PROVE  /\ CallOK(call[p])
           /\ call[p].prior \in Record /\ call[p].at \in Int
           /\ call[p].claim \in ClaimType \cup {None}
           /\ call[p].boundary \in BoundaryType \cup {None}
           /\ call[p].tries \in 0..3 /\ call[p].op \in Ops
           /\ call[p].target \in Attempts \cup {None}
           /\ fresh \in Nat /\ StorageInv
  <1>1. call[p] \in CallType
    BY DEF IInv, TypeOK
  <1>2. StorageInv
    BY DEF IInv, TypeOK, StorageInv, Record
  <1> QED
    BY <1>1, <1>2 DEF CallOK, IInv, CallInv, CallType, Record, StorageInv

(* The idle call, and one that has just read the ledger.                   *)
LEMMA IdleOK ==
    ASSUME IInv
    PROVE  CallOK(Idle) /\ Idle.step = "idle" /\ ledger \in Record /\ Shape(ledger)
  <1>1. ledger \in Record /\ ledger.generation \in Nat /\ fresh \in Nat /\ ledger.generation < fresh
    BY RecordFields DEF IInv, TypeOK, Record, LedgerInv
  <1>2. Idle \in CallType
    BY DEF Idle, CallType, Steps, Ops
  <1>3. Idle.step = "idle" /\ Idle.prior = Absent
    BY DEF Idle
  <1>4. SnapshotOK(Idle)
    BY <1>3, AbsentShape DEF SnapshotOK, TargetSteps
  <1> QED
    BY <1>1, <1>2, <1>3, <1>4, AbsentShape DEF CallOK, IInv, LedgerInv

(* A call that reads the ledger afresh has a good snapshot of it.          *)
LEMMA EnterOK ==
    ASSUME IInv, NEW p \in Procs, NEW s \in Steps, NEW a \in Attempts,
           NEW claim \in ClaimType \cup {None}, NEW t \in Int,
           s \in {"preparing", "finalizing", "releasing", "refreshing", "recovering",
                  "reopening", "confirming"},
           s = "confirming" => ledger.status = "consumed",
           Enter(p, s, a, claim, t)
    PROVE  \E c : /\ call' = [call EXCEPT ![p] = c]
                  /\ CallOK(c) /\ c.step = s /\ c.claim = claim
  <1> DEFINE c == [Idle EXCEPT !.step = s, !.target = a, !.claim = claim,
                               !.at = t, !.prior = ledger]
  <1>1. ledger \in LedgerType \cup {Absent} /\ Shape(ledger) /\ ledger.generation < fresh
    BY DEF IInv, TypeOK, LedgerInv
  <1>2. c \in CallType
    BY <1>1, IdleOK DEF CallOK, CallType
  <1>3. c.step = s /\ c.prior = ledger /\ c.claim = claim /\ c.target = a
    BY DEF Idle
  <1>4. call' = [call EXCEPT ![p] = c]
    BY DEF Enter
  <1> HIDE DEF c
  <1>5. SnapshotOK(c)
    BY <1>1, <1>3 DEF SnapshotOK
  <1> QED
    BY <1>1, <1>2, <1>3, <1>4, <1>5 DEF CallOK

(* A call that changes its step keeps what it has read.                    *)
LEMMA GotoOK ==
    ASSUME IInv, NEW p \in Procs, NEW s \in Steps, Goto(p, s),
           s \in {"indexed", "refresh-checked", "recover-checked"}
             => call[p].prior.status = "available",
           s \in {"release-checked", "legacy-checked"} => call[p].prior.status = "prepared",
           s \in {"reopen-checked", "confirming"} => call[p].prior.status = "consumed",
           s = "refresh-checked" => call[p].prior.released # None,
           s = "recover-checked" => call[p].prior.recovered # None,
           s \in {"beginning", "reaped", "legacy-indexed", "legacy-checked",
                  "legacy-lost", "legacy-released"} => call[p].boundary # None,
           s \in TargetSteps => call[p].target \in Attempts, s # "reread",
           s = "indexed" => call[p].claim \in ClaimType
    PROVE  \E c : /\ call' = [call EXCEPT ![p] = c]
                  /\ CallOK(c) /\ c.step = s /\ c.claim = call[p].claim
  <1> DEFINE c == [call[p] EXCEPT !.step = s]
  <1>1. CallOK(call[p]) /\ call \in [Procs -> CallType]
    BY CallFields DEF IInv, TypeOK
  <1>2. c \in CallType
    BY <1>1 DEF CallOK, CallType
  <1>3. /\ c.step = s /\ c.prior = call[p].prior /\ c.claim = call[p].claim
        /\ c.boundary = call[p].boundary /\ c.target = call[p].target
    BY <1>1 DEF CallOK, CallType
  <1>4. call' = [call EXCEPT ![p] = c]
    BY <1>1 DEF Goto
  <1> HIDE DEF c
  <1>5. SnapshotOK(c)
    BY <1>1, <1>3 DEF SnapshotOK, CallOK
  <1> QED
    BY <1>1, <1>2, <1>3, <1>4, <1>5 DEF CallOK

(* A call that moves on with what it has read keeps the call invariant.    *)
LEMMA SettleOK ==
    ASSUME IInv, NEW p \in Procs, NEW n \in LedgerType, NEW s, Settle(p, s, n),
           s \in {"release-rejected", "release-lost", "refresh-lost", "legacy-lost"},
           s = "legacy-lost" => call[p].boundary # None,
           s \in TargetSteps => call[p].target \in Attempts
    PROVE  \E c : /\ call' = [call EXCEPT ![p] = c] /\ CallOK(c) /\ c.step = s
  <1> DEFINE c == [call[p] EXCEPT !.step = s, !.next = n]
  <1>1. CallOK(call[p]) /\ call \in [Procs -> CallType] /\ s \in Steps
    BY CallFields DEF IInv, TypeOK, Steps
  <1>2. c \in CallType
    BY <1>1 DEF CallOK, CallType
  <1>3. /\ c.step = s /\ c.prior = call[p].prior /\ c.boundary = call[p].boundary
        /\ c.target = call[p].target
    BY <1>1 DEF CallOK, CallType
  <1>4. call' = [call EXCEPT ![p] = c]
    BY <1>1 DEF Settle
  <1> HIDE DEF c
  <1>5. SnapshotOK(c)
    BY <1>1, <1>3 DEF SnapshotOK, CallOK
  <1> QED
    BY <1>1, <1>2, <1>3, <1>4, <1>5 DEF CallOK

(* Another round of beginChallenge, or its end.                            *)
LEMMA ContinueOK ==
    ASSUME IInv, NEW p \in Procs, call[p].boundary # None, Continue(p)
    PROVE  \E c : /\ call' = [call EXCEPT ![p] = c] /\ CallOK(c)
                  /\ c.step \in {"idle", "beginning"}
  <1> DEFINE k == call[p]
             d == [Idle EXCEPT !.step = "beginning", !.prior = ledger, !.at = k.at,
                               !.boundary = k.boundary, !.tries = k.tries + 1]
  <1>1. CASE k.tries < 3
    <2>1. ledger \in LedgerType \cup {Absent} /\ Shape(ledger) /\ ledger.generation < fresh
      BY DEF IInv, TypeOK, LedgerInv
    <2>2. d \in CallType
      <3>1. k.at \in Int /\ k.boundary \in BoundaryType \cup {None} /\ k.tries + 1 \in 0..3
        BY <1>1, CallFields
      <3>2. "beginning" \in Steps /\ Idle \in CallType
        BY IdleOK DEF Steps, CallOK
      <3>3. ASSUME NEW st \in Steps, NEW x \in Int, NEW b \in BoundaryType \cup {None},
                   NEW y \in 0..3, NEW i \in CallType
            PROVE  [i EXCEPT !.step = st, !.prior = ledger, !.at = x, !.boundary = b,
                             !.tries = y] \in CallType
        BY <2>1 DEF CallType
      <3> QED
        BY <3>1, <3>2, <3>3
    <2>3. d.step = "beginning" /\ d.prior = ledger /\ d.boundary = k.boundary
      BY DEF Idle
    <2>4. call' = [call EXCEPT ![p] = d]
      BY <1>1 DEF Continue
    <2> HIDE DEF d
    <2>5. SnapshotOK(d)
      BY <2>1, <2>3 DEF SnapshotOK, TargetSteps
    <2> QED
      BY <2>1, <2>2, <2>3, <2>4, <2>5 DEF CallOK
  <1>2. CASE ~(k.tries < 3)
    BY <1>2, IdleOK DEF Continue
  <1> QED
    BY <1>1, <1>2

(* The calls of the others, and the runs that did not move, stay in order. *)
LEMMA CallStep ==
    ASSUME IInv, NEW p \in Procs, NEW c, call' = [call EXCEPT ![p] = c],
           CallOK(c), fresh' \in Nat, fresh <= fresh', spent \subseteq spent',
           \A a \in Attempts \ {p} : run'[a] = run[a] /\ claims'[a] = claims[a],
           p \in Attempts => OwnerOK(p)'
    PROVE  call' \in [Procs -> CallType] /\ CallInv'
  <1>1. call \in [Procs -> CallType] /\ c \in CallType /\ fresh \in Nat
    BY DEF IInv, TypeOK, CallOK
  <1>2. call' \in [Procs -> CallType]
    BY <1>1
  <1>3. ASSUME NEW q \in Procs
        PROVE  SnapshotOK(call[q])' /\ call'[q].prior.generation < fresh'
    <2>1. CASE q = p
      <3>1. call'[q] = c /\ c.prior.generation \in Nat
        BY <1>1, <2>1, RecordFields DEF CallType, Record
      <3> QED
        BY <1>1, <3>1 DEF CallOK, SnapshotOK
    <2>2. CASE q # p
      <3>1. call'[q] = call[q] /\ call[q].prior.generation \in Nat
        BY <1>1, <2>2, RecordFields, CallFields
      <3> QED
        BY <1>1, <3>1, CallFields DEF CallOK, SnapshotOK
    <2> QED
      BY <2>1, <2>2
  <1>4. ASSUME NEW a \in Attempts
        PROVE  OwnerOK(a)'
    <2>1. CASE a = p
      BY <2>1
    <2>2. CASE a # p
      <3>1. call'[a] = call[a] /\ run'[a] = run[a] /\ claims'[a] = claims[a]
        BY <1>1, <2>2 DEF Procs
      <3> QED
        BY <3>1 DEF OwnerOK, IInv, CallInv
    <2> QED
      BY <2>1, <2>2
  <1> QED
    BY <1>2, <1>3, <1>4 DEF CallInv

-----------------------------------------------------------------------------
(* The ledger implements SingleUseAuthority                                *)

Refines == [Authority!Next]_(Authority!vars)

(* A write that takes effect is a step of the abstract specification.      *)
LEMMA CommitRefines ==
    ASSUME StorageInv, NEW n, WriteOK(ledger, n), Commit(n), Shape(n)
    PROVE  Refines
  <1>1. ledger' = n /\ n \in LedgerType /\ ledger \in Record /\ n \in Record
    BY DEF Commit, WriteOK, Record, StorageInv
  <1>2. /\ ledger.generation \in Nat /\ n.generation \in Nat /\ Shape(ledger) /\ Shape(n)
        /\ n.receipt \in ReceiptType \cup {None} /\ ledger.receipt \in ReceiptType \cup {None}
        /\ \A s \in spent : s.generation \in Nat /\ s.generation <= ledger.generation
        /\ ledger.status \notin {"consumed", "confirmed"} =>
             \A s \in spent : s.generation < ledger.generation
    BY <1>1, RecordFields DEF StorageInv, LedgerInv, SpentBelow
  <1>3. CASE n.status = "available" /\ n.generation > ledger.generation
    <2>1. n.receipt = None /\ spent' = spent /\ Phase' = "open" /\ Holder' = None
      BY <1>1, <1>2, <1>3 DEF Shape, Receipted, Commit, Phase, Holder
    <2>2. Authority!Offer
      BY <1>1, <1>2, <1>3, <2>1 DEF Authority!Offer
    <2> QED
      BY <2>2 DEF Authority!Next, Refines
  <1>4. CASE n.generation = ledger.generation /\ ledger.status = "available" /\ n.status = "prepared"
    <2>1. n.receipt \in ReceiptType /\ n.receipt # None /\ spent' = spent
      BY <1>1, <1>2, <1>4 DEF Shape, Receipted, Commit
    <2>2. Phase = "open" /\ Phase' = "reserved" /\ Holder' = n.receipt.owner
          /\ n.receipt.owner \in Attempts
      BY <1>1, <1>4, <2>1 DEF Phase, Holder, ReceiptType
    <2>3. Authority!Reserve(n.receipt.owner)
      BY <1>1, <1>2, <1>4, <2>1, <2>2 DEF Authority!Reserve, Authority!Unspent
    <2> QED
      BY <2>2, <2>3 DEF Authority!Next, Refines
  <1>5. CASE n.generation = ledger.generation /\ ledger.status = "prepared" /\ n.status = "available"
    <2>1. n.receipt = None /\ spent' = spent /\ Phase = "reserved" /\ Phase' = "open" /\ Holder' = None
      BY <1>1, <1>2, <1>5 DEF Shape, Receipted, Commit, Phase, Holder
    <2>2. Authority!Refund
      BY <1>1, <1>5, <2>1 DEF Authority!Refund
    <2> QED
      BY <2>2 DEF Authority!Next, Refines
  <1>6. CASE /\ n.generation = ledger.generation /\ n.receipt = ledger.receipt
             /\ ledger.status = "prepared" /\ n.status = "consumed"
    <2>1. n.receipt # None /\ Holder = n.receipt.owner /\ Holder' = Holder
      BY <1>1, <1>2, <1>6 DEF Shape, Receipted, Holder
    <2>2. spent' = spent \cup {[generation |-> ledger.generation, owner |-> Holder]}
      BY <1>1, <1>6, <2>1 DEF Commit
    <2>3. Phase = "reserved" /\ Phase' = "spent"
      BY <1>1, <1>6 DEF Phase
    <2>4. Authority!Spend
      BY <1>1, <1>2, <1>6, <2>1, <2>2, <2>3 DEF Authority!Spend, Authority!Unspent
    <2> QED
      BY <2>4 DEF Authority!Next, Refines
  <1>7. CASE /\ n.generation = ledger.generation /\ n.receipt = ledger.receipt
             /\ ledger.status = "consumed" /\ n.status = "confirmed"
    <2>1. /\ Phase = "spent" /\ Phase' = "settled" /\ Holder' = Holder /\ spent' = spent
      BY <1>1, <1>7 DEF Phase, Holder, Commit
    <2>2. Authority!Settle
      BY <1>1, <1>7, <2>1 DEF Authority!Settle
    <2> QED
      BY <2>2 DEF Authority!Next, Refines
  <1> QED
    BY <1>3, <1>4, <1>5, <1>6, <1>7 DEF WriteOK

(* A step that leaves the ledger alone is a stutter.                       *)
LEMMA Stutter ==
    ASSUME UNCHANGED <<ledger, spent>>
    PROVE  Refines
  BY DEF Authority!vars, Phase, Holder, Refines

(* The same for one conditional PUT of a call.                             *)
LEMMA PutRefines ==
    ASSUME IInv, NEW p \in Procs, NEW n, WriteOK(call[p].prior, n),
           Accepted(p, n) \/ Rejected \/ Unanswered(p, n)
    PROVE  Refines
  <1>1. CASE Accepted(p, n)
    BY <1>1, CommitRefines, CallFields DEF Accepted, WriteOK
  <1>2. CASE Rejected \/ Unanswered(p, n)
    BY <1>2, Stutter DEF Rejected, Unanswered
  <1> QED
    BY <1>1, <1>2

-----------------------------------------------------------------------------
(* Steps of a call                                                         *)

Granted == {"granted", "working", "worked"}

(* What the storage owes a step.                                           *)
StorageStep ==
    /\ StorageInv' /\ spent \subseteq spent' /\ fresh <= fresh'
    /\ index' \in [Attempts -> ReceiptType \cup {None}]
    /\ Refines

(* What a step owes: the invariant, and a step of SingleUseAuthority.      *)
GoodStep == IInv' /\ Refines

(* Steps that write nothing keep what is known of the storage.             *)
LEMMA StorageUnmoved ==
    ASSUME IInv, UNCHANGED storage
    PROVE  StorageStep
  <1>1. Refines
    BY Stutter DEF storage
  <1> QED
    BY <1>1 DEF IInv, TypeOK, storage, StorageStep, StorageInv, Record, LedgerInv, WireInv,
       SingleUse, SpentBelow

(* A PUT without rotation, and one that may draw a new generation.         *)
LEMMA StoragePut ==
    ASSUME IInv, NEW p \in Procs, NEW n, WriteOK(call[p].prior, n),
           \/ n.generation = call[p].prior.generation /\ UNCHANGED fresh
           \/ n.generation \in {call[p].prior.generation, fresh} /\ Draw
           \/ Rejected /\ UNCHANGED fresh,
           Accepted(p, n) \/ Rejected \/ Unanswered(p, n),
           UNCHANGED index
    PROVE  StorageStep
  <1>1. /\ fresh \in Nat /\ StorageInv /\ call[p].prior \in Record
        /\ call[p].prior.generation < fresh /\ call[p].prior.generation \in Nat
    BY CallFields, RecordFields DEF CallOK
  <1>2. index' \in [Attempts -> ReceiptType \cup {None}]
    BY DEF IInv, TypeOK
  <1>3. fresh' \in Nat /\ fresh <= fresh'
    BY <1>1 DEF Draw
  <1>4. CASE n.generation < fresh'
    BY <1>1, <1>2, <1>3, <1>4, PutOK, PutRefines DEF StorageStep
  <1>5. CASE Rejected /\ UNCHANGED fresh
    <2>1. UNCHANGED storage
      BY <1>5 DEF Rejected, storage
    <2> QED
      BY <2>1, StorageUnmoved
  <1> QED
    BY <1>1, <1>4, <1>5 DEF Draw

(* A step whose parts are good is a good step and refines the promise.     *)
LEMMA StepOK ==
    ASSUME IInv, NEW p \in Procs, NEW c, call' = [call EXCEPT ![p] = c], CallOK(c),
           StorageStep, UNCHANGED <<world, claims>>, refunded' \subseteq Attempts,
           run' \in [Attempts -> RunStates],
           \A a \in Attempts \ {p} : run'[a] = run[a],
           p \in Attempts => OwnerOK(p)',
           p \in Attempts /\ run'[p] \in Granted =>
             [generation |-> claims[p].generation, owner |-> p] \in spent'
    PROVE  GoodStep
  <1>1. call' \in [Procs -> CallType] /\ CallInv'
    BY CallStep DEF StorageStep, StorageInv
  <1>2. TypeOK'
    BY <1>1 DEF IInv, TypeOK, world, StorageStep, StorageInv, Record
  <1>3. GrantsAreSpent'
    BY DEF GrantsAreSpent, IInv, StorageStep, Granted
  <1> QED
    BY <1>1, <1>2, <1>3 DEF IInv, StorageStep, StorageInv, GoodStep

(* A step inside a call that leaves the runs alone.                        *)
LEMMA InnerStepOK ==
    ASSUME IInv, NEW p \in Procs, NEW c, call' = [call EXCEPT ![p] = c], CallOK(c),
           p \in Attempts => ~At(p, "idle"),
           p \in Attempts => c.step \notin OwnerSteps,
           StorageStep, UNCHANGED <<world, runs>>, refunded' \subseteq Attempts
    PROVE  GoodStep
  <1>1. run' = run /\ claims' = claims /\ run \in [Attempts -> RunStates]
    BY DEF runs, IInv, TypeOK
  <1>2. ASSUME p \in Attempts
        PROVE  OwnerOK(p)'
    <2>1. run[p] # "new"
      BY <1>2, IdleOK DEF At, IInv, CallInv, OwnerOK
    <2>2. call'[p] = c
      BY DEF IInv, TypeOK
    <2> QED
      BY <1>1, <1>2, <2>1, <2>2 DEF OwnerOK, OwnerSteps
  <1>3. p \in Attempts /\ run'[p] \in Granted =>
          [generation |-> claims[p].generation, owner |-> p] \in spent'
    BY <1>1 DEF IInv, GrantsAreSpent, StorageStep, Granted
  <1> QED
    BY <1>1, <1>2, <1>3, StepOK

(* The end of a call inside it.                                            *)
LEMMA DoneOK ==
    ASSUME IInv, NEW p \in Procs, ~At(p, "idle"), Done(p), StorageStep,
           UNCHANGED <<world, runs>>, refunded' \subseteq Attempts
    PROVE  GoodStep
  BY IdleOK, InnerStepOK DEF Done, OwnerSteps

(* A reported release ends the call, or goes on in beginChallenge.         *)
LEMMA ReportOK ==
    ASSUME IInv, NEW p \in Procs, ~At(p, "idle"), ReportReleased(p), StorageStep,
           call[p].target \in Attempts, UNCHANGED <<world, runs>>
    PROVE  GoodStep
  <1>1. refunded' \subseteq Attempts
    BY DEF ReportReleased, IInv, TypeOK
  <1>2. CASE InBegin(p)
    <2>1. Goto(p, "reaped") /\ call[p].boundary # None /\ "reaped" \in Steps
         /\ "reaped" \notin TargetSteps
      BY <1>2 DEF ReportReleased, InBegin, Steps, TargetSteps
    <2>2. PICK c : call' = [call EXCEPT ![p] = c] /\ CallOK(c) /\ c.step = "reaped"
      BY <2>1, GotoOK
    <2> QED
      BY <1>1, <2>2, InnerStepOK DEF OwnerSteps
  <1>3. CASE ~InBegin(p)
    BY <1>1, <1>3, DoneOK DEF ReportReleased
  <1> QED
    BY <1>2, <1>3

-----------------------------------------------------------------------------
(* The steps of an attempt                                                 *)

(* A time is an integer.                                                   *)
LEMMA ClockInt == ASSUME IInv, NEW t \in Clock PROVE t \in Int
  BY ClockLagAssumption DEF Clock, IInv, TypeOK

(* A call that an attempt starts, with the state its run moves to.         *)
LEMMA AttemptStarts ==
    ASSUME IInv, NEW a \in Attempts, NEW s \in Steps, NEW t \in Clock, NEW x \in RunStates,
           s \in {"preparing", "finalizing", "releasing"},
           Enter(a, s, a, claims[a], t), x \notin {"new"} \cup Granted,
           run' = [run EXCEPT ![a] = x], UNCHANGED <<storage, world, claims, refunded>>
    PROVE  GoodStep
  <1>1. claims[a] \in ClaimType \cup {None} /\ t \in Int /\ a \in Procs
    BY ClockInt DEF IInv, TypeOK, Procs
  <1>2. PICK c : call' = [call EXCEPT ![a] = c] /\ CallOK(c) /\ c.step = s /\ c.claim = claims[a]
    BY <1>1, EnterOK
  <1>3. StorageStep /\ refunded' \subseteq Attempts /\ UNCHANGED <<world, claims>>
    BY StorageUnmoved DEF IInv, TypeOK
  <1>4. run' \in [Attempts -> RunStates] /\ run'[a] = x /\ call'[a] = c
        /\ \A b \in Attempts \ {a} : run'[b] = run[b]
    BY <1>1, <1>2 DEF IInv, TypeOK
  <1>5. OwnerOK(a)'
    BY <1>2, <1>3, <1>4 DEF OwnerOK
  <1> QED
    BY <1>1, <1>2, <1>3, <1>4, <1>5, StepOK

(* StartPrepare keeps the invariant and refines the promise.               *)
LEMMA StartPrepareOK == ASSUME IInv, NEW a \in Attempts, StartPrepare(a) PROVE GoodStep
  <1>1. "preparing" \in Steps /\ "refused" \in RunStates \ ({"new"} \cup Granted)
    BY DEF Steps, RunStates, Granted
  <1> QED
    BY <1>1, AttemptStarts DEF StartPrepare

(* The same of StartFinalize.                                              *)
LEMMA StartFinalizeOK == ASSUME IInv, NEW a \in Attempts, StartFinalize(a) PROVE GoodStep
  <1>1. "finalizing" \in Steps /\ "failed" \in RunStates \ ({"new"} \cup Granted)
    BY DEF Steps, RunStates, Granted
  <1> QED
    BY <1>1, AttemptStarts DEF StartFinalize

(* The same of StartRelease.                                               *)
LEMMA StartReleaseOK == ASSUME IInv, NEW a \in Attempts, StartRelease(a) PROVE GoodStep
  <1>1. "releasing" \in Steps /\ "failed" \in RunStates \ ({"new"} \cup Granted)
    BY DEF Steps, RunStates, Granted
  <1> QED
    BY <1>1, AttemptStarts DEF StartRelease

(* The index of an attempt is written once.                                *)
LEMMA IndexStep ==
    ASSUME IInv, NEW a \in Attempts, NEW r \in ReceiptType,
           IndexHeld(a, r) \/ IndexUncertain(a, r), UNCHANGED <<ledger, wire, fresh, spent>>
    PROVE  StorageStep
  <1>1. index \in [Attempts -> ReceiptType \cup {None}] /\ lost \in Nat
    BY DEF IInv, TypeOK
  <1>2. index' \in [Attempts -> ReceiptType \cup {None}] /\ lost' \in Nat
    BY <1>1 DEF IndexHeld, IndexUncertain
  <1> QED
    BY <1>2, Stutter, CallFields, IdleOK DEF IInv, TypeOK, StorageStep, StorageInv, Record, LedgerInv,
       WireInv, SingleUse, SpentBelow

(* The same of PrepareIndex, which writes the index alone.                 *)
LEMMA PrepareIndexOK == ASSUME IInv, NEW a \in Attempts, PrepareIndex(a) PROVE GoodStep
  <1> DEFINE k == call[a]
  <1>1. a \in Procs /\ k.prior \in Record /\ ~At(a, "idle")
    BY CallFields DEF Procs, PrepareIndex, At
  <1>2. k.prior.status = "available" /\ k.claim = ClaimOf(k.prior)
    BY DEF PrepareIndex, ClaimMatchesState
  <1>3. k.claim \in ClaimType
    BY <1>1, <1>2, RecordFields DEF ClaimOf, LedgerType, ClaimType
  <1>4. Receipt(a, k.claim) \in ReceiptType
    BY <1>3 DEF Receipt, ReceiptType
  <1>5. StorageStep /\ UNCHANGED <<world, runs>> /\ refunded' \subseteq Attempts
    BY <1>4, IndexStep DEF PrepareIndex, IInv, TypeOK
  <1>6. CASE Goto(a, "indexed")
    <2>1. "indexed" \in Steps /\ "indexed" \notin TargetSteps
      BY DEF Steps, TargetSteps
    <2>2. PICK c : call' = [call EXCEPT ![a] = c] /\ CallOK(c) /\ c.step = "indexed"
      BY <1>1, <1>2, <1>3, <1>6, <2>1, GotoOK
    <2> QED
      BY <1>1, <1>5, <2>2, InnerStepOK DEF OwnerSteps
  <1>7. CASE Done(a)
    BY <1>1, <1>5, <1>7, DoneOK
  <1> QED
    BY <1>6, <1>7 DEF PrepareIndex

(* A step that ends a call of an attempt and may move its run.             *)
LEMMA AttemptEnds ==
    ASSUME IInv, NEW a \in Attempts, Done(a), StorageStep, UNCHANGED <<world, claims, refunded>>,
           NEW x \in RunStates, run' = [run EXCEPT ![a] = x],
           x \in Granted => [generation |-> claims[a].generation, owner |-> a] \in spent'
    PROVE  GoodStep
  <1>1. a \in Procs /\ refunded' \subseteq Attempts
    BY DEF Procs, IInv, TypeOK
  <1>2. call' = [call EXCEPT ![a] = Idle] /\ CallOK(Idle) /\ Idle.step = "idle"
    BY IdleOK DEF Done
  <1>3. run' \in [Attempts -> RunStates] /\ run'[a] = x /\ call'[a] = Idle
        /\ \A b \in Attempts \ {a} : run'[b] = run[b]
    BY <1>1, <1>2 DEF IInv, TypeOK
  <1>4. OwnerOK(a)'
    BY <1>2, <1>3 DEF OwnerOK
  <1> QED
    BY <1>1, <1>2, <1>3, <1>4, StepOK

(* The same of PreparePut: it reserves an offered generation.              *)
LEMMA PreparePutOK == ASSUME IInv, NEW a \in Attempts, PreparePut(a) PROVE GoodStep
  <1> DEFINE k == call[a]
             n == Prepared(k.prior, index[a])
  <1>1. /\ a \in Procs /\ k.prior \in Record /\ ~At(a, "idle")
        /\ k.prior.status = "available" /\ k.claim \in ClaimType
    BY CallFields DEF Procs, PreparePut, At, CallOK, SnapshotOK
  <1>2. k.prior \in LedgerType /\ index[a] \in ReceiptType
    BY <1>1, RecordFields DEF PreparePut, Receipt, ReceiptType
  <1>3. WriteOK(k.prior, n) /\ n.generation = k.prior.generation
    BY <1>1, <1>2, PreparedOK
  <1>4. StorageStep
    BY <1>1, <1>3, StoragePut DEF PreparePut
  <1>5. Done(a) /\ UNCHANGED <<world, claims, refunded>>
    BY DEF PreparePut
  <1>6. CASE run' = [run EXCEPT ![a] = "prepared"]
    BY <1>4, <1>5, <1>6, AttemptEnds DEF RunStates, Granted
  <1>7. CASE UNCHANGED run
    BY <1>1, <1>4, <1>5, <1>7, DoneOK DEF runs, IInv, TypeOK
  <1> QED
    BY <1>6, <1>7 DEF PreparePut

(* FinalizePut spends; the accepted PUT is what a grant rests on.          *)
LEMMA FinalizePutOK == ASSUME IInv, NEW a \in Attempts, FinalizePut(a) PROVE GoodStep
  <1> DEFINE k == call[a]
             n == Consumed(k.prior, k.claim)
             use == [generation |-> claims[a].generation, owner |-> a]
  <1>1. /\ a \in Procs /\ k.prior \in Record /\ ~At(a, "idle") /\ Shape(k.prior)
        /\ k.claim \in ClaimType \cup {None} /\ k.claim = claims[a] /\ run[a] # "new"
    BY CallFields, IdleOK DEF Procs, FinalizePut, At, CallOK, SnapshotOK, IInv, CallInv, OwnerOK
  <1>2. /\ k.prior.status = "prepared" /\ k.prior.generation = k.claim.generation
        /\ k.prior.receipt.owner = a
    BY DEF FinalizePut, PreparedFor, Receipt
  <1>3. k.prior \in LedgerType
    BY <1>1, <1>2, RecordFields
  <1>4. /\ WriteOK(k.prior, n) /\ n.generation = k.prior.generation
        /\ n.status = "consumed" /\ n.receipt = k.prior.receipt
    BY <1>1, <1>2, <1>3, ConsumedOK
  <1>5. StorageStep
    BY <1>1, <1>4, StoragePut DEF FinalizePut
  <1>6. UNCHANGED <<world, runs>> /\ refunded' \subseteq Attempts
    BY DEF FinalizePut, IInv, TypeOK
  <1>7. CASE Done(a)
    BY <1>1, <1>5, <1>6, <1>7, DoneOK
  <1>8. CASE Accepted(a, n) /\ Goto(a, "consumed")
    <2>1. spent' = spent \cup {[generation |-> n.generation, owner |-> n.receipt.owner]}
      BY <1>4, <1>8 DEF Accepted, Commit
    <2>2. use \in spent'
      BY <1>1, <1>2, <1>4, <2>1
    <2>3. "consumed" \in Steps /\ "consumed" \notin TargetSteps
      BY DEF Steps, TargetSteps
    <2>4. PICK c : /\ call' = [call EXCEPT ![a] = c] /\ CallOK(c)
                   /\ c.step = "consumed" /\ c.claim = k.claim
      BY <1>1, <1>8, <2>3, GotoOK
    <2>5. run' = run /\ claims' = claims /\ run \in [Attempts -> RunStates] /\ call'[a] = c
      BY <1>1, <1>6, <2>4 DEF runs, IInv, TypeOK
    <2>6. OwnerOK(a)'
      BY <1>1, <2>2, <2>4, <2>5 DEF OwnerOK
    <2> QED
      BY <1>1, <1>5, <1>6, <2>2, <2>4, <2>5, <2>6, StepOK
  <1> QED
    BY <1>7, <1>8 DEF FinalizePut

(* FinalizeGrant grants only what its own PUT has spent.                   *)
LEMMA FinalizeGrantOK == ASSUME IInv, NEW a \in Attempts, FinalizeGrant(a) PROVE GoodStep
  <1>1. [generation |-> claims[a].generation, owner |-> a] \in spent
    BY DEF FinalizeGrant, At, IInv, CallInv, OwnerOK
  <1>2. StorageStep /\ "granted" \in RunStates
    BY StorageUnmoved DEF FinalizeGrant, RunStates
  <1> QED
    BY <1>1, <1>2, AttemptEnds DEF FinalizeGrant, StorageStep

(* The steps of confirmChallenge settle a spent generation.                *)
LEMMA ConfirmOK ==
    ASSUME IInv, NEW a \in Attempts, StartConfirm(a) \/ ConfirmPut(a) PROVE GoodStep
  <1>1. a \in Procs
    BY DEF Procs
  <1>2. CASE StartConfirm(a)
    <2>1. PICK t \in Clock : Enter(a, "confirming", a, claims[a], t)
      BY <1>2 DEF StartConfirm
    <2>2. /\ t \in Int /\ claims[a] \in ClaimType \cup {None} /\ "confirming" \in Steps
          /\ ledger.status = "consumed"
      BY <1>2, ClockInt DEF IInv, TypeOK, Steps, StartConfirm
    <2>3. PICK c : call' = [call EXCEPT ![a] = c] /\ CallOK(c) /\ c.step = "confirming"
      BY <1>1, <2>1, <2>2, EnterOK
    <2>4. /\ StorageStep /\ run' = run /\ claims' = claims /\ UNCHANGED world
          /\ refunded' \subseteq Attempts /\ run \in [Attempts -> RunStates]
          /\ run[a] = "working" /\ call'[a] = c
      BY <1>1, <1>2, <2>3, StorageUnmoved DEF StartConfirm, runs, IInv, TypeOK
    <2>5. OwnerOK(a)'
      BY <2>3, <2>4 DEF OwnerOK
    <2>6. [generation |-> claims[a].generation, owner |-> a] \in spent'
      BY <2>4 DEF IInv, GrantsAreSpent, StorageStep
    <2> QED
      BY <1>1, <2>3, <2>4, <2>5, <2>6, StepOK
  <1>3. CASE ConfirmPut(a)
    <2> DEFINE k == call[a]
    <2>1. /\ k.prior \in Record /\ ~At(a, "idle") /\ Shape(k.prior)
          /\ k.prior.status = "consumed"
      BY <1>1, <1>3, CallFields DEF ConfirmPut, At, CallOK, SnapshotOK
    <2>2. WriteOK(k.prior, Confirmed(k.prior))
          /\ Confirmed(k.prior).generation = k.prior.generation
      BY <2>1, ConfirmedOK, RecordFields
    <2>3. StorageStep
      BY <1>1, <1>3, <2>2, StoragePut DEF ConfirmPut
    <2> QED
      BY <1>1, <1>3, <2>1, <2>3, DoneOK DEF ConfirmPut, IInv, TypeOK
  <1> QED
    BY <1>2, <1>3

(* The run of an attempt moves without a call.                             *)
LEMMA RunOK ==
    ASSUME IInv, NEW a \in Attempts,
           Dispatch(a) \/ (\E b \in Attempts : Rerun(a, b)) \/ StartWorker(a) \/ EndRun(a)
    PROVE  GoodStep
  <1>1. /\ run \in [Attempts -> RunStates] /\ claims \in [Attempts -> ClaimType \cup {None}]
        /\ call \in [Procs -> CallType] /\ a \in Procs
    BY DEF IInv, TypeOK, Procs
  <1>2. CASE Dispatch(a) \/ \E b \in Attempts : Rerun(a, b)
    <2>1. /\ run[a] = "new" /\ run' = [run EXCEPT ![a] = "queued"]
          /\ UNCHANGED <<storage, world, call, refunded>>
      BY <1>2 DEF Dispatch, Rerun
    <2>2. PICK x \in ClaimType \cup {None} : claims' = [claims EXCEPT ![a] = x]
      <3>1. CASE Dispatch(a)
        <4>1. ledger \in LedgerType
          BY <3>1, IdleOK, RecordFields DEF Dispatch
        <4>2. ClaimOf(ledger) \in ClaimType
          BY <4>1 DEF LedgerType, ClaimOf, ClaimType
        <4> QED
          BY <3>1, <4>2 DEF Dispatch
      <3>2. CASE \E b \in Attempts : Rerun(a, b)
        BY <1>1, <3>2 DEF Rerun
      <3> QED
        BY <1>2, <3>1, <3>2
    <2>3. claims' \in [Attempts -> ClaimType \cup {None}] /\ run' \in [Attempts -> RunStates]
      BY <1>1, <2>1, <2>2 DEF RunStates
    <2>4. TypeOK'
      BY <2>1, <2>3 DEF IInv, TypeOK, storage, world
    <2>5. StorageStep
      BY <2>1, StorageUnmoved
    <2>6. CallInv'
      <3>1. ASSUME NEW p \in Procs PROVE SnapshotOK(call[p])' /\ call'[p].prior.generation < fresh'
        BY <2>1 DEF IInv, CallInv, SnapshotOK, storage
      <3>2. ASSUME NEW b \in Attempts PROVE OwnerOK(b)'
        <4>1. CASE b = a
          <5>1. call'[a] = Idle /\ Idle.step = "idle" /\ run'[a] = "queued"
            BY <1>1, <2>1, IdleOK DEF IInv, CallInv, OwnerOK
          <5> QED
            BY <4>1, <5>1 DEF OwnerOK
        <4>2. CASE b # a
          BY <1>1, <2>1, <2>2, <4>2 DEF IInv, CallInv, OwnerOK, storage
        <4> QED
          BY <4>1, <4>2
      <3> QED
        BY <3>1, <3>2 DEF CallInv
    <2>7. GrantsAreSpent'
      BY <1>1, <2>1, <2>2 DEF IInv, GrantsAreSpent, storage
    <2> QED
      BY <2>4, <2>5, <2>6, <2>7 DEF IInv, StorageStep, StorageInv, GoodStep
  <1>3. CASE StartWorker(a)
    <2>1. /\ run' = [run EXCEPT ![a] = "working"] /\ run[a] = "granted"
          /\ UNCHANGED <<storage, world, claims, call, refunded>>
      BY <1>3 DEF StartWorker
    <2>2. TypeOK'
      BY <1>1, <2>1 DEF IInv, TypeOK, storage, world, RunStates
    <2>3. StorageStep
      BY <2>1, StorageUnmoved
    <2>4. CallInv'
      BY <1>1, <2>1 DEF IInv, CallInv, SnapshotOK, OwnerOK, storage
    <2>5. GrantsAreSpent'
      BY <1>1, <2>1 DEF IInv, GrantsAreSpent, storage
    <2> QED
      BY <2>2, <2>3, <2>4, <2>5 DEF IInv, StorageStep, StorageInv, GoodStep
  <1>4. CASE EndRun(a)
    <2>1. PICK x \in RunStates :
            /\ run' = [run EXCEPT ![a] = x]
            /\ x \in Granted => run[a] = "working"
      <3>1. CASE run[a] = "working"
        BY <1>1, <1>4, <3>1 DEF EndRun, RunStates
      <3>2. CASE run[a] # "working"
        BY <1>1, <1>4, <3>2 DEF EndRun, RunStates, Granted
      <3> QED
        BY <3>1, <3>2
    <2>2. StorageStep
      BY <1>4, StorageUnmoved DEF EndRun
    <2>3. x \in Granted => [generation |-> claims[a].generation, owner |-> a] \in spent'
      BY <2>1, <2>2 DEF IInv, GrantsAreSpent, StorageStep
    <2> QED
      BY <1>4, <2>1, <2>2, <2>3, AttemptEnds DEF EndRun
  <1> QED
    BY <1>2, <1>3, <1>4

(* What an attempt does of its own keeps the invariant.                    *)
LEMMA AttemptStepOK == ASSUME IInv, NEW a \in Attempts, AttemptStep(a) PROVE GoodStep
  BY StartPrepareOK, PrepareIndexOK, PreparePutOK, StartFinalizeOK, FinalizePutOK,
     FinalizeGrantOK, StartReleaseOK, ConfirmOK, RunOK DEF AttemptStep

-----------------------------------------------------------------------------
(* The steps of a release and of a refresh                                 *)

(* A step that only reads keeps storage, world and runs.                   *)
LEMMA ReadStep ==
    ASSUME IInv, UNCHANGED <<storage, world, runs>>
    PROVE  StorageStep /\ UNCHANGED <<world, runs>> /\ refunded \subseteq Attempts
  BY StorageUnmoved DEF IInv, TypeOK

(* The steps of a release before its PUT write nothing.                    *)
LEMMA ReleaseReadsOK ==
    ASSUME IInv, NEW p \in Procs, ReleaseAlready(p) \/ ReleaseCheck(p) \/ RefreshCheck(p)
    PROVE  GoodStep
  <1> DEFINE k == call[p]
  <1>1. /\ ~At(p, "idle") /\ k.target \in Attempts
        /\ StorageStep /\ UNCHANGED <<world, runs>> /\ refunded \subseteq Attempts
    BY CallFields, ReadStep
       DEF ReleaseAlready, ReleaseCheck, RefreshCheck, At, CallOK, SnapshotOK, TargetSteps
  <1>2. CASE ReportReleased(p)
    BY <1>1, <1>2, ReportOK
  <1>3. CASE UNCHANGED refunded /\ \E s \in {"refreshing", "release-checked", "refresh-checked"} :
                /\ Goto(p, s)
                /\ s = "release-checked" => k.prior.status = "prepared"
                /\ s = "refresh-checked" =>
                     k.prior.status = "available" /\ k.prior.released # None
    <2>1. PICK s \in {"refreshing", "release-checked", "refresh-checked"} :
                /\ Goto(p, s)
                /\ s = "release-checked" => k.prior.status = "prepared"
                /\ s = "refresh-checked" =>
                     k.prior.status = "available" /\ k.prior.released # None
      BY <1>3
    <2>2. s \in Steps
      BY DEF Steps
    <2>3. PICK c : call' = [call EXCEPT ![p] = c] /\ CallOK(c) /\ c.step = s
      BY <1>1, <2>1, <2>2, GotoOK
    <2> QED
      BY <1>1, <1>3, <2>3, InnerStepOK DEF OwnerSteps
  <1>4. CASE ReleaseAlready(p)
    BY <1>2, <1>3, <1>4 DEF ReleaseAlready
  <1>5. CASE ReleaseCheck(p)
    BY <1>3, <1>5 DEF ReleaseCheck, PreparedFor
  <1>6. CASE RefreshCheck(p)
    BY <1>2, <1>3, <1>6 DEF RefreshCheck, Owns
  <1> QED
    BY <1>4, <1>5, <1>6

(* The answer to a PUT is reported, or the call goes on to settle it.      *)
LEMMA SettleStep ==
    ASSUME IInv, NEW p \in Procs, NEW n \in LedgerType, NEW s,
           s \in {"release-rejected", "release-lost", "refresh-lost"},
           ~At(p, "idle"), call[p].target \in Attempts, StorageStep, UNCHANGED <<world, runs>>,
           ReportReleased(p) \/ (Settle(p, s, n) /\ UNCHANGED refunded)
    PROVE  GoodStep
  <1>1. CASE ReportReleased(p)
    BY <1>1, ReportOK
  <1>2. CASE Settle(p, s, n) /\ UNCHANGED refunded
    <2>1. PICK c : call' = [call EXCEPT ![p] = c] /\ CallOK(c) /\ c.step = s
      BY <1>2, SettleOK
    <2> QED
      BY <1>2, <2>1, InnerStepOK DEF OwnerSteps, IInv, TypeOK
  <1> QED
    BY <1>1, <1>2

(* ReleasePut returns a reservation or replaces an expired one.            *)
LEMMA ReleasePutOK == ASSUME IInv, NEW p \in Procs, ReleasePut(p) PROVE GoodStep
  <1> DEFINE k == call[p]
             n == Released(k.prior, fresh, k.at)
  <1>1. /\ ~At(p, "idle") /\ k.target \in Attempts /\ k.prior \in LedgerType
        /\ k.prior.status = "prepared" /\ Shape(k.prior) /\ k.at \in Int
        /\ fresh \in Nat /\ k.prior.generation < fresh
    BY CallFields, RecordFields DEF ReleasePut, At, CallOK, SnapshotOK, TargetSteps
  <1>2. /\ WriteOK(k.prior, n) /\ n \in LedgerType
        /\ n.generation = IF Expired(k.prior, k.at) THEN fresh ELSE k.prior.generation
    BY <1>1, ReleasedOK DEF WriteOK
  <1>3. StorageStep
    BY <1>2, StoragePut DEF ReleasePut
  <1> QED
    BY <1>1, <1>2, <1>3, SettleStep DEF ReleasePut

(* RefreshPut opens a later generation.                                    *)
LEMMA RefreshPutOK == ASSUME IInv, NEW p \in Procs, RefreshPut(p) PROVE GoodStep
  <1> DEFINE k == call[p]
             n == ReleasedRefreshed(k.prior, fresh, k.at)
  <1>1. /\ ~At(p, "idle") /\ k.target \in Attempts /\ k.prior \in LedgerType
        /\ k.prior.status = "available" /\ Shape(k.prior) /\ k.at \in Int
        /\ k.prior.released # None /\ fresh \in Nat /\ k.prior.generation < fresh
    BY CallFields, RecordFields DEF RefreshPut, At, CallOK, SnapshotOK, TargetSteps
  <1>2. WriteOK(k.prior, n) /\ n \in LedgerType /\ n.generation = fresh
    BY <1>1, ReleasedRefreshedOK DEF WriteOK
  <1>3. StorageStep
    BY <1>2, StoragePut DEF RefreshPut
  <1> QED
    BY <1>1, <1>2, <1>3, SettleStep DEF RefreshPut

(* Another round of beginChallenge.                                        *)
LEMMA ContinueStep ==
    ASSUME IInv, NEW p \in Procs, Continue(p), call[p].boundary # None, ~At(p, "idle"),
           StorageStep, UNCHANGED <<world, runs, refunded>>
    PROVE  GoodStep
  <1>1. PICK c : call' = [call EXCEPT ![p] = c] /\ CallOK(c) /\ c.step \in {"idle", "beginning"}
    BY ContinueOK
  <1> QED
    BY <1>1, InnerStepOK DEF OwnerSteps, IInv, TypeOK

(* Looking at the ledger after an unanswered PUT writes nothing.           *)
LEMMA SettlesOK ==
    ASSUME IInv, NEW p \in Procs, ReleaseSettle(p) \/ RefreshSettle(p) \/ Return(p)
    PROVE  GoodStep
  <1>1. StorageStep /\ UNCHANGED <<world, runs>> /\ refunded \subseteq Attempts
    BY ReadStep DEF ReleaseSettle, RefreshSettle, Return
  <1>2. CASE Return(p)
    BY <1>1, <1>2, DoneOK DEF Return
  <1>3. CASE ReleaseSettle(p) \/ RefreshSettle(p)
    <2>1. ~At(p, "idle") /\ call[p].target \in Attempts
      BY <1>3, CallFields DEF ReleaseSettle, RefreshSettle, At, CallOK, SnapshotOK, TargetSteps
    <2>2. CASE ReportReleased(p)
      BY <1>1, <2>1, <2>2, ReportOK
    <2>3. CASE InBegin(p) /\ Continue(p) /\ UNCHANGED refunded
      BY <1>1, <2>1, <2>3, ContinueStep DEF InBegin
    <2> QED
      BY <1>3, <2>2, <2>3 DEF ReleaseSettle, RefreshSettle
  <1> QED
    BY <1>2, <1>3

(* Every step of the functions that attempts, reporters and updaters share. *)
LEMMA SharedStepOK == ASSUME IInv, NEW p \in Procs, SharedStep(p) PROVE GoodStep
  BY ReleaseReadsOK, ReleasePutOK, RefreshPutOK, SettlesOK DEF SharedStep

-----------------------------------------------------------------------------
(* The steps of a reporter                                                 *)

(* The reconciliation of a reporter starts from what it reads.             *)
LEMMA StartReconcileOK ==
    ASSUME IInv, NEW r \in Reporters, NEW a \in Attempts, StartReconcile(r, a)
    PROVE  GoodStep
  <1>1. r \in Procs /\ r \notin Attempts
    BY ProcsAssumption DEF Procs
  <1>2. PICK op \in {"recovering", "refreshing", "releasing", "reopening"} :
          call' = [call EXCEPT ![r] =
                     [Idle EXCEPT !.step = "reread", !.op = op, !.target = a,
                                  !.claim = ledger.claim]]
    BY DEF StartReconcile
  <1> DEFINE c == [Idle EXCEPT !.step = "reread", !.op = op, !.target = a,
                               !.claim = ledger.claim]
  <1>3. ledger.claim \in ClaimType \cup {None} /\ CallOK(Idle)
    BY IdleOK, RecordFields
  <1>4. c \in CallType
    <2>1. ASSUME NEW st \in Steps, NEW o \in Ops, NEW x \in ClaimType \cup {None},
                 NEW i \in CallType
          PROVE  [i EXCEPT !.step = st, !.op = o, !.target = a, !.claim = x] \in CallType
      BY DEF CallType
    <2>2. "reread" \in Steps /\ op \in Ops
      BY DEF Steps, Ops
    <2> QED
      BY <1>3, <2>1, <2>2 DEF CallOK
  <1>5. c.step = "reread" /\ c.prior = Absent /\ c.target = a /\ c.op = op
        /\ Idle.prior = Absent
    BY DEF Idle
  <1> HIDE DEF c
  <1>6. CallOK(c)
    BY <1>3, <1>4, <1>5, AbsentShape DEF CallOK, SnapshotOK
  <1> QED
    BY <1>1, <1>2, <1>6, ReadStep, InnerStepOK DEF c, StartReconcile

(* The steps of a reporter before its PUTs write nothing.                  *)
LEMMA ReporterReadsOK ==
    ASSUME IInv, NEW r \in Reporters, Reread(r) \/ RecoverCheck(r) \/ ReopenCheck(r)
    PROVE  GoodStep
  <1> DEFINE k == call[r]
  <1>1. r \in Procs /\ r \notin Attempts
    BY ProcsAssumption DEF Procs
  <1>2. /\ StorageStep /\ UNCHANGED <<world, runs>> /\ refunded' \subseteq Attempts
        /\ ~At(r, "idle")
    BY ReadStep DEF Reread, RecoverCheck, ReopenCheck, At
  <1>3. CASE Reread(r)
    <2>1. PICK t \in Clock : Enter(r, k.op, k.target, k.claim, t)
      BY <1>3 DEF Reread
    <2>2. /\ k.op \in {"recovering", "refreshing", "releasing", "reopening"}
          /\ k.target \in Attempts
          /\ k.claim \in ClaimType \cup {None} /\ t \in Int
      BY <1>1, <1>3, CallFields, ClockInt DEF Reread, At, CallOK, SnapshotOK, TargetSteps, Ops
    <2>3. k.op \in Steps
      BY <2>2 DEF Steps
    <2>4. PICK c : call' = [call EXCEPT ![r] = c] /\ CallOK(c)
      BY <1>1, <2>1, <2>2, <2>3, EnterOK
    <2> QED
      BY <1>1, <1>2, <2>4, InnerStepOK
  <1>4. CASE RecoverCheck(r)
    <2>1. CASE Done(r)
      BY <1>1, <1>2, <2>1, DoneOK
    <2>2. CASE Goto(r, "recover-checked")
      <3>1. "recover-checked" \in Steps /\ "recover-checked" \notin TargetSteps
        BY DEF Steps, TargetSteps
      <3>2. k.prior.status = "available" /\ k.prior.recovered # None
        BY <1>4 DEF RecoverCheck, Owns
      <3>3. PICK c : call' = [call EXCEPT ![r] = c] /\ CallOK(c)
        BY <1>1, <2>2, <3>1, <3>2, GotoOK
      <3> QED
        BY <1>1, <1>2, <3>3, InnerStepOK
    <2> QED
      BY <1>4, <2>1, <2>2 DEF RecoverCheck
  <1>5. CASE ReopenCheck(r)
    <2>1. PICK t \in Clock :
            call' = [call EXCEPT ![r].step = "reopen-checked", ![r].at = t]
      BY <1>5 DEF ReopenCheck
    <2> DEFINE c == [k EXCEPT !.step = "reopen-checked", !.at = t]
    <2>2. /\ CallOK(k) /\ t \in Int /\ k.prior.status = "consumed"
          /\ "reopen-checked" \in Steps \ TargetSteps
      BY <1>1, <1>5, CallFields, ClockInt DEF ReopenCheck, Steps, TargetSteps
    <2>3. c \in CallType
      BY <2>2 DEF CallOK, CallType
    <2>4. c.step = "reopen-checked" /\ c.prior = k.prior
      BY <2>2 DEF CallOK, CallType
    <2>5. call' = [call EXCEPT ![r] = c]
      BY <1>1, <2>1 DEF IInv, TypeOK
    <2> HIDE DEF c
    <2>6. CallOK(c)
      BY <2>2, <2>3, <2>4 DEF CallOK, SnapshotOK
    <2> QED
      BY <1>1, <1>2, <2>5, <2>6, InnerStepOK
  <1> QED
    BY <1>3, <1>4, <1>5

(* The PUTs of a reporter open later generations.                          *)
LEMMA ReporterPutsOK ==
    ASSUME IInv, NEW r \in Reporters, RecoverPut(r) \/ ReopenPut(r)
    PROVE  GoodStep
  <1> DEFINE k == call[r]
  <1>1. r \in Procs /\ ~At(r, "idle") /\ Done(r) /\ UNCHANGED <<index, world, runs>>
        /\ refunded' \subseteq Attempts
    BY DEF Procs, RecoverPut, ReopenPut, At, IInv, TypeOK
  <1>2. /\ k.prior \in Record /\ Shape(k.prior) /\ k.at \in Int
        /\ fresh \in Nat /\ k.prior.generation < fresh
    BY <1>1, CallFields DEF CallOK, SnapshotOK
  <1>3. CASE RecoverPut(r)
    <2> DEFINE n == RecoveredRefreshed(k.prior, fresh, k.at)
    <2>1. k.prior.status = "available" /\ k.prior.recovered # None /\ k.prior \in LedgerType
      BY <1>1, <1>2, <1>3, CallFields, RecordFields DEF RecoverPut, At, CallOK, SnapshotOK
    <2>2. WriteOK(k.prior, n) /\ n.generation = fresh
      BY <1>2, <2>1, RecoveredRefreshedOK
    <2>3. StorageStep
      BY <1>1, <1>3, <2>2, StoragePut DEF RecoverPut
    <2> QED
      BY <1>1, <2>3, DoneOK
  <1>4. CASE ReopenPut(r)
    <2> DEFINE n == Reopened(k.prior, fresh, k.at)
    <2>1. k.prior.status = "consumed" /\ k.prior \in LedgerType
      BY <1>1, <1>2, <1>4, CallFields, RecordFields DEF ReopenPut, At, CallOK, SnapshotOK
    <2>2. WriteOK(k.prior, n) /\ n.generation = fresh
      BY <1>2, <2>1, ReopenedOK
    <2>3. StorageStep
      BY <1>1, <1>4, <2>2, StoragePut DEF ReopenPut
    <2> QED
      BY <1>1, <2>3, DoneOK
  <1> QED
    BY <1>3, <1>4

(* Every step of a reporter.                                               *)
LEMMA ReporterStepOK == ASSUME IInv, NEW r \in Reporters, ReporterStep(r) PROVE GoodStep
  BY StartReconcileOK, ReporterReadsOK, ReporterPutsOK DEF ReporterStep

-----------------------------------------------------------------------------
(* The steps of an updater                                                 *)

(* So does the issue of a challenge.                                       *)
LEMMA StartBeginOK == ASSUME IInv, NEW u \in Updaters, StartBegin(u) PROVE GoodStep
  <1>1. u \in Procs /\ u \notin Attempts
    BY ProcsAssumption DEF Procs
  <1>2. PICK t \in Clock, f \in Fingerprints, h \in Heads, x \in 0..(fresh - 1) :
         call' = [call EXCEPT ![u] =
                    [Idle EXCEPT !.step = "beginning", !.at = t, !.tries = 1,
                       !.prior = ledger,
                       !.boundary = [fingerprint |-> f, head |-> h,
                                     expires |-> t + Window, expected |-> x]]]
    BY DEF StartBegin
  <1> DEFINE b == [fingerprint |-> f, head |-> h, expires |-> t + Window, expected |-> x]
             c == [Idle EXCEPT !.step = "beginning", !.at = t, !.tries = 1,
                               !.prior = ledger, !.boundary = b]
  <1>3. /\ ledger \in LedgerType \cup {Absent} /\ Shape(ledger) /\ ledger.generation < fresh
        /\ CallOK(Idle)
    BY IdleOK DEF IInv, TypeOK, LedgerInv
  <1>4. t \in Int /\ t + Window \in Int /\ x \in Nat
    BY ClockInt, WindowAssumption DEF IInv, TypeOK
  <1>5. b \in BoundaryType /\ b # None
    BY <1>4, BoundaryAssumption DEF BoundaryType
  <1> HIDE DEF b
  <1>6. c \in CallType
    <2>1. ASSUME NEW st \in Steps, NEW y \in 0..3, NEW i \in CallType
          PROVE  [i EXCEPT !.step = st, !.at = t, !.tries = y, !.prior = ledger,
                           !.boundary = b] \in CallType
      BY <1>3, <1>4, <1>5 DEF CallType
    <2>2. "beginning" \in Steps /\ 1 \in 0..3
      BY DEF Steps
    <2> QED
      BY <1>3, <2>1, <2>2 DEF CallOK
  <1>7. c.step = "beginning" /\ c.prior = ledger /\ c.boundary = b
    BY DEF Idle
  <1>8. call' = [call EXCEPT ![u] = c]
    BY <1>2 DEF b
  <1> HIDE DEF c
  <1>9. CallOK(c)
    BY <1>3, <1>5, <1>6, <1>7 DEF CallOK, SnapshotOK, TargetSteps
  <1> QED
    BY <1>1, <1>8, <1>9, ReadStep, InnerStepOK DEF StartBegin

(* BeginIssue opens a later generation over any record.                    *)
LEMMA BeginIssueOK == ASSUME IInv, NEW u \in Updaters, BeginIssue(u) PROVE GoodStep
  <1> DEFINE k == call[u]
             n == Issued(k.prior, k.boundary, fresh)
  <1>1. /\ u \in Procs /\ ~At(u, "idle") /\ UNCHANGED <<index, world, runs, refunded>>
        /\ refunded' \subseteq Attempts
    BY DEF Procs, BeginIssue, Beginning, At, IInv, TypeOK
  <1>2. /\ k.prior \in Record /\ k.boundary \in BoundaryType /\ k.boundary # None
        /\ fresh \in Nat /\ k.prior.generation < fresh
    BY <1>1, CallFields DEF BeginIssue, Beginning, At, CallOK, SnapshotOK
  <1>3. WriteOK(k.prior, n) /\ n.generation = fresh
    BY <1>2, IssuedOK
  <1>4. StorageStep
    BY <1>1, <1>3, StoragePut DEF BeginIssue
  <1>5. CASE Done(u)
    BY <1>1, <1>4, <1>5, DoneOK
  <1>6. CASE Continue(u)
    BY <1>1, <1>2, <1>4, <1>6, ContinueStep
  <1> QED
    BY <1>5, <1>6 DEF BeginIssue

(* BeginReap enters the release of an expired preparation.                 *)
LEMMA BeginReapOK == ASSUME IInv, NEW u \in Updaters, BeginReap(u) PROVE GoodStep
  <1> DEFINE k == call[u]
             c == [k EXCEPT !.step = "releasing", !.prior = ledger,
                            !.target = k.prior.receipt.owner, !.claim = k.prior.claim]
  <1>1. u \in Procs /\ u \notin Attempts
    BY ProcsAssumption DEF Procs
  <1>2. /\ CallOK(k) /\ k.prior \in Record /\ k.prior.status = "prepared"
        /\ k.prior.claim \in ClaimType \cup {None}
    BY <1>1, CallFields, RecordFields DEF BeginReap, Reapable
  <1>3. k.prior.receipt \in ReceiptType
    BY <1>2, RecordFields DEF CallOK, SnapshotOK, Shape, Receipted
  <1>4. k.prior.receipt.owner \in Attempts
    BY <1>3 DEF ReceiptType
  <1>5. ledger \in LedgerType \cup {Absent} /\ Shape(ledger) /\ ledger.generation < fresh
    BY DEF IInv, TypeOK, LedgerInv
  <1>6. c \in CallType
    <2>1. ASSUME NEW st \in Steps, NEW a \in Attempts, NEW x \in ClaimType \cup {None}
          PROVE  [k EXCEPT !.step = st, !.prior = ledger, !.target = a, !.claim = x] \in CallType
      BY <1>2, <1>5 DEF CallOK, CallType
    <2>2. "releasing" \in Steps
      BY DEF Steps
    <2> QED
      BY <1>2, <1>4, <2>1, <2>2
  <1>7. c.step = "releasing" /\ c.prior = ledger /\ c.target \in Attempts
    BY <1>2, <1>4 DEF CallOK, CallType
  <1>8. call' = [call EXCEPT ![u] = c]
    BY <1>1 DEF BeginReap, IInv, TypeOK
  <1> HIDE DEF c
  <1>9. CallOK(c)
    BY <1>5, <1>6, <1>7 DEF CallOK, SnapshotOK
  <1> QED
    BY <1>1, <1>8, <1>9, ReadStep, InnerStepOK DEF BeginReap

(* Another round of beginChallenge reads the ledger afresh.                *)
LEMMA RoundsOK ==
    ASSUME IInv, NEW u \in Updaters,
           BeginRetry(u) \/ BeginReaped(u) \/ LegacySettle(u) \/ LegacyReleased(u)
    PROVE  GoodStep
  <1>1. /\ u \in Procs /\ u \notin Attempts /\ UNCHANGED refunded
        /\ StorageStep /\ UNCHANGED <<world, runs>> /\ refunded' \subseteq Attempts
    BY ProcsAssumption, ReadStep
       DEF Procs, BeginRetry, BeginReaped, LegacySettle, LegacyReleased
  <1>2. ~At(u, "idle") /\ call[u].boundary # None
    BY <1>1, CallFields DEF BeginRetry, BeginReaped, LegacySettle, LegacyReleased, InBegin, At,
       CallOK, SnapshotOK
  <1>3. CASE Continue(u)
    BY <1>1, <1>2, <1>3, ContinueStep
  <1>4. CASE Goto(u, "legacy-released")
    <2>1. "legacy-released" \in Steps /\ "legacy-released" \notin TargetSteps
      BY DEF Steps, TargetSteps
    <2>2. PICK c : call' = [call EXCEPT ![u] = c] /\ CallOK(c)
      BY <1>1, <1>2, <1>4, <2>1, GotoOK
    <2> QED
      BY <1>1, <2>2, InnerStepOK
  <1> QED
    BY <1>3, <1>4 DEF BeginRetry, BeginReaped, LegacySettle, LegacyReleased

(* LegacyIndex writes the index alone.                                     *)
LEMMA LegacyIndexOK == ASSUME IInv, NEW u \in Updaters, LegacyIndex(u) PROVE GoodStep
  <1> DEFINE k == call[u]
  <1>1. u \in Procs /\ u \notin Attempts /\ UNCHANGED <<world, runs>> /\ refunded' \subseteq Attempts
    BY ProcsAssumption DEF Procs, LegacyIndex, IInv, TypeOK
  <1>2. k.prior.receipt \in ReceiptType
    BY <1>1, CallFields, RecordFields
       DEF LegacyIndex, Reapable, CallOK, SnapshotOK, Shape, Receipted
  <1>3. k.prior.receipt.owner \in Attempts
    BY <1>2 DEF ReceiptType
  <1>4. StorageStep
    BY <1>2, <1>3, IndexStep DEF LegacyIndex
  <1>5. Goto(u, "legacy-indexed") /\ k.boundary # None /\ "legacy-indexed" \in Steps \ TargetSteps
    BY <1>1, CallFields DEF LegacyIndex, Beginning, At, CallOK, SnapshotOK, Steps, TargetSteps
  <1>6. PICK c : call' = [call EXCEPT ![u] = c] /\ CallOK(c)
    BY <1>1, <1>5, GotoOK
  <1> QED
    BY <1>1, <1>4, <1>6, InnerStepOK

(* LegacyReread takes a new snapshot of the preparation.                   *)
LEMMA LegacyRereadOK == ASSUME IInv, NEW u \in Updaters, LegacyReread(u) PROVE GoodStep
  <1> DEFINE k == call[u]
             c == [k EXCEPT !.step = "legacy-checked", !.prior = ledger]
  <1>1. u \in Procs /\ u \notin Attempts
    BY ProcsAssumption DEF Procs
  <1>2. CallOK(k) /\ k.boundary # None /\ "legacy-checked" \in Steps \ TargetSteps
    BY <1>1, CallFields DEF LegacyReread, At, CallOK, SnapshotOK, Steps, TargetSteps
  <1>3. /\ ledger \in LedgerType \cup {Absent} /\ Shape(ledger) /\ ledger.generation < fresh
        /\ ledger.status = "prepared"
    BY DEF IInv, TypeOK, LedgerInv, LegacyReread
  <1>4. c \in CallType
    BY <1>2, <1>3 DEF CallOK, CallType
  <1>5. c.step = "legacy-checked" /\ c.prior = ledger /\ c.boundary = k.boundary
    BY <1>2 DEF CallOK, CallType
  <1>6. call' = [call EXCEPT ![u] = c]
    BY <1>1 DEF LegacyReread, IInv, TypeOK
  <1> HIDE DEF c
  <1>7. CallOK(c)
    BY <1>2, <1>3, <1>4, <1>5 DEF CallOK, SnapshotOK
  <1> QED
    BY <1>1, <1>6, <1>7, ReadStep, InnerStepOK DEF LegacyReread

(* LegacyPut returns a preparation of the old format.                      *)
LEMMA LegacyPutOK == ASSUME IInv, NEW u \in Updaters, LegacyPut(u) PROVE GoodStep
  <1> DEFINE k == call[u]
             n == Released(k.prior, fresh, k.at)
  <1>1. /\ u \in Procs /\ u \notin Attempts /\ UNCHANGED <<world, runs>>
        /\ refunded' \subseteq Attempts
    BY ProcsAssumption DEF Procs, LegacyPut, IInv, TypeOK
  <1>2. /\ k.prior \in LedgerType /\ k.boundary # None
        /\ k.prior.status = "prepared" /\ Shape(k.prior) /\ k.at \in Int
        /\ fresh \in Nat /\ k.prior.generation < fresh
    BY <1>1, CallFields, RecordFields DEF LegacyPut, At, CallOK, SnapshotOK
  <1>3. /\ WriteOK(k.prior, n) /\ n \in LedgerType
        /\ n.generation \in {k.prior.generation, fresh}
    BY <1>2, ReleasedOK DEF WriteOK
  <1>4. StorageStep
    BY <1>1, <1>3, StoragePut DEF LegacyPut
  <1>5. CASE Goto(u, "legacy-released")
    <2>1. "legacy-released" \in Steps /\ "legacy-released" \notin TargetSteps
      BY DEF Steps, TargetSteps
    <2>2. PICK c : call' = [call EXCEPT ![u] = c] /\ CallOK(c)
      BY <1>1, <1>2, <1>5, <2>1, GotoOK
    <2> QED
      BY <1>1, <1>4, <2>2, InnerStepOK
  <1>6. CASE Settle(u, "legacy-lost", n)
    <2>1. PICK c : call' = [call EXCEPT ![u] = c] /\ CallOK(c)
      BY <1>1, <1>2, <1>3, <1>6, SettleOK DEF TargetSteps
    <2> QED
      BY <1>1, <1>4, <2>1, InnerStepOK
  <1> QED
    BY <1>5, <1>6 DEF LegacyPut

(* Every step of an updater.                                               *)
LEMMA UpdaterStepOK == ASSUME IInv, NEW u \in Updaters, UpdaterStep(u) PROVE GoodStep
  BY StartBeginOK, BeginIssueOK, BeginReapOK, RoundsOK, LegacyIndexOK, LegacyRereadOK,
     LegacyPutOK DEF UpdaterStep

-----------------------------------------------------------------------------
(* The steps of the world, and the theorems                                *)

(* A late write lands only on the record it was computed from.             *)
LEMMA LandOK == ASSUME IInv, NEW w \in wire, Land(w) PROVE GoodStep
  <1>1. /\ StorageInv /\ w.next \in LedgerType /\ WriteOK(ledger, w.next) /\ Commit(w.next)
        /\ w.next.generation < fresh /\ fresh' = fresh /\ fresh \in Nat
    BY DEF Land, IInv, WireInv, TypeOK, StorageInv, Record, WriteOK
  <1>2. /\ ledger' \in Record /\ spent \subseteq spent' /\ LedgerInv' /\ SingleUse'
        /\ spent' \subseteq [generation : Nat, owner : Attempts]
    BY <1>1, CommitOK
  <1>3. wire' \subseteq wire
    BY DEF Land
  <1>4. /\ UNCHANGED <<index, fresh, lost, pr, now, moves, run, claims, call, refunded>>
    BY DEF Land, world, runs
  <1>5. TypeOK'
    BY <1>2, <1>3, <1>4 DEF IInv, TypeOK, Record
  <1>6. WireInv' /\ CallInv' /\ GrantsAreSpent'
    BY <1>2, <1>3, <1>4 DEF IInv, WireInv, CallInv, SnapshotOK, OwnerOK, GrantsAreSpent
  <1>7. Refines
    BY <1>1, CommitRefines DEF WriteOK
  <1> QED
    BY <1>2, <1>5, <1>6, <1>7 DEF IInv, GoodStep

(* The clock, the pull request, and steps that change nothing.             *)
LEMMA WorldOK == ASSUME IInv, Tick \/ MovePr \/ UNCHANGED vars PROVE GoodStep
  <1>1. StorageStep /\ UNCHANGED <<run, claims, call, refunded>>
    BY StorageUnmoved DEF Tick, MovePr, vars, runs
  <1>2. now' \in Nat /\ moves' \in Nat /\ pr' \in [head : Heads, route : Routes]
    BY DEF IInv, TypeOK, Tick, MovePr, vars, world
  <1>3. fresh' = fresh /\ spent' = spent
    BY DEF Tick, MovePr, vars, storage
  <1>4. TypeOK'
    BY <1>1, <1>2 DEF IInv, TypeOK, StorageStep, StorageInv, Record
  <1>5. CallInv' /\ GrantsAreSpent'
    BY <1>1, <1>3 DEF IInv, CallInv, SnapshotOK, OwnerOK, GrantsAreSpent
  <1> QED
    BY <1>1, <1>4, <1>5 DEF IInv, StorageStep, StorageInv, GoodStep

(* Every step of the system.                                               *)
LEMMA NextOK == ASSUME IInv, [Next]_vars PROVE GoodStep
  BY AttemptStepOK, ReporterStepOK, UpdaterStepOK, SharedStepOK, LandOK, WorldOK DEF Next

(* The ledger starts without a challenge, or with an old preparation.      *)
LEMMA InitOK == ASSUME Init PROVE IInv
  <1>1. ledger \in Record /\ Shape(ledger) /\ ledger.generation < fresh /\ fresh \in Nat
        /\ \A a \in Attempts : run[a] # "new" => ledger.receipt.claim \in ClaimType
        /\ run \in [Attempts -> {"new", "ended"}]
    <2>1. CASE ledger = Absent /\ fresh = 1 /\ run = [a \in Attempts |-> "new"]
      BY <2>1, AbsentShape DEF Record
    <2>2. CASE \E a \in Legacy, h \in Heads, f \in Fingerprints :
            /\ ledger = LegacyPreparation(a, h, f) /\ fresh = 2
            /\ run = [b \in Attempts |-> IF b = a THEN "ended" ELSE "new"]
      <3>1. PICK a \in Legacy, h \in Heads, f \in Fingerprints :
            /\ ledger = LegacyPreparation(a, h, f) /\ fresh = 2
            /\ run = [b \in Attempts |-> IF b = a THEN "ended" ELSE "new"]
        BY <2>2
      <3> DEFINE claim == [generation |-> 1, fingerprint |-> f, expires |-> Window, head |-> h]
      <3>2. claim \in ClaimType /\ a \in Attempts
        BY LegacyAssumption, WindowAssumption DEF ClaimType
      <3>3. Receipt(a, claim) \in ReceiptType /\ Receipt(a, claim).claim = claim
        BY <3>2 DEF Receipt, ReceiptType
      <3> DEFINE r == Receipt(a, claim)
      <3>4. ledger = [status |-> "prepared", revision |-> 1, generation |-> 1,
                      fingerprint |-> f, head |-> h, expires |-> Window,
                      receipt |-> r, claim |-> None, released |-> None, recovered |-> None]
        BY <3>1 DEF LegacyPreparation, Absent
      <3> HIDE DEF r, claim
      <3>5. r \in ReceiptType /\ r.claim \in ClaimType /\ r # None
        BY <3>2, <3>3, NoneAssumption DEF r
      <3>6. ledger \in LedgerType
        BY <3>4, <3>5, WindowAssumption DEF LedgerType, Statuses
      <3>7. ledger.status = "prepared" /\ ledger.receipt = r /\ ledger.generation = 1
        BY <3>4
      <3> QED
        BY <3>1, <3>5, <3>6, <3>7 DEF Record, Shape, Receipted
    <2> QED
      BY <2>1, <2>2 DEF Init
  <1>2. Idle \in CallType /\ SnapshotOK(Idle) /\ Idle.prior.generation = 0 /\ Idle.step = "idle"
    <2>1. Idle \in CallType /\ Idle.prior = Absent /\ Idle.step = "idle"
      BY DEF Idle, CallType, Steps, Ops
    <2> QED
      BY <2>1, AbsentShape DEF SnapshotOK, TargetSteps
  <1>3. claims \in [Attempts -> ClaimType \cup {None}]
    BY <1>1 DEF Init
  <1>4. TypeOK
    BY <1>1, <1>2, <1>3 DEF Init, TypeOK, Record, RunStates, Routes
  <1>5. ledger.generation \in Nat
    BY <1>1, RecordFields
  <1>6. LedgerInv /\ WireInv /\ SingleUse
    BY <1>1 DEF Init, LedgerInv, WireInv, SingleUse, SpentBelow
  <1>7. CallInv
    BY <1>1, <1>2, <1>5 DEF Init, CallInv, OwnerOK, Procs
  <1>8. GrantsAreSpent
    BY <1>1 DEF GrantsAreSpent
  <1> QED
    BY <1>4, <1>6, <1>7, <1>8 DEF IInv

(* The inductive invariant: every computed write is in order, and what was *)
(* spent is behind the ledger (beginChallenge to reconcileFailedAuthority- *)
(* Attempt, with every request of every caller interleaved).               *)
THEOREM Invariance == Spec => []IInv
  <1>1. Init => IInv
    BY InitOK
  <1>2. IInv /\ [Next]_vars => IInv'
    BY NextOK DEF GoodStep
  <1> QED
    BY <1>1, <1>2, PTL DEF Spec

(* Every variable keeps its shape: a write of the ledger is always one that*)
(* validState accepts on the next read.                                    *)
THEOREM TypeCorrect == Spec => []TypeOK
  <1>1. IInv => TypeOK
    BY DEF IInv
  <1> QED
    BY <1>1, Invariance, PTL

(* A consumed generation is never offered or reserved again.               *)
THEOREM NeverReissuedAlways == Spec => []NeverReissued
  <1>1. IInv => NeverReissued
    <2> SUFFICES ASSUME IInv, ledger.status \in {"available", "prepared"}, NEW s \in spent
                 PROVE  s.generation # ledger.generation
      BY DEF NeverReissued
    <2>1. s.generation \in Nat /\ ledger.generation \in Nat /\ s.generation < ledger.generation
      BY IdleOK, RecordFields DEF IInv, TypeOK, LedgerInv, SpentBelow
    <2> QED
      BY <2>1
  <1> QED
    BY <1>1, Invariance, PTL

(* No generation is consumed by two attempts.                              *)
THEOREM SingleUseAlways == Spec => []SingleUse
  <1>1. IInv => SingleUse
    BY DEF IInv
  <1> QED
    BY <1>1, Invariance, PTL

(* A worker runs only on a generation that its attempt has consumed.       *)
THEOREM GrantsAreSpentAlways == Spec => []GrantsAreSpent
  <1>1. IInv => GrantsAreSpent
    BY DEF IInv
  <1> QED
    BY <1>1, Invariance, PTL

(* The ledger implements the single-use authority: whatever the callers,   *)
(* the clock and the lost answers do, each step of AuthorityLedger is one  *)
(* of SingleUseAuthority or leaves it alone.                               *)
THEOREM Refinement == Spec => ImplementsSingleUse
  <1>1. Init => Authority!Init
    <2> SUFFICES ASSUME Init PROVE Authority!Init
      OBVIOUS
    <2>1. CASE ledger = Absent
      BY <2>1 DEF Init, Absent, Authority!Init, Phase, Holder
    <2>2. CASE \E a \in Legacy, h \in Heads, f \in Fingerprints :
                 ledger = LegacyPreparation(a, h, f)
      <3>1. PICK a \in Legacy, h \in Heads, f \in Fingerprints :
                 ledger = LegacyPreparation(a, h, f)
        BY <2>2
      <3> DEFINE r == Receipt(a, [generation |-> 1, fingerprint |-> f,
                                  expires |-> Window, head |-> h])
      <3>2. r.owner = a /\ a \in Attempts
        BY LegacyAssumption DEF Receipt
      <3>3. ledger.status = "prepared" /\ ledger.generation = 1 /\ ledger.receipt = r
        BY <3>1 DEF LegacyPreparation, Absent
      <3>4. IInv
        BY InitOK
      <3>5. r # None
        BY <3>3, <3>4 DEF IInv, LedgerInv, Shape, Receipted
      <3> QED
        BY <3>2, <3>3, <3>5 DEF Init, Authority!Init, Phase, Holder
    <2> QED
      BY <2>1, <2>2 DEF Init
  <1>2. IInv /\ [Next]_vars => [Authority!Next]_(Authority!vars)
    BY NextOK DEF GoodStep, Refines
  <1> QED
    BY <1>1, <1>2, Invariance, PTL DEF Spec, ImplementsSingleUse, Authority!Spec
=============================================================================
