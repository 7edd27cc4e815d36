----------------------- MODULE AuthorityRefundProofs -----------------------
(***************************************************************************)
(* What AuthorityLedger gives back, for every number of attempts,          *)
(* reporters, updaters, heads, lost answers and clock values: a release is *)
(* final, worked authority is never refunded, and every receipt is the one *)
(* of its owner's index.  Two arguments, over the same computed pairs of   *)
(* records as in AuthorityLedgerProofs:                                    *)
(*   - a receipt enters the ledger with an index behind it, and an index   *)
(*     is written once (Sound, Known);                                     *)
(*   - an attempt prepares once, so its preparation is still to come       *)
(*     (Pristine), in the ledger, or over for good (Over), and only the    *)
(*     last is compatible with a release (Trail).                          *)
(***************************************************************************)
EXTENDS AuthorityLedgerProofs

(* What a receipt is held against: the indexes, the runs and their claims. *)
Books == [index |-> index, run |-> run, claims |-> claims]

(* The receipt is the one of its owner's index.                            *)
Backed(b, r) == r \in ReceiptType /\ b.index[r.owner] = r

(* A preparation of the old format, which its index may still miss.        *)
Old(b, l) ==
    /\ l.status = "prepared" /\ l.claim = None /\ l.receipt \in ReceiptType
    /\ b.run[l.receipt.owner] = "ended" /\ b.index[l.receipt.owner] = None
    /\ b.claims[l.receipt.owner] = l.receipt.claim

(* A record is backed, and no receipt is held and refunded at once.        *)
Sound(b, l) ==
    /\ l.receipt # None =>
         l.released = None /\ l.recovered = None /\ (Backed(b, l.receipt) \/ Old(b, l))
    /\ l.released # None => Backed(b, l.released.receipt)
    /\ l.recovered # None =>
         Backed(b, l.recovered.receipt) /\ b.run[l.recovered.receipt.owner] = "ended"

(* The record reserves a generation for a; a has a part in it.             *)
Reserves(l, a) == l.status = "prepared" /\ l.receipt.owner = a
Names(l, a) == (l.receipt # None /\ l.receipt.owner = a) \/ Owns(a, l.released)

(* What becomes of a consumed or confirmed receipt while the head stays.   *)
SpentMoves(l, n) ==
    l.status \in {"consumed", "confirmed"} /\ n.head = l.head =>
        /\ l.status = "consumed"
        /\ \/ n.status = "confirmed" /\ n.receipt = l.receipt /\ n.generation = l.generation
           \/ /\ n.status = "available" /\ n.generation # l.generation
              /\ Owns(l.receipt.owner, n.recovered)

(* A write invents nobody: it reserves for one, or it passes on.           *)
Passes(l, n) ==
    /\ \A a \in Attempts :
         /\ Names(n, a) => Names(l, a) \/ Reserves(n, a)
         /\ Owns(a, n.released) => Owns(a, l.released) \/ Reserves(l, a)
    /\ SpentMoves(l, n)

(* The attempt has not asked for its reservation.                          *)
Waiting(a) == run[a] \in {"new", "queued"} \/ call[a].step \in {"preparing", "indexed"}
(* Its reservation may still land.                                         *)
Floating(a) == \E w \in wire : Reserves(w.next, a)
Pristine(a) == Waiting(a) \/ Floating(a)
Spender(a) == \E s \in spent : s.owner = a
(* It was reserved and not consumed, and cannot be consumed any more.      *)
Over(a) == ~Pristine(a) /\ ~Reserves(ledger, a) /\ ~Spender(a)
(* Its release is in the ledger, in what a call has read, or was reported. *)
Seen(a) ==
    \/ Owns(a, ledger.released) \/ a \in refunded
    \/ \E p \in Procs : Owns(a, call[p].prior.released)

(* One reservation of each attempt is ever on the wire.                    *)
Alone(a) == \A v, w \in wire : Reserves(v.next, a) /\ Reserves(w.next, a) => v = w
Trail(a) ==
    /\ Pristine(a) => ~Names(ledger, a) /\ ~Spender(a)
    /\ Waiting(a) => ~Floating(a)
    /\ Alone(a)
    /\ Reserves(ledger, a) => ~Spender(a)
    /\ Seen(a) => Over(a)

(* What call c of process p may rely on, by the step that will use it.     *)
Known(b, p, c) ==
    /\ p \in Attempts /\ c.step = "preparing" => c.claim = b.claims[p]
    /\ p \in Attempts /\ c.step = "releasing" => c.target = p
    /\ p \notin Attempts
       /\ (c.step = "releasing" \/ (c.step = "reread" /\ c.op = "releasing")) =>
         Backed(b, Receipt(c.target, c.claim))
    /\ c.step \in {"reread", "reopening", "reopen-checked"} =>
         c.target \in Attempts /\ b.run[c.target] = "ended"
    /\ c.step = "release-checked" =>
         Backed(b, c.prior.receipt) /\ c.prior.receipt.owner = c.target
    /\ c.step \in {"release-rejected", "release-lost"} => Owns(c.target, c.next.released)
    /\ c.step \in {"refresh-checked", "refresh-lost"} => Owns(c.target, c.prior.released)
    /\ c.step = "reopen-checked" => c.prior.receipt.owner = c.target
    /\ c.step \in {"legacy-indexed", "legacy-checked"} => Backed(b, c.prior.receipt)
KnownSteps == {"preparing", "releasing", "reread", "reopening", "reopen-checked", "release-checked",
               "release-rejected", "release-lost", "refresh-checked", "refresh-lost",
               "legacy-indexed", "legacy-checked"}

Sounds ==
    /\ Sound(Books, ledger)
    /\ \A p \in Procs : Sound(Books, call[p].prior)
    /\ \A w \in wire : Sound(Books, w.next)
WirePasses == \A w \in wire : Passes(w.prior, w.next)
AllKnown == \A p \in Procs : Known(Books, p, call[p])
(* A run makes its calls between its start and its end.                    *)
Alive == \A a \in Attempts : run[a] \in {"queued", "ended"} => call[a].step = "idle"
Trails == \A a \in Attempts : Trail(a)

RInv == Sounds /\ WirePasses /\ AllKnown /\ Alive /\ Trails

-----------------------------------------------------------------------------
(* The books grow                                                          *)

(* An index is written once, by the claim of its owner; a run that is over *)
(* stays over, and a run keeps the claim it was dispatched with.           *)
Grows(b, d) ==
    \A a \in Attempts :
        /\ b.run[a] # "new" => d.claims[a] = b.claims[a]
        /\ b.run[a] = "ended" => d.run[a] = "ended"
        /\ \/ d.index[a] = b.index[a]
           \/ b.index[a] = None /\ d.index[a] = Receipt(a, b.claims[a])

(* A backed receipt stays backed.                                          *)
LEMMA BackedStays == ASSUME NEW b, NEW d, Grows(b, d), NEW r, Backed(b, r) PROVE Backed(d, r)
  <1>1. r \in ReceiptType /\ r # None /\ r.owner \in Attempts
    BY NoneAssumption DEF Backed, ReceiptType
  <1> QED
    BY <1>1 DEF Grows, Backed

(* An old preparation stays one until its index is there.                  *)
LEMMA OldStays ==
    ASSUME NEW b, NEW d, Grows(b, d), NEW l, Old(b, l)
    PROVE  Old(d, l) \/ Backed(d, l.receipt)
  <1>1. l.receipt.owner \in Attempts /\ l.receipt = Receipt(l.receipt.owner, l.receipt.claim)
    BY DEF Old, ReceiptType, Receipt
  <1> QED
    BY <1>1 DEF Grows, Backed, Old

(* A sound record stays sound.                                             *)
LEMMA SoundStays == ASSUME NEW b, NEW d, Grows(b, d), NEW l, Sound(b, l) PROVE Sound(d, l)
  <1>1. l.recovered # None => d.run[l.recovered.receipt.owner] = "ended"
    BY DEF Sound, Backed, ReceiptType, Grows
  <1> QED
    BY <1>1, BackedStays, OldStays DEF Sound

(* What a call knows stays true.                                           *)
LEMMA KnownStays ==
    ASSUME NEW b, NEW d, Grows(b, d), NEW p, NEW c, Known(b, p, c),
           p \in Attempts /\ c.step = "preparing" => b.run[p] # "new"
    PROVE  Known(d, p, c)
  <1>1. p \in Attempts /\ c.step = "preparing" => c.claim = d.claims[p]
    BY DEF Known, Grows
  <1>2. c.step \in {"reread", "reopening", "reopen-checked"} => d.run[c.target] = "ended"
    BY DEF Known, Grows
  <1> QED
    BY <1>1, <1>2, BackedStays DEF Known

(* Most steps rely on nothing.                                             *)
LEMMA KnownOther == ASSUME NEW b, NEW p, NEW c, c.step \notin KnownSteps PROVE Known(b, p, c)
  BY DEF Known, KnownSteps

(* The missing ledger is sound.                                            *)
LEMMA AbsentSound == ASSUME NEW b PROVE Sound(b, Absent) /\ \A a : ~Owns(a, Absent.released)
  BY DEF Sound, Absent, Owns

-----------------------------------------------------------------------------
(* The records that writes put in place                                    *)

(* A challenge keeps the release of the same head.                         *)
LEMMA IssuedMoves ==
    ASSUME NEW b, NEW l \in Record, NEW y \in BoundaryType, NEW g, Sound(b, l),
           l.head = y.head => l.status = "available"
    PROVE  Sound(b, Issued(l, y, g)) /\ Passes(l, Issued(l, y, g))
  <1> DEFINE n == Issued(l, y, g)
  <1>1. /\ n.status = "available" /\ n.head = y.head
        /\ n.receipt = None /\ n.recovered = None
    BY DEF Issued
  <1>2. n.released # None => l.released # None /\ n.released.receipt = l.released.receipt
    <2>1. \A r \in ReleasedType : \A x : [r EXCEPT !.lineage = x].receipt = r.receipt
      BY DEF ReleasedType
    <2>2. l.released \in ReleasedType \cup {None}
      BY DEF Record, LedgerType, Absent
    <2> QED
      BY <2>1, <2>2 DEF Issued
  <1> HIDE DEF n
  <1>3. Sound(b, n)
    BY <1>1, <1>2 DEF Sound
  <1>4. Passes(l, n)
    BY <1>1, <1>2 DEF Passes, Names, Owns, SpentMoves
  <1> QED
    BY <1>3, <1>4 DEF n

(* A reservation is backed by the index of the attempt that makes it.      *)
LEMMA PreparedMoves ==
    ASSUME NEW b, NEW l \in LedgerType, l.status = "available", NEW r, Backed(b, r)
    PROVE  /\ Sound(b, Prepared(l, r)) /\ Passes(l, Prepared(l, r))
           /\ Prepared(l, r).receipt = r
  <1> DEFINE n == Prepared(l, r)
  <1>1. n.status = "prepared" /\ n.receipt = r /\ n.released = None /\ n.recovered = None
    BY DEF Prepared, LedgerType
  <1> HIDE DEF n
  <1>2. Sound(b, n)
    BY <1>1 DEF Sound
  <1>3. Passes(l, n)
    BY <1>1 DEF Passes, Names, Owns, Reserves, SpentMoves
  <1> QED
    BY <1>1, <1>2, <1>3 DEF n

(* A consumption keeps the receipt.                                        *)
LEMMA ConsumedMoves ==
    ASSUME NEW b, NEW l \in LedgerType, l.status = "prepared", Sound(b, l),
           Backed(b, l.receipt), NEW c
    PROVE  Sound(b, Consumed(l, c)) /\ Passes(l, Consumed(l, c))
  <1> DEFINE n == Consumed(l, c)
  <1>1. n.receipt = l.receipt /\ n.released = l.released /\ n.recovered = l.recovered
    BY DEF Consumed, LedgerType
  <1> HIDE DEF n
  <1>2. l.receipt # None
    BY NoneAssumption DEF Backed
  <1>3. Sound(b, n)
    BY <1>1, <1>2 DEF Sound
  <1>4. Passes(l, n)
    BY <1>1 DEF Passes, Names, Owns, SpentMoves
  <1> QED
    BY <1>3, <1>4 DEF n

(* So does a confirmation.                                                 *)
LEMMA ConfirmedMoves ==
    ASSUME NEW b, NEW l \in LedgerType, l.status = "consumed", Shape(l), Sound(b, l)
    PROVE  Sound(b, Confirmed(l)) /\ Passes(l, Confirmed(l))
  <1> DEFINE n == Confirmed(l)
  <1>1. /\ n.receipt = l.receipt /\ n.released = l.released /\ n.recovered = l.recovered
        /\ n.status = "confirmed" /\ n.generation = l.generation
    BY DEF Confirmed, LedgerType
  <1> HIDE DEF n
  <1>2. l.receipt # None /\ Backed(b, l.receipt)
    BY DEF Shape, Receipted, Sound, Old
  <1>3. Sound(b, n)
    BY <1>1, <1>2 DEF Sound
  <1>4. Passes(l, n)
    BY <1>1 DEF Passes, Names, Owns, SpentMoves
  <1> QED
    BY <1>3, <1>4 DEF n

(* What taking the receipt off and a new window leave alone.               *)
LEMMA FreedKeeps ==
    ASSUME NEW l \in LedgerType, NEW g, NEW t
    PROVE  /\ Freed(l).released = l.released /\ Freed(l).recovered = l.recovered
           /\ Freed(l).head = l.head
           /\ Renewed(l, g, t).released = l.released /\ Renewed(l, g, t).recovered = l.recovered
           /\ Renewed(l, g, t).head = l.head
  BY DEF Freed, Renewed, LedgerType

(* A release passes the receipt on as a refund.                            *)
LEMMA ReleasedMoves ==
    ASSUME NEW b, NEW l \in LedgerType, l.status = "prepared", Sound(b, l),
           Backed(b, l.receipt), NEW g \in Nat, NEW t \in Int
    PROVE  /\ Sound(b, Released(l, g, t)) /\ Passes(l, Released(l, g, t))
           /\ Owns(l.receipt.owner, Released(l, g, t).released)
  <1> DEFINE refund == [receipt |-> l.receipt, lineage |-> {l.generation}]
             free   == [Freed(l) EXCEPT !.released = refund]
             n      == Released(l, g, t)
  <1>1. l.receipt \in ReceiptType /\ l.receipt # None /\ l.recovered = None
    BY NoneAssumption DEF Backed, Sound
  <1>2. refund \in ReleasedType /\ refund.receipt = l.receipt
    BY <1>1 DEF ReleasedType, LedgerType
  <1>3. refund # None
    BY <1>2, NoneAssumption
  <1>4. /\ free \in LedgerType /\ free.released = refund /\ free.recovered = None
        /\ free.receipt = None /\ free.status = "available"
    <2> HIDE DEF refund
    <2>1. Freed(l) \in LedgerType /\ Freed(l).receipt = None /\ Freed(l).status = "available"
      BY FreedRenewed
    <2>2. Freed(l).recovered = None
      BY <1>1, FreedKeeps
    <2> QED
      BY <1>2, <2>1, <2>2 DEF LedgerType
  <1>5. n = IF Expired(l, t) THEN Renewed(free, g, t) ELSE free
    BY DEF Released
  <1> HIDE DEF free, n
  <1>6. /\ n.released = refund /\ n.recovered = None /\ n.receipt = None
        /\ n.status = "available"
    BY <1>4, <1>5, FreedRenewed, FreedKeeps
  <1> HIDE DEF refund
  <1>7. Sound(b, n)
    BY <1>2, <1>6 DEF Sound
  <1>8. Passes(l, n) /\ Owns(l.receipt.owner, n.released)
    BY <1>1, <1>2, <1>3, <1>6 DEF Passes, Names, Owns, Reserves, SpentMoves
  <1> QED
    BY <1>7, <1>8 DEF n

(* A refresh of a release passes the refund on.                            *)
LEMMA ReleasedRefreshedMoves ==
    ASSUME NEW b, NEW l \in LedgerType, l.status = "available", Shape(l), Sound(b, l),
           l.released # None, NEW g \in Nat, NEW t \in Int
    PROVE  /\ Sound(b, ReleasedRefreshed(l, g, t)) /\ Passes(l, ReleasedRefreshed(l, g, t))
           /\ ReleasedRefreshed(l, g, t).released # None
           /\ ReleasedRefreshed(l, g, t).released.receipt = l.released.receipt
  <1> DEFINE refund == [l.released EXCEPT !.lineage = Lineage(l.released, l)]
             open   == Renewed(l, g, t)
             n      == [open EXCEPT !.released = refund, !.revision = open.revision + 1]
  <1>1. l.released \in ReleasedType
    BY DEF LedgerType
  <1>2. refund.receipt = l.released.receipt
    BY <1>1 DEF ReleasedType
  <1>3. refund # None
    <2>1. Lineage(l.released, l) \in SUBSET Nat
      BY <1>1 DEF Lineage, LedgerType, ReleasedType, ReceiptType, ClaimType
    <2>2. refund \in ReleasedType
      BY <1>1, <2>1 DEF ReleasedType
    <2> QED
      BY <2>2, NoneAssumption
  <1>4. n = ReleasedRefreshed(l, g, t)
    BY DEF ReleasedRefreshed
  <1>5. /\ open \in LedgerType /\ open.receipt = None /\ open.recovered = l.recovered
    BY FreedRenewed, FreedKeeps DEF Shape, Receipted
  <1> HIDE DEF open, refund
  <1>6. n.receipt = None /\ n.released = refund /\ n.recovered = l.recovered
    BY <1>5 DEF LedgerType
  <1> HIDE DEF n
  <1>7. Sound(b, n)
    BY <1>2, <1>6 DEF Sound
  <1>8. Passes(l, n)
    BY <1>2, <1>3, <1>6 DEF Passes, Names, Owns, SpentMoves
  <1> QED
    BY <1>2, <1>3, <1>4, <1>6, <1>7, <1>8

(* A reopening refunds a receipt whose run is over.                        *)
LEMMA ReopenedMoves ==
    ASSUME NEW b, NEW l \in LedgerType, l.status = "consumed", Shape(l), Sound(b, l),
           b.run[l.receipt.owner] = "ended", NEW g \in Nat, NEW t \in Int, l.generation < g
    PROVE  Sound(b, Reopened(l, g, t)) /\ Passes(l, Reopened(l, g, t))
  <1> DEFINE refund == [receipt |-> l.receipt, lineage |-> {l.generation}]
             open   == Renewed(Freed(l), g, t)
             n      == [open EXCEPT !.recovered = refund]
  <1>1. Backed(b, l.receipt) /\ l.released = None /\ l.receipt \in ReceiptType
    BY DEF Shape, Receipted, Sound, Old, Backed
  <1>2. refund \in RecoveredType /\ refund.receipt = l.receipt
    BY <1>1 DEF RecoveredType, LedgerType
  <1>3. refund # None
    BY <1>2, NoneAssumption
  <1>4. n = Reopened(l, g, t)
    BY DEF Reopened
  <1>5. /\ open \in LedgerType /\ open.receipt = None /\ open.released = None
        /\ open.status = "available" /\ open.generation = g
    BY <1>1, FreedRenewed, FreedKeeps
  <1> HIDE DEF open, refund
  <1>6. /\ n.receipt = None /\ n.released = None /\ n.recovered = refund
        /\ n.status = "available" /\ n.generation = g
    BY <1>5 DEF LedgerType
  <1> HIDE DEF n
  <1>7. Sound(b, n)
    BY <1>1, <1>2, <1>6 DEF Sound
  <1>8. g # l.generation
    BY DEF LedgerType
  <1>9. Passes(l, n)
    BY <1>2, <1>3, <1>6, <1>8 DEF Passes, Names, Owns, SpentMoves
  <1> QED
    BY <1>4, <1>7, <1>9

(* A refresh of a reopening passes the refund on.                          *)
LEMMA RecoveredRefreshedMoves ==
    ASSUME NEW b, NEW l \in LedgerType, l.status = "available", Shape(l), Sound(b, l),
           l.recovered # None, NEW g \in Nat, NEW t \in Int
    PROVE  Sound(b, RecoveredRefreshed(l, g, t)) /\ Passes(l, RecoveredRefreshed(l, g, t))
  <1> DEFINE refund == [l.recovered EXCEPT !.lineage = NextRecoveredLineage(l)]
             open   == Renewed(l, g, t)
             n      == [open EXCEPT !.recovered = refund, !.revision = open.revision + 1]
  <1>1. l.recovered \in RecoveredType
    BY DEF LedgerType
  <1>2. refund.receipt = l.recovered.receipt
    BY <1>1 DEF RecoveredType
  <1>3. n = RecoveredRefreshed(l, g, t)
    BY DEF RecoveredRefreshed
  <1>4. open \in LedgerType /\ open.receipt = None /\ open.released = l.released
    BY FreedRenewed, FreedKeeps DEF Shape, Receipted
  <1> HIDE DEF open, refund
  <1>5. n.receipt = None /\ n.released = l.released /\ n.recovered = refund
    BY <1>4 DEF LedgerType
  <1> HIDE DEF n
  <1>6. Sound(b, n)
    BY <1>2, <1>5 DEF Sound
  <1>7. Passes(l, n)
    BY <1>5 DEF Passes, Names, Owns, SpentMoves
  <1> QED
    BY <1>3, <1>6, <1>7

-----------------------------------------------------------------------------
(* What a step owes                                                        *)

(* Besides its write: the books grow, nobody starts to wait, calls read    *)
(* the ledger that is there, and only seen releases are reported.          *)
Orderly ==
    /\ Grows(Books, Books')
    /\ \A a \in Attempts : Waiting(a)' => Waiting(a)
    /\ \A p \in Procs : call'[p].prior \in {call[p].prior, ledger, Absent}
    /\ \A a \in Attempts : a \in refunded' => Seen(a) \/ Owns(a, ledger'.released)
    /\ AllKnown' /\ Alive'

(* What a step may do to the wire.                                         *)
WireKept(a) ==
    /\ Pristine(a)' => Pristine(a)
    /\ Waiting(a)' => ~Floating(a)'
    /\ Alone(a)'

(* A release is not seen before it is in the ledger.                       *)
LEMMA SeenFrom ==
    ASSUME Orderly, NEW a \in Attempts, Seen(a)'
    PROVE  Seen(a) \/ Owns(a, ledger'.released)
  <1>1. CASE \E p \in Procs : Owns(a, call'[p].prior.released)
    <2>1. PICK p \in Procs : Owns(a, call'[p].prior.released)
      BY <1>1
    <2>2. call'[p].prior \in {call[p].prior, ledger, Absent}
      BY DEF Orderly
    <2>3. CASE call'[p].prior = Absent
      BY <2>1, <2>3, AbsentSound
    <2>4. CASE call'[p].prior \in {call[p].prior, ledger}
      BY <2>1, <2>4 DEF Seen
    <2> QED
      BY <2>2, <2>3, <2>4
  <1>2. CASE a \in refunded'
    BY <1>2 DEF Orderly
  <1>3. CASE Owns(a, ledger'.released)
    BY <1>3
  <1> QED
    BY <1>1, <1>2, <1>3 DEF Seen, Owns

(* A step that leaves the ledger alone leaves the trail of an attempt.     *)
LEMMA QuietTrail ==
    ASSUME RInv, Orderly, NEW a \in Attempts, UNCHANGED <<ledger, spent>>, WireKept(a)
    PROVE  Trail(a)'
  <1>1. Trail(a)
    BY DEF RInv, Trails
  <1>2. /\ Names(ledger, a)' <=> Names(ledger, a)
        /\ Reserves(ledger, a)' <=> Reserves(ledger, a)
        /\ Spender(a)' <=> Spender(a)
    BY DEF Names, Reserves, Owns, Spender
  <1>3. Seen(a)' => Seen(a)
    BY SeenFrom DEF Seen
  <1> QED
    BY <1>1, <1>2, <1>3 DEF Trail, WireKept, Over

(* So does one that puts a good record in the place of the ledger.         *)
LEMMA CommitTrail ==
    ASSUME IInv, RInv, Orderly, NEW a \in Attempts, NEW n, Commit(n), WriteOK(ledger, n),
           Passes(ledger, n), Sound(Books', n), WireKept(a),
           Reserves(n, a) => Pristine(a) /\ ~Pristine(a)'
    PROVE  Trail(a)'
  <1>1. Trail(a) /\ Shape(ledger) /\ Shape(n) /\ ledger' = n
    BY DEF RInv, Trails, IInv, LedgerInv, WriteOK, Commit
  <1>2. /\ Names(ledger, a)' <=> Names(n, a)
        /\ Reserves(ledger, a)' <=> Reserves(n, a)
    BY <1>1 DEF Names, Reserves, Owns
  <1>3. Reserves(ledger, a) => Names(ledger, a)
    BY <1>1 DEF Reserves, Names, Shape, Receipted
  <1>4. Spender(a)' => \/ Spender(a)
                       \/ Names(n, a) /\ Reserves(ledger, a) /\ n.status = "consumed"
    <2>1. CASE n.status = "consumed"
      <3>1. n.receipt # None /\ n.receipt = ledger.receipt /\ ledger.status = "prepared"
        BY <1>1, <2>1 DEF WriteOK, Shape, Receipted
      <3>2. \A s \in spent' : s \in spent \/ s.owner = n.receipt.owner
        BY <2>1 DEF Commit
      <3> QED
        BY <2>1, <3>1, <3>2 DEF Spender, Names, Reserves
    <2>2. CASE n.status # "consumed"
      BY <2>2 DEF Commit, Spender
    <2> QED
      BY <2>1, <2>2
  <1>5. ASSUME Pristine(a)' PROVE ~Names(n, a) /\ ~Spender(a)'
    <2>1. Pristine(a) /\ ~Reserves(n, a)
      BY <1>5 DEF WireKept
    <2>2. ~Names(ledger, a) /\ ~Spender(a)
      BY <1>1, <2>1 DEF Trail
    <2> QED
      BY <1>3, <1>4, <2>1, <2>2 DEF Passes
  <1>6. ASSUME Reserves(n, a) PROVE ~Spender(a)'
    <2>1. ~Spender(a) /\ ~Names(ledger, a)
      BY <1>1, <1>6 DEF Trail
    <2> QED
      BY <1>3, <1>4, <2>1
  <1>7. ASSUME Seen(a)' PROVE Over(a)'
    <2>1. CASE Seen(a)
      <3>1. ~Pristine(a) /\ ~Reserves(ledger, a) /\ ~Spender(a)
        BY <1>1, <2>1 DEF Trail, Over
      <3> QED
        BY <1>2, <1>4, <3>1 DEF Over, WireKept
    <2>2. CASE ~Seen(a)
      <3>1. Owns(a, n.released)
        BY <1>1, <1>7, <2>2, SeenFrom
      <3>2. Reserves(ledger, a)
        BY <2>2, <3>1 DEF Passes, Seen
      <3>3. ~Pristine(a) /\ ~Spender(a)
        BY <1>1, <1>3, <3>2 DEF Trail
      <3>4. n.receipt = None
        BY <3>1 DEF Sound, Owns
      <3>5. n.status \notin Receipted
        BY <1>1, <3>4 DEF Shape
      <3> QED
        BY <1>2, <1>4, <3>3, <3>5 DEF Over, WireKept, Receipted, Reserves
    <2> QED
      BY <2>1, <2>2
  <1> QED
    BY <1>1, <1>2, <1>5, <1>6, <1>7 DEF Trail, WireKept

(* Records that were sound stay so, wherever a call reads them.            *)
LEMMA SoundsKept ==
    ASSUME RInv, Orderly, Sound(Books', ledger'),
           \A w \in wire' : w \in wire \/ Sound(Books', w.next)
    PROVE  Sounds'
  <1>1. ASSUME NEW p \in Procs PROVE Sound(Books', call'[p].prior)
    <2>1. call'[p].prior \in {call[p].prior, ledger, Absent}
      BY DEF Orderly
    <2>2. Sound(Books', call[p].prior) /\ Sound(Books', ledger) /\ Sound(Books', Absent)
      BY SoundStays, AbsentSound DEF RInv, Sounds, Orderly
    <2> QED
      BY <2>1, <2>2
  <1>2. ASSUME NEW w \in wire' PROVE Sound(Books', w.next)
    BY SoundStays DEF RInv, Sounds, Orderly
  <1> QED
    BY <1>1, <1>2 DEF Sounds

(* What a step keeps, and what it makes of a spent receipt.                *)
GoodMove == RInv' /\ (ledger' # ledger => SpentMoves(ledger, ledger'))

(* A step that writes nothing.                                             *)
LEMMA QuietStep ==
    ASSUME RInv, Orderly, UNCHANGED <<ledger, spent, wire>>
    PROVE  GoodMove
  <1>1. Sounds'
    <2>1. Sound(Books', ledger')
      BY SoundStays DEF RInv, Sounds, Orderly
    <2> QED
      BY <2>1, SoundsKept
  <1>2. WirePasses'
    BY DEF RInv, WirePasses
  <1>3. ASSUME NEW a \in Attempts PROVE Trail(a)'
    <2>1. WireKept(a)
      <3>1. Floating(a)' <=> Floating(a)
        BY DEF Floating
      <3>2. Alone(a)' <=> Alone(a)
        BY DEF Alone
      <3> QED
        BY <3>1, <3>2 DEF WireKept, RInv, Trails, Trail, Pristine, Orderly
    <2> QED
      BY <2>1, QuietTrail
  <1> QED
    BY <1>1, <1>2, <1>3 DEF RInv, Trails, Orderly, GoodMove

(* One conditional PUT of a good record, whatever its outcome.             *)
LEMMA PutStep ==
    ASSUME IInv, RInv, Orderly, NEW p \in Procs, NEW n, WriteOK(call[p].prior, n),
           Passes(call[p].prior, n), Sound(Books', n),
           n.status = "prepared" => Waiting(n.receipt.owner) /\ ~Waiting(n.receipt.owner)',
           Accepted(p, n) \/ Rejected \/ Unanswered(p, n)
    PROVE  GoodMove
  <1>1. CASE Rejected
    BY <1>1, QuietStep DEF Rejected
  <1>2. CASE Accepted(p, n)
    <2>1. Commit(n) /\ ledger = call[p].prior /\ wire' = wire /\ ledger' = n
      BY <1>2 DEF Accepted, Commit
    <2>2. Sounds'
      BY <2>1, SoundsKept
    <2>3. WirePasses'
      BY <2>1 DEF RInv, WirePasses
    <2>4. ASSUME NEW a \in Attempts PROVE Trail(a)'
      <3>1. Floating(a)' <=> Floating(a)
        BY <2>1 DEF Floating
      <3>2. Alone(a)' <=> Alone(a)
        BY <2>1 DEF Alone
      <3>3. WireKept(a)
        BY <3>1, <3>2 DEF WireKept, RInv, Trails, Trail, Pristine, Orderly
      <3>4. Reserves(n, a) => Pristine(a) /\ ~Pristine(a)'
        BY <3>1 DEF Reserves, Pristine, RInv, Trails, Trail
      <3> QED
        BY <2>1, <3>3, <3>4, CommitTrail
    <2> QED
      BY <2>1, <2>2, <2>3, <2>4 DEF RInv, Trails, Orderly, GoodMove, Passes
  <1>3. CASE Unanswered(p, n)
    <2> DEFINE u == [prior |-> call[p].prior, next |-> n]
    <2>1. wire' = wire \cup {u} /\ UNCHANGED <<ledger, spent>> /\ u.prior = call[p].prior /\ u.next = n
      BY <1>3 DEF Unanswered
    <2> HIDE DEF u
    <2>2. Sounds'
      <3>1. Sound(Books', ledger')
        BY <2>1, SoundStays DEF RInv, Sounds, Orderly
      <3> QED
        BY <2>1, <3>1, SoundsKept
    <2>3. WirePasses'
      BY <2>1 DEF RInv, WirePasses
    <2>4. ASSUME NEW a \in Attempts PROVE Trail(a)'
      <3>1. Trail(a)
        BY DEF RInv, Trails
      <3>2. Floating(a)' <=> Floating(a) \/ Reserves(n, a)
        BY <2>1 DEF Floating
      <3>3. Reserves(n, a) => Waiting(a) /\ ~Waiting(a)' /\ ~Floating(a)
        BY <3>1 DEF Reserves, Trail
      <3>4. Alone(a)'
        BY <2>1, <3>1, <3>3 DEF Alone, Trail, Floating
      <3>5. WireKept(a)
        BY <3>1, <3>2, <3>3, <3>4 DEF WireKept, Trail, Pristine, Orderly
      <3> QED
        BY <2>1, <3>5, QuietTrail
    <2> QED
      BY <2>1, <2>2, <2>3, <2>4 DEF RInv, Trails, Orderly, GoodMove, Passes
  <1> QED
    BY <1>1, <1>2, <1>3

(* A write without an answer takes effect.                                 *)
LEMMA LandStep ==
    ASSUME IInv, RInv, Orderly, NEW w \in wire, ledger = w.prior, Commit(w.next),
           wire' = wire \ {w}
    PROVE  GoodMove
  <1>1. /\ WriteOK(ledger, w.next) /\ Passes(ledger, w.next) /\ ledger' = w.next
    BY DEF IInv, WireInv, RInv, WirePasses, Commit
  <1>2. Sound(Books', w.next)
    BY SoundStays DEF RInv, Sounds, Orderly
  <1>3. Sounds'
    BY <1>1, <1>2, SoundsKept
  <1>4. WirePasses'
    BY DEF RInv, WirePasses
  <1>5. ASSUME NEW a \in Attempts PROVE Trail(a)'
    <2>1. Trail(a) /\ (Floating(a)' => Floating(a))
      BY DEF RInv, Trails, Floating
    <2>2. Alone(a)'
      BY <2>1 DEF Trail, Alone
    <2>3. WireKept(a)
      BY <2>1, <2>2 DEF WireKept, Trail, Pristine, Orderly
    <2>4. Reserves(w.next, a) => Floating(a) /\ ~Floating(a)'
      BY <2>1 DEF Floating, Trail, Alone
    <2>5. Reserves(w.next, a) => Pristine(a) /\ ~Pristine(a)'
      BY <2>1, <2>4 DEF Pristine, Trail, Orderly
    <2> QED
      BY <1>1, <1>2, <2>3, <2>5, CommitTrail
  <1> QED
    BY <1>1, <1>3, <1>4, <1>5 DEF RInv, Trails, Orderly, GoodMove, Passes

-----------------------------------------------------------------------------
(* Calls move on                                                           *)

(* The books do not move with a call.                                      *)
LEMMA BooksSame == ASSUME UNCHANGED <<run, claims, index>> PROVE Books' = Books /\ Grows(Books, Books')
  <1>1. Books' = Books
    BY DEF Books
  <1>2. Grows(Books, Books)
    BY DEF Grows
  <1> QED
    BY <1>1, <1>2

(* The run of an attempt goes on.                                          *)
LEMMA RunGrows ==
    ASSUME IInv, NEW a \in Attempts, run[a] # "ended", NEW x, run' = [run EXCEPT ![a] = x],
           UNCHANGED <<claims, index>>
    PROVE  Grows(Books, Books')
  <1>1. \A b \in Attempts : b # a => run'[b] = run[b]
    BY DEF IInv, TypeOK
  <1> QED
    BY <1>1 DEF Grows, Books

(* What a call knows survives the steps of others.                         *)
LEMMA KnownKept ==
    ASSUME IInv, RInv, Grows(Books, Books'), NEW q \in Procs
    PROVE  Known(Books', q, call[q])
  <1>1. q \in Attempts /\ call[q].step = "preparing" => run[q] # "new"
    BY IdleOK DEF IInv, CallInv, OwnerOK
  <1>2. Books.run = run
    BY DEF Books
  <1> QED
    BY <1>1, <1>2, KnownStays DEF RInv, AllKnown

(* One call moves, and with it the run of the attempt that makes it.       *)
LEMMA CallOrderly ==
    ASSUME IInv, RInv, NEW p \in Procs, NEW c, call' = [call EXCEPT ![p] = c],
           Grows(Books, Books'), Known(Books', p, c), c.prior \in {call[p].prior, ledger, Absent},
           p \in Attempts /\ c.step \in {"preparing", "indexed"} => Waiting(p),
           \A a \in Attempts \ {p} : run'[a] = run[a],
           p \in Attempts =>
             /\ run'[p] \in {"new", "queued"} => run[p] \in {"new", "queued"}
             /\ run'[p] \in {"queued", "ended"} => c.step = "idle",
           \A a \in Attempts : a \in refunded' => Seen(a) \/ Owns(a, ledger'.released)
    PROVE  Orderly
  <1>1. call'[p] = c /\ \A q \in Procs : q # p => call'[q] = call[q]
    BY DEF IInv, TypeOK
  <1>2. \A a \in Attempts : Waiting(a)' => Waiting(a)
    <2> SUFFICES ASSUME NEW a \in Attempts, Waiting(a)' PROVE Waiting(a)
      OBVIOUS
    <2>1. a \in Procs
      BY DEF Procs
    <2>2. CASE a = p
      BY <1>1, <2>1, <2>2 DEF Waiting
    <2>3. CASE a # p
      BY <1>1, <2>1, <2>3 DEF Waiting
    <2> QED
      BY <2>2, <2>3
  <1>3. AllKnown'
    BY <1>1, KnownKept DEF AllKnown
  <1>4. Alive'
    <2> SUFFICES ASSUME NEW a \in Attempts, run'[a] \in {"queued", "ended"}
                 PROVE  call'[a].step = "idle"
      BY DEF Alive
    <2>1. a \in Procs
      BY DEF Procs
    <2>2. CASE a = p
      BY <1>1, <2>2
    <2>3. CASE a # p
      BY <1>1, <2>1, <2>3 DEF RInv, Alive
    <2> QED
      BY <2>2, <2>3
  <1>5. \A q \in Procs : call'[q].prior \in {call[q].prior, ledger, Absent}
    BY <1>1
  <1> QED
    BY <1>2, <1>3, <1>4, <1>5 DEF Orderly

(* One call moves inside it, and no run does.                              *)
LEMMA InnerOrderly ==
    ASSUME IInv, RInv, NEW p \in Procs, NEW c, call' = [call EXCEPT ![p] = c],
           ~At(p, "idle") \/ p \notin Attempts, UNCHANGED runs, Grows(Books, Books'),
           Known(Books', p, c), c.prior \in {call[p].prior, ledger, Absent},
           c.step \in {"preparing", "indexed"} => Waiting(p),
           \A a \in Attempts : a \in refunded' => Seen(a) \/ Owns(a, ledger'.released)
    PROVE  Orderly
  <1>1. run' = run /\ (p \in Attempts => run[p] \notin {"queued", "ended"})
    BY DEF runs, RInv, Alive, At
  <1> QED
    BY <1>1, CallOrderly

(* Reported before means seen.                                             *)
LEMMA SeenSame ==
    ASSUME UNCHANGED refunded
    PROVE  \A a \in Attempts : a \in refunded' => Seen(a) \/ Owns(a, ledger'.released)
  BY DEF Seen

(* The end of a call.                                                      *)
LEMMA DoneOrderly ==
    ASSUME IInv, RInv, NEW p \in Procs, Done(p), ~At(p, "idle"), UNCHANGED <<runs, index, refunded>>
    PROVE  Orderly
  <1>1. Idle.step = "idle" /\ Idle.prior = Absent
    BY DEF Idle
  <1>2. Known(Books', p, Idle)
    BY <1>1, KnownOther DEF KnownSteps
  <1>3. Grows(Books, Books')
    BY BooksSame DEF runs
  <1> QED
    BY <1>1, <1>2, <1>3, SeenSame, InnerOrderly DEF Done

(* The fields of a call that changes its step, or that settles a write.    *)
LEMMA GotoFields ==
    ASSUME IInv, NEW p \in Procs, NEW s, Goto(p, s)
    PROVE  \E c : /\ call' = [call EXCEPT ![p] = c] /\ c.step = s
                  /\ c.prior = call[p].prior /\ c.claim = call[p].claim
                  /\ c.target = call[p].target /\ c.op = call[p].op
  <1> DEFINE c == [call[p] EXCEPT !.step = s]
  <1>1. call \in [Procs -> CallType]
    BY DEF IInv, TypeOK
  <1>2. /\ c.step = s /\ c.prior = call[p].prior /\ c.claim = call[p].claim
        /\ c.target = call[p].target /\ c.op = call[p].op
    BY <1>1 DEF CallType
  <1>3. call' = [call EXCEPT ![p] = c]
    BY <1>1 DEF Goto
  <1> HIDE DEF c
  <1> QED
    BY <1>2, <1>3

(* The same with the record that was sent.                                 *)
LEMMA SettleFields ==
    ASSUME IInv, NEW p \in Procs, NEW s, NEW n, Settle(p, s, n)
    PROVE  \E c : /\ call' = [call EXCEPT ![p] = c] /\ c.step = s /\ c.next = n
                  /\ c.prior = call[p].prior /\ c.target = call[p].target
  <1> DEFINE c == [call[p] EXCEPT !.step = s, !.next = n]
  <1>1. call \in [Procs -> CallType]
    BY DEF IInv, TypeOK
  <1>2. c.step = s /\ c.next = n /\ c.prior = call[p].prior /\ c.target = call[p].target
    BY <1>1 DEF CallType
  <1>3. call' = [call EXCEPT ![p] = c]
    BY <1>1 DEF Settle
  <1> HIDE DEF c
  <1> QED
    BY <1>2, <1>3

(* A call goes on to a step that relies on nothing new.                    *)
LEMMA GotoOrderly ==
    ASSUME IInv, RInv, NEW p \in Procs, NEW s, Goto(p, s), ~At(p, "idle"),
           UNCHANGED <<runs, index, refunded>>,
           s \notin KnownSteps \cup {"indexed"}
    PROVE  Orderly
  <1>1. PICK c : call' = [call EXCEPT ![p] = c] /\ c.step = s /\ c.prior = call[p].prior
    BY GotoFields
  <1>2. Known(Books', p, c)
    BY <1>1, KnownOther
  <1>3. Grows(Books, Books')
    BY BooksSame DEF runs
  <1>4. c.step \notin {"preparing", "indexed"}
    BY <1>1 DEF KnownSteps
  <1> QED
    BY <1>1, <1>2, <1>3, <1>4, SeenSame, InnerOrderly

(* Another round of beginChallenge, or its end.                            *)
LEMMA ContinueOrderly ==
    ASSUME IInv, RInv, NEW p \in Procs, Continue(p), ~At(p, "idle"),
           UNCHANGED <<runs, index, refunded>>
    PROVE  Orderly
  <1>1. PICK c : /\ call' = [call EXCEPT ![p] = c]
                 /\ c.step \in {"idle", "beginning"} /\ c.prior \in {ledger, Absent}
    <2> DEFINE k == call[p]
               d == [Idle EXCEPT !.step = "beginning", !.prior = ledger, !.at = k.at,
                                 !.boundary = k.boundary, !.tries = k.tries + 1]
    <2>1. d.step = "beginning" /\ d.prior = ledger /\ Idle.step = "idle" /\ Idle.prior = Absent
      BY DEF Idle
    <2>2. call' = [call EXCEPT ![p] = d] \/ call' = [call EXCEPT ![p] = Idle]
      BY DEF Continue
    <2> HIDE DEF d
    <2> QED
      BY <2>1, <2>2
  <1>2. Known(Books', p, c)
    BY <1>1, KnownOther DEF KnownSteps
  <1>3. Grows(Books, Books')
    BY BooksSame DEF runs
  <1> QED
    BY <1>1, <1>2, <1>3, SeenSame, InnerOrderly

(* A release is reported that is in the ledger, or that was seen.          *)
LEMMA ReportOrderly ==
    ASSUME IInv, RInv, NEW p \in Procs, ReportReleased(p), ~At(p, "idle"),
           UNCHANGED <<runs, index>>,
           Seen(call[p].target) \/ Owns(call[p].target, ledger'.released)
    PROVE  Orderly
  <1>1. \A a \in Attempts : a \in refunded' => Seen(a) \/ Owns(a, ledger'.released)
    BY DEF ReportReleased, Seen
  <1>2. PICK c : /\ call' = [call EXCEPT ![p] = c] /\ c.step \in {"idle", "reaped"}
                 /\ c.prior \in {call[p].prior, Absent}
    <2>1. CASE Goto(p, "reaped")
      BY <2>1, GotoFields
    <2>2. CASE Done(p)
      <3>1. Idle.step = "idle" /\ Idle.prior = Absent
        BY DEF Idle
      <3> QED
        BY <2>2, <3>1 DEF Done
    <2> QED
      BY <2>1, <2>2 DEF ReportReleased
  <1>3. Known(Books', p, c)
    BY <1>2, KnownOther DEF KnownSteps
  <1>4. Grows(Books, Books')
    BY BooksSame DEF runs
  <1> QED
    BY <1>1, <1>2, <1>3, <1>4, InnerOrderly

(* The fields of a call that has just read the ledger.                     *)
LEMMA EnterFields ==
    ASSUME NEW p, NEW s, NEW a, NEW claim, NEW t, Enter(p, s, a, claim, t)
    PROVE  \E c : /\ call' = [call EXCEPT ![p] = c] /\ c.step = s /\ c.prior = ledger
                  /\ c.claim = claim /\ c.target = a
  <1> DEFINE c == [Idle EXCEPT !.step = s, !.target = a, !.claim = claim,
                               !.at = t, !.prior = ledger]
  <1>1. c.step = s /\ c.prior = ledger /\ c.claim = claim /\ c.target = a
    BY DEF Idle
  <1>2. call' = [call EXCEPT ![p] = c]
    BY DEF Enter
  <1> HIDE DEF c
  <1> QED
    BY <1>1, <1>2

-----------------------------------------------------------------------------
(* The steps of an attempt                                                 *)

(* A call that starts with a move of the run.                              *)
LEMMA RunAndCall ==
    ASSUME IInv, RInv, NEW a \in Attempts, NEW s \in {"preparing", "finalizing", "releasing"},
           NEW t, NEW x \in {"refused", "failed"}, Enter(a, s, a, claims[a], t),
           run' = [run EXCEPT ![a] = x], run[a] # "ended", s = "preparing" => run[a] = "queued",
           UNCHANGED <<storage, claims, refunded>>
    PROVE  GoodMove
  <1>1. a \in Procs
    BY DEF Procs
  <1>2. PICK c : /\ call' = [call EXCEPT ![a] = c] /\ c.step = s /\ c.prior = ledger
                 /\ c.claim = claims[a] /\ c.target = a
    BY EnterFields
  <1>3. Grows(Books, Books')
    BY RunGrows DEF storage
  <1>4. Known(Books', a, c)
    BY <1>2 DEF Known, Books
  <1>5. /\ run'[a] = x /\ \A b \in Attempts \ {a} : run'[b] = run[b]
        /\ s = "preparing" => Waiting(a)
    BY DEF IInv, TypeOK, Waiting
  <1>6. Orderly
    BY <1>1, <1>2, <1>3, <1>4, <1>5, SeenSame, CallOrderly
  <1> QED
    BY <1>6, QuietStep DEF storage

(* The three functions an attempt enters of its own.                       *)
LEMMA StartsKeep ==
    ASSUME IInv, RInv, NEW a \in Attempts, StartPrepare(a) \/ StartFinalize(a) \/ StartRelease(a)
    PROVE  GoodMove
  <1>1. CASE StartPrepare(a)
    BY <1>1, RunAndCall DEF StartPrepare
  <1>2. CASE StartFinalize(a)
    BY <1>2, RunAndCall DEF StartFinalize
  <1>3. CASE StartRelease(a)
    BY <1>3, RunAndCall DEF StartRelease
  <1> QED
    BY <1>1, <1>2, <1>3

(* A run moves without a call, or by its end.                              *)
LEMMA RunsKeep ==
    ASSUME IInv, RInv, NEW a \in Attempts,
           \/ Dispatch(a) \/ \E b \in Attempts : Rerun(a, b)
           \/ FinalizeGrant(a) \/ StartWorker(a) \/ EndRun(a)
    PROVE  GoodMove
  <1>1. /\ UNCHANGED <<storage, refunded>> /\ a \in Procs
        /\ call \in [Procs -> CallType] /\ run \in [Attempts -> RunStates]
    BY DEF Dispatch, Rerun, FinalizeGrant, StartWorker, EndRun, Procs, IInv, TypeOK
  <1>2. CASE Dispatch(a) \/ \E b \in Attempts : Rerun(a, b)
    <2>1. run[a] = "new" /\ run' = [run EXCEPT ![a] = "queued"] /\ UNCHANGED call
      BY <1>2 DEF Dispatch, Rerun
    <2>2. \E x : claims' = [claims EXCEPT ![a] = x]
      BY <1>2 DEF Dispatch, Rerun
    <2>3. \A b \in Attempts : b # a => claims'[b] = claims[b] /\ run'[b] = run[b]
      BY <2>1, <2>2 DEF IInv, TypeOK
    <2>4. Grows(Books, Books')
      BY <1>1, <2>1, <2>3 DEF Grows, Books, storage
    <2>5. Known(Books', a, call[a])
      BY <1>1, <2>4, KnownKept
    <2>6. call' = [call EXCEPT ![a] = call[a]] /\ call[a].step = "idle"
      BY <1>1, <2>1, IdleOK DEF IInv, CallInv, OwnerOK
    <2>7. Orderly
      BY <1>1, <2>1, <2>3, <2>4, <2>5, <2>6, SeenSame, CallOrderly
    <2> QED
      BY <1>1, <2>7, QuietStep DEF storage
  <1>3. CASE FinalizeGrant(a) \/ EndRun(a)
    <2>1. PICK x \in {"granted", "worked", "ended"} : run' = [run EXCEPT ![a] = x]
      BY <1>3 DEF FinalizeGrant, EndRun
    <2>2. Done(a) /\ run[a] # "ended" /\ UNCHANGED claims
      BY <1>3 DEF FinalizeGrant, EndRun, At, RInv, Alive
    <2>3. Idle.step = "idle" /\ Idle.prior = Absent
      BY DEF Idle
    <2>4. Grows(Books, Books')
      BY <1>1, <2>1, <2>2, RunGrows DEF storage
    <2>5. Known(Books', a, Idle)
      BY <2>3, KnownOther DEF KnownSteps
    <2>6. run'[a] = x /\ \A b \in Attempts \ {a} : run'[b] = run[b]
      BY <1>1, <2>1
    <2>7. Orderly
      BY <1>1, <2>2, <2>3, <2>4, <2>5, <2>6, SeenSame, CallOrderly DEF Done
    <2> QED
      BY <1>1, <2>7, QuietStep DEF storage
  <1>4. CASE StartWorker(a)
    <2>1. /\ run[a] = "granted" /\ run' = [run EXCEPT ![a] = "working"]
          /\ UNCHANGED <<claims, call>> /\ call[a].step = "idle"
      BY <1>4 DEF StartWorker, At
    <2>2. Grows(Books, Books')
      BY <1>1, <2>1, RunGrows DEF storage
    <2>3. Known(Books', a, call[a])
      BY <1>1, <2>2, KnownKept
    <2>4. run'[a] = "working" /\ \A b \in Attempts \ {a} : run'[b] = run[b]
      BY <1>1, <2>1
    <2>5. call' = [call EXCEPT ![a] = call[a]]
      BY <1>1, <2>1
    <2>6. Orderly
      BY <1>1, <2>1, <2>2, <2>3, <2>4, <2>5, SeenSame, CallOrderly
    <2> QED
      BY <1>1, <2>6, QuietStep DEF storage
  <1> QED
    BY <1>2, <1>3, <1>4

(* PrepareIndex gives the attempt its index.                               *)
LEMMA PrepareIndexKeeps == ASSUME IInv, RInv, NEW a \in Attempts, PrepareIndex(a) PROVE GoodMove
  <1>1. /\ UNCHANGED <<ledger, wire, spent, runs, refunded>> /\ a \in Procs /\ ~At(a, "idle")
        /\ call[a].step = "preparing"
    BY DEF PrepareIndex, Procs, At
  <1>2. call[a].claim = claims[a]
    BY <1>1 DEF RInv, AllKnown, Known, Books
  <1>3. \/ index' = index
        \/ index[a] = None /\ index' = [index EXCEPT ![a] = Receipt(a, claims[a])]
    <2>1. CASE index[a] = None
      BY <1>2, <2>1 DEF PrepareIndex, IndexHeld, IndexUncertain, IInv, TypeOK
    <2>2. CASE index[a] # None
      <3>1. [index EXCEPT ![a] = IF index[a] = None THEN Receipt(a, call[a].claim) ELSE index[a]] = index
        BY <2>2 DEF IInv, TypeOK
      <3> QED
        BY <2>2, <3>1 DEF PrepareIndex, IndexHeld, IndexUncertain
    <2> QED
      BY <2>1, <2>2
  <1>4. Grows(Books, Books')
    BY <1>1, <1>3 DEF Grows, Books, runs, IInv, TypeOK
  <1>5. PICK c : /\ call' = [call EXCEPT ![a] = c] /\ c.step \in {"indexed", "idle"}
                 /\ c.prior \in {call[a].prior, Absent}
    <2>1. CASE Goto(a, "indexed")
      BY <1>1, <2>1, GotoFields
    <2>2. CASE Done(a)
      <3>1. Idle.step = "idle" /\ Idle.prior = Absent
        BY DEF Idle
      <3> QED
        BY <2>2, <3>1 DEF Done
    <2> QED
      BY <2>1, <2>2 DEF PrepareIndex
  <1>6. Known(Books', a, c)
    BY <1>5, KnownOther DEF KnownSteps
  <1>7. Waiting(a)
    BY <1>1 DEF Waiting
  <1>8. Orderly
    BY <1>1, <1>4, <1>5, <1>6, <1>7, SeenSame, InnerOrderly
  <1> QED
    BY <1>1, <1>8, QuietStep

(* PreparePut makes the one reservation of the attempt.                    *)
LEMMA PreparePutKeeps == ASSUME IInv, RInv, NEW a \in Attempts, PreparePut(a) PROVE GoodMove
  <1> DEFINE k == call[a]
             n == Prepared(k.prior, index[a])
  <1>1. /\ a \in Procs /\ k.prior \in Record /\ ~At(a, "idle") /\ k.step = "indexed"
        /\ k.prior.status = "available" /\ k.claim \in ClaimType
        /\ run[a] \notin {"new", "queued", "ended"}
    BY CallFields, IdleOK
       DEF Procs, PreparePut, At, CallOK, SnapshotOK, RInv, Alive, IInv, CallInv, OwnerOK
  <1>2. /\ k.prior \in LedgerType /\ index[a] \in ReceiptType /\ index[a].owner = a
    BY <1>1, RecordFields DEF PreparePut, Receipt, ReceiptType
  <1>3. /\ Done(a) /\ UNCHANGED <<index, claims, refunded>>
        /\ Accepted(a, n) \/ Rejected \/ Unanswered(a, n)
        /\ run' = [run EXCEPT ![a] = "prepared"] \/ run' = run
    BY DEF PreparePut
  <1>4. Backed(Books', index[a])
    BY <1>2, <1>3 DEF Backed, Books
  <1>5. WriteOK(k.prior, n) /\ Sound(Books', n) /\ Passes(k.prior, n) /\ n.receipt = index[a]
    BY <1>1, <1>2, <1>4, PreparedOK, PreparedMoves
  <1>6. /\ run'[a] \notin {"new", "queued", "ended"}
        /\ \A b \in Attempts \ {a} : run'[b] = run[b]
    BY <1>1, <1>3 DEF IInv, TypeOK
  <1>7. Grows(Books, Books')
    BY <1>1, <1>3, RunGrows, BooksSame
  <1>8. Idle.step = "idle" /\ Idle.prior = Absent
    BY DEF Idle
  <1>9. Known(Books', a, Idle)
    BY <1>8, KnownOther DEF KnownSteps
  <1>10. Orderly
    BY <1>1, <1>3, <1>6, <1>7, <1>8, <1>9, SeenSame, CallOrderly DEF Done
  <1>11. Waiting(a) /\ ~Waiting(a)'
    BY <1>1, <1>3, <1>6, <1>8 DEF Waiting, Done, IInv, TypeOK
  <1> HIDE DEF n
  <1> QED
    BY <1>1, <1>2, <1>3, <1>5, <1>10, <1>11, PutStep

(* A PUT that reserves nothing.                                            *)
LEMMA OtherPut ==
    ASSUME IInv, RInv, Orderly, NEW p \in Procs, NEW n, WriteOK(call[p].prior, n),
           Passes(call[p].prior, n), Sound(Books', n),
           call[p].prior.status # "available" \/ n.generation # call[p].prior.generation,
           Accepted(p, n) \/ Rejected \/ Unanswered(p, n)
    PROVE  GoodMove
  <1>1. n.status # "prepared"
    BY DEF WriteOK
  <1> QED
    BY <1>1, PutStep

(* FinalizePut consumes a backed receipt.                                  *)
LEMMA FinalizePutKeeps == ASSUME IInv, RInv, NEW a \in Attempts, FinalizePut(a) PROVE GoodMove
  <1> DEFINE k == call[a]
             n == Consumed(k.prior, k.claim)
  <1>1. /\ a \in Procs /\ k.prior \in Record /\ ~At(a, "idle") /\ Shape(k.prior)
        /\ k.claim \in ClaimType \cup {None}
        /\ k.prior.status = "prepared" /\ k.prior.receipt.owner = a
        /\ index[a] = k.prior.receipt
    BY CallFields DEF Procs, FinalizePut, At, CallOK, SnapshotOK, PreparedFor, Receipt
  <1>2. k.prior \in LedgerType /\ k.prior.receipt \in ReceiptType
    BY <1>1, RecordFields DEF Shape, Receipted
  <1>3. /\ UNCHANGED <<index, runs, refunded>> /\ (Goto(a, "consumed") \/ Done(a))
        /\ Accepted(a, n) \/ Rejected \/ Unanswered(a, n)
    BY DEF FinalizePut
  <1>4. Books' = Books
    BY <1>3, BooksSame DEF runs
  <1>5. Sound(Books, k.prior) /\ Backed(Books, k.prior.receipt)
    BY <1>1, <1>2 DEF RInv, Sounds, Backed, Books
  <1>6. WriteOK(k.prior, n) /\ Sound(Books', n) /\ Passes(k.prior, n)
    BY <1>1, <1>2, <1>4, <1>5, ConsumedOK, ConsumedMoves
  <1>7. Orderly
    <2>1. CASE Done(a)
      BY <1>1, <1>3, <2>1, DoneOrderly
    <2>2. CASE Goto(a, "consumed")
      BY <1>1, <1>3, <2>2, GotoOrderly DEF KnownSteps
    <2> QED
      BY <1>3, <2>1, <2>2
  <1> HIDE DEF n
  <1> QED
    BY <1>1, <1>3, <1>6, <1>7, OtherPut

(* confirmChallenge reads a consumed ledger and confirms it.               *)
LEMMA ConfirmKeeps ==
    ASSUME IInv, RInv, NEW a \in Attempts, StartConfirm(a) \/ ConfirmPut(a)
    PROVE  GoodMove
  <1>1. a \in Procs
    BY DEF Procs
  <1>2. CASE StartConfirm(a)
    <2>1. PICK t : Enter(a, "confirming", a, claims[a], t)
      BY <1>2 DEF StartConfirm
    <2>2. PICK c : call' = [call EXCEPT ![a] = c] /\ c.step = "confirming" /\ c.prior = ledger
      BY <2>1, EnterFields
    <2>3. UNCHANGED <<storage, run, claims, refunded>> /\ run[a] = "working"
      BY <1>2 DEF StartConfirm, runs
    <2>4. Grows(Books, Books') /\ Known(Books', a, c)
      BY <2>2, <2>3, BooksSame, KnownOther DEF storage, KnownSteps
    <2>5. Orderly
      BY <1>1, <2>2, <2>3, <2>4, SeenSame, CallOrderly
    <2> QED
      BY <2>3, <2>5, QuietStep DEF storage
  <1>3. CASE ConfirmPut(a)
    <2> DEFINE k == call[a]
               n == Confirmed(k.prior)
    <2>1. /\ k.prior \in Record /\ ~At(a, "idle") /\ Shape(k.prior) /\ k.prior.status = "consumed"
      BY <1>1, <1>3, CallFields DEF ConfirmPut, At, CallOK, SnapshotOK
    <2>2. /\ UNCHANGED <<index, runs, refunded>> /\ Done(a)
          /\ Accepted(a, n) \/ Rejected \/ Unanswered(a, n)
      BY <1>3 DEF ConfirmPut
    <2>3. Books' = Books /\ k.prior \in LedgerType /\ Sound(Books, k.prior)
      BY <1>1, <2>1, <2>2, BooksSame, RecordFields DEF runs, RInv, Sounds
    <2>4. WriteOK(k.prior, n) /\ Sound(Books', n) /\ Passes(k.prior, n)
      BY <2>1, <2>3, ConfirmedOK, ConfirmedMoves
    <2>5. Orderly
      BY <1>1, <2>1, <2>2, DoneOrderly
    <2> HIDE DEF n
    <2> QED
      BY <1>1, <2>1, <2>2, <2>4, <2>5, OtherPut
  <1> QED
    BY <1>2, <1>3

(* What an attempt does of its own.                                        *)
LEMMA AttemptKeeps == ASSUME IInv, RInv, NEW a \in Attempts, AttemptStep(a) PROVE GoodMove
  BY StartsKeep, RunsKeep, PrepareIndexKeeps, PreparePutKeeps, FinalizePutKeeps, ConfirmKeeps DEF AttemptStep

-----------------------------------------------------------------------------
(* The steps of a release and of a refresh                                 *)

(* The reads of a release: what they look at is seen or known.             *)
LEMMA ReleaseReadsKeep ==
    ASSUME IInv, RInv, NEW p \in Procs, ReleaseAlready(p) \/ ReleaseCheck(p) \/ RefreshCheck(p)
    PROVE  GoodMove
  <1> DEFINE k == call[p]
  <1>1. /\ UNCHANGED <<storage, runs>> /\ ~At(p, "idle") /\ k.target \in Attempts
        /\ k.prior \in Record /\ Shape(k.prior) /\ Sound(Books, k.prior)
    BY CallFields DEF ReleaseAlready, ReleaseCheck, RefreshCheck, At, CallOK, SnapshotOK, TargetSteps,
       RInv, Sounds
  <1>2. Books' = Books /\ Grows(Books, Books') /\ UNCHANGED <<ledger, spent, wire, index>>
    BY <1>1, BooksSame DEF storage, runs
  <1>3. CASE ReleaseAlready(p)
    <2>1. Owns(k.target, k.prior.released)
      BY <1>3 DEF ReleaseAlready, ReleasedFor, Owns, Receipt
    <2>2. CASE ReportReleased(p)
      BY <1>1, <1>2, <2>1, <2>2, ReportOrderly, QuietStep DEF Seen
    <2>3. CASE Goto(p, "refreshing") /\ UNCHANGED refunded
      BY <1>1, <1>2, <2>3, GotoOrderly, QuietStep DEF KnownSteps
    <2> QED
      BY <1>3, <2>2, <2>3 DEF ReleaseAlready
  <1>4. CASE ReleaseCheck(p)
    <2>1. /\ PreparedFor(k.prior, k.target, k.claim) /\ k.step = "releasing"
          /\ Goto(p, "release-checked") /\ UNCHANGED refunded
      BY <1>4 DEF ReleaseCheck, At
    <2>2. k.prior.receipt = Receipt(k.target, k.claim) /\ k.prior.receipt.owner = k.target
      BY <2>1 DEF PreparedFor, Receipt
    <2>3. Backed(Books, k.prior.receipt)
      <3>1. CASE p \in Attempts
        <4>1. k.target = p /\ run[p] # "ended"
          BY <1>1, <2>1, <3>1 DEF RInv, AllKnown, Known, Alive, At
        <4>2. k.prior.receipt # None
          BY <1>1, <2>1 DEF PreparedFor, Shape, Receipted
        <4> QED
          BY <1>1, <2>2, <4>1, <4>2 DEF Sound, Old, Books
      <3>2. CASE p \notin Attempts
        BY <2>1, <2>2, <3>2 DEF RInv, AllKnown, Known
      <3> QED
        BY <3>1, <3>2
    <2>4. PICK c : /\ call' = [call EXCEPT ![p] = c] /\ c.step = "release-checked"
                   /\ c.prior = k.prior /\ c.target = k.target
      BY <2>1, GotoFields
    <2>5. Known(Books', p, c)
      BY <1>2, <2>2, <2>3, <2>4 DEF Known
    <2>6. Orderly
      BY <1>1, <1>2, <2>1, <2>4, <2>5, SeenSame, InnerOrderly
    <2> QED
      BY <1>2, <2>6, QuietStep
  <1>5. CASE RefreshCheck(p)
    <2>1. Owns(k.target, k.prior.released)
      BY <1>5 DEF RefreshCheck
    <2>2. CASE ReportReleased(p)
      BY <1>1, <1>2, <2>1, <2>2, ReportOrderly, QuietStep DEF Seen
    <2>3. CASE Goto(p, "refresh-checked") /\ UNCHANGED refunded
      <3>1. PICK c : /\ call' = [call EXCEPT ![p] = c] /\ c.step = "refresh-checked"
                     /\ c.prior = k.prior /\ c.target = k.target
        BY <2>3, GotoFields
      <3>2. Known(Books', p, c)
        BY <2>1, <3>1 DEF Known
      <3>3. Orderly
        BY <1>1, <1>2, <2>3, <3>1, <3>2, SeenSame, InnerOrderly
      <3> QED
        BY <1>2, <3>3, QuietStep
    <2> QED
      BY <1>5, <2>2, <2>3 DEF RefreshCheck
  <1> QED
    BY <1>3, <1>4, <1>5

(* The answer to a PUT is the report, or a step that will look for it.     *)
LEMMA AnswerOrderly ==
    ASSUME IInv, RInv, NEW p \in Procs, NEW n, NEW s, ~At(p, "idle"), UNCHANGED <<runs, index>>,
           \/ Accepted(p, n) /\ ReportReleased(p) /\ Owns(call[p].target, n.released)
           \/ Settle(p, s, n) /\ UNCHANGED refunded,
           \/ s \in {"release-rejected", "release-lost"} /\ Owns(call[p].target, n.released)
           \/ s = "refresh-lost" /\ Owns(call[p].target, call[p].prior.released)
           \/ s = "legacy-lost"
    PROVE  Orderly
  <1>1. CASE Accepted(p, n) /\ ReportReleased(p) /\ Owns(call[p].target, n.released)
    <2>1. ledger' = n
      BY <1>1 DEF Accepted, Commit
    <2> QED
      BY <1>1, <2>1, ReportOrderly
  <1>2. CASE Settle(p, s, n) /\ UNCHANGED refunded
    <2>1. PICK c : /\ call' = [call EXCEPT ![p] = c] /\ c.step = s /\ c.next = n
                   /\ c.prior = call[p].prior /\ c.target = call[p].target
      BY <1>2, SettleFields
    <2>2. Known(Books', p, c)
      BY <2>1 DEF Known
    <2>3. Grows(Books, Books')
      BY BooksSame DEF runs
    <2> QED
      BY <1>2, <2>1, <2>2, <2>3, SeenSame, InnerOrderly
  <1> QED
    BY <1>1, <1>2

(* ReleasePut and RefreshPut keep a release with its owner.                *)
LEMMA ReleasePutsKeep ==
    ASSUME IInv, RInv, NEW p \in Procs, ReleasePut(p) \/ RefreshPut(p)
    PROVE  GoodMove
  <1> DEFINE k == call[p]
  <1>1. /\ ~At(p, "idle") /\ k.target \in Attempts /\ k.prior \in LedgerType
        /\ Shape(k.prior) /\ k.at \in Int /\ fresh \in Nat /\ k.prior.generation < fresh
        /\ UNCHANGED <<runs, index>>
    BY CallFields, RecordFields
       DEF ReleasePut, RefreshPut, At, CallOK, SnapshotOK, TargetSteps
  <1>2. Books' = Books /\ Sound(Books, k.prior)
    BY <1>1, BooksSame DEF runs, RInv, Sounds
  <1>3. CASE ReleasePut(p)
    <2> DEFINE n == Released(k.prior, fresh, k.at)
    <2>1. /\ k.prior.status = "prepared"
          /\ Backed(Books, k.prior.receipt) /\ k.prior.receipt.owner = k.target
      BY <1>3, CallFields DEF ReleasePut, At, CallOK, SnapshotOK, RInv, AllKnown, Known
    <2>2. /\ WriteOK(k.prior, n) /\ Sound(Books', n) /\ Passes(k.prior, n)
          /\ Owns(k.target, n.released)
      BY <1>1, <1>2, <2>1, ReleasedOK, ReleasedMoves
    <2>3. /\ Accepted(p, n) \/ Rejected \/ Unanswered(p, n)
          /\ \/ Accepted(p, n) /\ ReportReleased(p)
             \/ /\ \E s \in {"release-rejected", "release-lost"} : Settle(p, s, n)
                /\ UNCHANGED refunded
      BY <1>3 DEF ReleasePut
    <2>4. Orderly
      BY <1>1, <2>2, <2>3, AnswerOrderly
    <2> HIDE DEF n
    <2> QED
      BY <2>1, <2>2, <2>3, <2>4, OtherPut
  <1>4. CASE RefreshPut(p)
    <2> DEFINE n == ReleasedRefreshed(k.prior, fresh, k.at)
    <2>1. /\ k.prior.status = "available" /\ Owns(k.target, k.prior.released)
      BY <1>4, CallFields DEF RefreshPut, At, CallOK, SnapshotOK, RInv, AllKnown, Known
    <2>2. k.prior.released # None /\ fresh # k.prior.generation
      BY <1>1, <2>1 DEF Owns, LedgerType
    <2>3. /\ WriteOK(k.prior, n) /\ n.generation = fresh
          /\ Sound(Books', n) /\ Passes(k.prior, n)
          /\ n.released # None /\ n.released.receipt = k.prior.released.receipt
      BY <1>1, <1>2, <2>1, <2>2, ReleasedRefreshedOK, ReleasedRefreshedMoves
    <2>4. Owns(k.target, n.released)
      BY <2>1, <2>3 DEF Owns
    <2>5. /\ Accepted(p, n) \/ Rejected \/ Unanswered(p, n)
          /\ \/ Accepted(p, n) /\ ReportReleased(p)
             \/ Settle(p, "refresh-lost", n) /\ UNCHANGED refunded
      BY <1>4 DEF RefreshPut
    <2>6. Orderly
      BY <1>1, <2>1, <2>4, <2>5, AnswerOrderly
    <2> HIDE DEF n
    <2> QED
      BY <2>2, <2>3, <2>5, <2>6, OtherPut
  <1> QED
    BY <1>3, <1>4

(* What the ledger tells after a PUT is seen.                              *)
LEMMA SettlesKeep ==
    ASSUME IInv, RInv, NEW p \in Procs, ReleaseSettle(p) \/ RefreshSettle(p) \/ Return(p)
    PROVE  GoodMove
  <1> DEFINE k == call[p]
  <1>1. UNCHANGED <<ledger, spent, wire, index, runs>> /\ ~At(p, "idle")
    BY DEF ReleaseSettle, RefreshSettle, Return, storage, At
  <1>2. CASE Return(p)
    BY <1>1, <1>2, DoneOrderly, QuietStep DEF Return
  <1>3. CASE ReleaseSettle(p)
    <2>1. Owns(k.target, k.next.released)
      BY <1>3 DEF ReleaseSettle, At, RInv, AllKnown, Known
    <2>2. CASE ReportReleased(p) /\ Owns(k.target, ledger.released)
      BY <1>1, <2>2, ReportOrderly, QuietStep DEF Seen
    <2>3. CASE Continue(p) /\ UNCHANGED refunded
      BY <1>1, <2>3, ContinueOrderly, QuietStep
    <2> QED
      BY <1>3, <2>1, <2>2, <2>3 DEF ReleaseSettle, Owns
  <1>4. CASE RefreshSettle(p)
    <2>1. Owns(k.target, k.prior.released)
      BY <1>4 DEF RefreshSettle, At, RInv, AllKnown, Known
    <2>2. ReportReleased(p) /\ Seen(k.target)
      BY <1>4, <2>1 DEF RefreshSettle, Seen
    <2> QED
      BY <1>1, <2>2, ReportOrderly, QuietStep
  <1> QED
    BY <1>2, <1>3, <1>4

(* Every step of the functions that attempts, reporters and updaters share. *)
LEMMA SharedKeeps == ASSUME IInv, RInv, NEW p \in Procs, SharedStep(p) PROVE GoodMove
  BY ReleaseReadsKeep, ReleasePutsKeep, SettlesKeep DEF SharedStep

-----------------------------------------------------------------------------
(* The steps of a reporter                                                 *)

(* A reporter starts from a run that is over, and from a claim of the new  *)
(* format when it is to release.                                           *)
LEMMA StartReconcileKeeps ==
    ASSUME IInv, RInv, NEW r \in Reporters, NEW a \in Attempts, StartReconcile(r, a)
    PROVE  GoodMove
  <1>1. /\ r \in Procs /\ r \notin Attempts /\ run[a] = "ended"
        /\ UNCHANGED <<ledger, spent, wire, index, runs, refunded>>
    BY ProcsAssumption DEF Procs, StartReconcile, storage
  <1>2. PICK op \in {"recovering", "refreshing", "releasing", "reopening"} :
          /\ op = "releasing" => /\ ledger.status = "prepared" /\ ledger.claim # None
                                 /\ ledger.receipt = Receipt(a, ledger.claim)
          /\ call' = [call EXCEPT ![r] =
                        [Idle EXCEPT !.step = "reread", !.op = op, !.target = a,
                                     !.claim = ledger.claim]]
    BY DEF StartReconcile
  <1> DEFINE c == [Idle EXCEPT !.step = "reread", !.op = op, !.target = a, !.claim = ledger.claim]
  <1>3. /\ c.step = "reread" /\ c.op = op /\ c.target = a /\ c.claim = ledger.claim
        /\ c.prior = Absent /\ call' = [call EXCEPT ![r] = c]
    BY <1>2 DEF Idle
  <1> HIDE DEF c
  <1>4. op = "releasing" => Backed(Books, Receipt(a, ledger.claim))
    BY <1>2 DEF RInv, Sounds, Sound, Old, IInv, LedgerInv, Shape, Receipted
  <1>5. Books' = Books /\ Grows(Books, Books')
    BY <1>1, BooksSame DEF runs
  <1>6. Known(Books', r, c)
    BY <1>1, <1>3, <1>4, <1>5 DEF Known, Books
  <1>7. Orderly
    BY <1>1, <1>3, <1>5, <1>6, SeenSame, InnerOrderly
  <1> QED
    BY <1>1, <1>7, QuietStep

(* Between its first read and its PUT a reporter keeps what it knows.      *)
LEMMA ReporterReadsKeep ==
    ASSUME IInv, RInv, NEW r \in Reporters, Reread(r) \/ RecoverCheck(r) \/ ReopenCheck(r)
    PROVE  GoodMove
  <1> DEFINE k == call[r]
  <1>1. /\ r \in Procs /\ r \notin Attempts /\ ~At(r, "idle")
        /\ UNCHANGED <<ledger, spent, wire, index, runs, refunded>>
    BY ProcsAssumption DEF Procs, Reread, RecoverCheck, ReopenCheck, storage, At
  <1>2. Books' = Books /\ Grows(Books, Books')
    BY <1>1, BooksSame DEF runs
  <1>3. Known(Books, r, k) /\ CallOK(k)
    BY <1>1, CallFields DEF RInv, AllKnown
  <1>4. CASE Reread(r)
    <2>1. PICK t : Enter(r, k.op, k.target, k.claim, t)
      BY <1>4 DEF Reread
    <2>2. PICK c : /\ call' = [call EXCEPT ![r] = c] /\ c.step = k.op /\ c.prior = ledger
                   /\ c.claim = k.claim /\ c.target = k.target
      BY <2>1, EnterFields
    <2>3. k.step = "reread" /\ k.op \in {"recovering", "refreshing", "releasing", "reopening"}
      BY <1>1, <1>3, <1>4, CallFields DEF Reread, At, CallOK, SnapshotOK, Ops
    <2>4. Known(Books', r, c)
      BY <1>1, <1>2, <1>3, <2>2, <2>3 DEF Known
    <2>5. Orderly
      BY <1>1, <1>2, <2>2, <2>3, <2>4, SeenSame, InnerOrderly
    <2> QED
      BY <1>1, <2>5, QuietStep
  <1>5. CASE RecoverCheck(r)
    <2>1. CASE Done(r)
      BY <1>1, <2>1, DoneOrderly, QuietStep
    <2>2. CASE Goto(r, "recover-checked")
      BY <1>1, <2>2, GotoOrderly, QuietStep DEF KnownSteps
    <2> QED
      BY <1>5, <2>1, <2>2 DEF RecoverCheck
  <1>6. CASE ReopenCheck(r)
    <2>1. PICK t : call' = [call EXCEPT ![r].step = "reopen-checked", ![r].at = t]
      BY <1>6 DEF ReopenCheck
    <2> DEFINE c == [k EXCEPT !.step = "reopen-checked", !.at = t]
    <2>2. c.step = "reopen-checked" /\ c.prior = k.prior /\ c.target = k.target
      BY <1>3 DEF CallOK, CallType
    <2>3. call' = [call EXCEPT ![r] = c]
      BY <1>1, <2>1 DEF IInv, TypeOK
    <2> HIDE DEF c
    <2>4. k.step = "reopening" /\ k.prior.receipt.owner = k.target
      BY <1>6 DEF ReopenCheck, At, Receipt
    <2>5. Known(Books', r, c)
      BY <1>2, <1>3, <2>2, <2>4 DEF Known
    <2>6. Orderly
      BY <1>1, <1>2, <2>2, <2>3, <2>5, SeenSame, InnerOrderly
    <2> QED
      BY <1>1, <2>6, QuietStep
  <1> QED
    BY <1>4, <1>5, <1>6

(* What a reporter reopens belongs to a run that is over.                  *)
LEMMA ReporterPutsKeep ==
    ASSUME IInv, RInv, NEW r \in Reporters, RecoverPut(r) \/ ReopenPut(r)
    PROVE  GoodMove
  <1> DEFINE k == call[r]
  <1>1. /\ r \in Procs /\ ~At(r, "idle") /\ Done(r) /\ UNCHANGED <<index, runs, refunded>>
    BY DEF Procs, RecoverPut, ReopenPut, At
  <1>2. /\ k.prior \in Record /\ Shape(k.prior) /\ k.at \in Int
        /\ fresh \in Nat /\ k.prior.generation < fresh /\ k.prior.generation \in Nat
        /\ Books' = Books /\ Sound(Books, k.prior) /\ Orderly
    BY <1>1, CallFields, RecordFields, BooksSame, DoneOrderly
       DEF CallOK, SnapshotOK, runs, RInv, Sounds
  <1>3. CASE RecoverPut(r)
    <2> DEFINE n == RecoveredRefreshed(k.prior, fresh, k.at)
    <2>1. k.prior.status = "available" /\ k.prior.recovered # None /\ k.prior \in LedgerType
      BY <1>1, <1>2, <1>3, CallFields, RecordFields DEF RecoverPut, At, CallOK, SnapshotOK
    <2>2. /\ WriteOK(k.prior, n) /\ n.generation = fresh
          /\ Sound(Books', n) /\ Passes(k.prior, n)
      BY <1>2, <2>1, RecoveredRefreshedOK, RecoveredRefreshedMoves
    <2>3. Accepted(r, n) \/ Rejected \/ Unanswered(r, n)
      BY <1>3 DEF RecoverPut
    <2> HIDE DEF n
    <2> QED
      BY <1>1, <1>2, <2>2, <2>3, OtherPut
  <1>4. CASE ReopenPut(r)
    <2> DEFINE n == Reopened(k.prior, fresh, k.at)
    <2>1. k.prior.status = "consumed" /\ k.prior \in LedgerType
      BY <1>1, <1>2, <1>4, CallFields, RecordFields DEF ReopenPut, At, CallOK, SnapshotOK
    <2>2. Books.run[k.prior.receipt.owner] = "ended"
      BY <1>1, <1>4 DEF ReopenPut, At, RInv, AllKnown, Known
    <2>3. /\ WriteOK(k.prior, n) /\ n.generation = fresh
          /\ Sound(Books', n) /\ Passes(k.prior, n)
      BY <1>2, <2>1, <2>2, ReopenedOK, ReopenedMoves
    <2>4. Accepted(r, n) \/ Rejected \/ Unanswered(r, n)
      BY <1>4 DEF ReopenPut
    <2> HIDE DEF n
    <2> QED
      BY <1>1, <1>2, <2>1, <2>3, <2>4, OtherPut
  <1> QED
    BY <1>3, <1>4

(* Every step of a reporter.                                               *)
LEMMA ReporterKeeps == ASSUME IInv, RInv, NEW r \in Reporters, ReporterStep(r) PROVE GoodMove
  BY StartReconcileKeeps, ReporterReadsKeep, ReporterPutsKeep DEF ReporterStep

-----------------------------------------------------------------------------
(* The steps of an updater                                                 *)

(* beginChallenge starts, or issues a challenge over what it has read.     *)
LEMMA BeginIssueKeeps ==
    ASSUME IInv, RInv, NEW u \in Updaters, StartBegin(u) \/ BeginIssue(u)
    PROVE  GoodMove
  <1> DEFINE k == call[u]
  <1>1. u \in Procs /\ u \notin Attempts
    BY ProcsAssumption DEF Procs
  <1>2. CASE StartBegin(u)
    <2>1. PICK t, b : call' = [call EXCEPT ![u] =
                                 [Idle EXCEPT !.step = "beginning", !.at = t, !.tries = 1,
                                              !.prior = ledger, !.boundary = b]]
      BY <1>2 DEF StartBegin
    <2> DEFINE c == [Idle EXCEPT !.step = "beginning", !.at = t, !.tries = 1,
                                 !.prior = ledger, !.boundary = b]
    <2>2. c.step = "beginning" /\ c.prior = ledger /\ call' = [call EXCEPT ![u] = c]
      BY <2>1 DEF Idle
    <2> HIDE DEF c
    <2>3. UNCHANGED <<ledger, spent, wire, index, runs, refunded>>
      BY <1>2 DEF StartBegin, storage
    <2>4. Grows(Books, Books') /\ Known(Books', u, c)
      BY <2>2, <2>3, BooksSame, KnownOther DEF runs, KnownSteps
    <2>5. Orderly
      BY <1>1, <2>2, <2>3, <2>4, SeenSame, InnerOrderly
    <2> QED
      BY <2>3, <2>5, QuietStep
  <1>3. CASE BeginIssue(u)
    <2> DEFINE n == Issued(k.prior, k.boundary, fresh)
    <2>1. /\ k.prior \in Record /\ k.boundary \in BoundaryType /\ fresh \in Nat
          /\ k.prior.generation < fresh /\ k.prior.generation \in Nat
          /\ ~At(u, "idle") /\ UNCHANGED <<index, runs, refunded>>
      BY <1>1, <1>3, CallFields, RecordFields
         DEF BeginIssue, Beginning, At, CallOK, SnapshotOK
    <2>2. k.prior.head = k.boundary.head => k.prior.status = "available"
      BY <1>3 DEF BeginIssue
    <2>3. Books' = Books /\ Sound(Books, k.prior)
      BY <1>1, <2>1, BooksSame DEF runs, RInv, Sounds
    <2>4. /\ WriteOK(k.prior, n) /\ n.generation = fresh
          /\ Sound(Books', n) /\ Passes(k.prior, n)
      BY <2>1, <2>2, <2>3, IssuedOK, IssuedMoves
    <2>5. (Done(u) \/ Continue(u)) /\ (Accepted(u, n) \/ Rejected \/ Unanswered(u, n))
      BY <1>3 DEF BeginIssue
    <2>6. Orderly
      BY <1>1, <2>1, <2>5, DoneOrderly, ContinueOrderly
    <2> HIDE DEF n
    <2> QED
      BY <1>1, <2>1, <2>4, <2>5, <2>6, OtherPut
  <1> QED
    BY <1>2, <1>3

(* What an updater reaps has the index of its owner behind it.             *)
LEMMA BeginReapKeeps == ASSUME IInv, RInv, NEW u \in Updaters, BeginReap(u) PROVE GoodMove
  <1> DEFINE k == call[u]
             c == [k EXCEPT !.step = "releasing", !.prior = ledger,
                            !.target = k.prior.receipt.owner, !.claim = k.prior.claim]
  <1>1. u \in Procs /\ u \notin Attempts /\ UNCHANGED <<ledger, spent, wire, index, runs, refunded>>
    BY ProcsAssumption DEF Procs, BeginReap, storage
  <1>2. /\ CallOK(k) /\ k.prior \in Record /\ k.prior.status = "prepared"
        /\ ~At(u, "idle")
    BY <1>1, CallFields, RecordFields DEF BeginReap, Reapable, Beginning, At
  <1>3. k.prior.receipt \in ReceiptType
    BY <1>2, RecordFields DEF CallOK, SnapshotOK, Shape, Receipted
  <1>4. Backed(Books, Receipt(k.prior.receipt.owner, k.prior.claim))
    BY <1>3 DEF BeginReap, PreparedFor, Backed, Books
  <1>5. /\ c.step = "releasing" /\ c.prior = ledger
        /\ c.target = k.prior.receipt.owner /\ c.claim = k.prior.claim
    BY <1>2 DEF CallOK, CallType
  <1>6. call' = [call EXCEPT ![u] = c]
    BY <1>1 DEF BeginReap, IInv, TypeOK
  <1> HIDE DEF c
  <1>7. Books' = Books /\ Grows(Books, Books')
    BY <1>1, BooksSame DEF runs
  <1>8. Known(Books', u, c)
    BY <1>1, <1>4, <1>5, <1>7 DEF Known
  <1>9. Orderly
    BY <1>1, <1>2, <1>5, <1>6, <1>7, <1>8, SeenSame, InnerOrderly
  <1> QED
    BY <1>1, <1>9, QuietStep

(* Another round of beginChallenge relies on nothing.                      *)
LEMMA RoundsKeep ==
    ASSUME IInv, RInv, NEW u \in Updaters,
           BeginRetry(u) \/ BeginReaped(u) \/ LegacySettle(u) \/ LegacyReleased(u)
    PROVE  GoodMove
  <1>1. /\ u \in Procs /\ ~At(u, "idle") /\ UNCHANGED <<ledger, spent, wire, index, runs, refunded>>
    BY DEF Procs, BeginRetry, BeginReaped, LegacySettle, LegacyReleased, storage, At
  <1>2. CASE Continue(u)
    BY <1>1, <1>2, ContinueOrderly, QuietStep
  <1>3. CASE Goto(u, "legacy-released")
    BY <1>1, <1>3, GotoOrderly, QuietStep DEF KnownSteps
  <1> QED
    BY <1>2, <1>3 DEF BeginRetry, BeginReaped, LegacySettle, LegacyReleased

(* The index that is created for an old preparation is the one its owner   *)
(* would have written.                                                     *)
LEMMA LegacyIndexKeeps == ASSUME IInv, RInv, NEW u \in Updaters, LegacyIndex(u) PROVE GoodMove
  <1> DEFINE k == call[u]
             r == k.prior.receipt
             a == r.owner
  <1>1. /\ u \in Procs /\ ~At(u, "idle") /\ UNCHANGED <<ledger, spent, wire, runs, refunded>>
        /\ Goto(u, "legacy-indexed") /\ index'[a] = r
    BY DEF Procs, LegacyIndex, Beginning, At
  <1>2. /\ r \in ReceiptType /\ k.prior.status = "prepared" /\ Sound(Books, k.prior)
        /\ k.prior.receipt # None
    BY <1>1, CallFields, RecordFields
       DEF LegacyIndex, Reapable, CallOK, SnapshotOK, Shape, Receipted, RInv, Sounds
  <1>3. a \in Attempts /\ r = Receipt(a, r.claim)
    BY <1>2 DEF ReceiptType, Receipt
  <1>4. \/ index' = index
        \/ index' = [index EXCEPT ![a] = IF index[a] = None THEN r ELSE index[a]]
    BY DEF LegacyIndex, IndexHeld, IndexUncertain
  <1>5. \A b \in Attempts : b # a => index'[b] = index[b]
    BY <1>4 DEF IInv, TypeOK
  <1>6. index[a] = r \/ (index[a] = None /\ r.claim = claims[a])
    BY <1>2 DEF Sound, Backed, Old, Books
  <1>7. Grows(Books, Books')
    BY <1>1, <1>3, <1>5, <1>6 DEF Grows, Books, runs
  <1>8. PICK c : /\ call' = [call EXCEPT ![u] = c] /\ c.step = "legacy-indexed"
                 /\ c.prior = k.prior
    BY <1>1, GotoFields
  <1>9. Known(Books', u, c)
    BY <1>1, <1>2, <1>8 DEF Known, Backed, Books
  <1>10. Orderly
    BY <1>1, <1>7, <1>8, <1>9, SeenSame, InnerOrderly
  <1> QED
    BY <1>1, <1>10, QuietStep

(* The second read finds the receipt that has an index now.                *)
LEMMA LegacyRereadKeeps == ASSUME IInv, RInv, NEW u \in Updaters, LegacyReread(u) PROVE GoodMove
  <1> DEFINE k == call[u]
             c == [k EXCEPT !.step = "legacy-checked", !.prior = ledger]
  <1>1. /\ u \in Procs /\ ~At(u, "idle") /\ UNCHANGED <<ledger, spent, wire, index, runs, refunded>>
        /\ k.step = "legacy-indexed" /\ ledger.receipt = k.prior.receipt
    BY DEF Procs, LegacyReread, At, storage
  <1>2. CallOK(k) /\ Backed(Books, ledger.receipt)
    BY <1>1, CallFields DEF RInv, AllKnown, Known
  <1>3. c.step = "legacy-checked" /\ c.prior = ledger
    BY <1>2 DEF CallOK, CallType
  <1>4. call' = [call EXCEPT ![u] = c]
    BY <1>1 DEF LegacyReread, IInv, TypeOK
  <1> HIDE DEF c
  <1>5. Books' = Books /\ Grows(Books, Books')
    BY <1>1, BooksSame DEF runs
  <1>6. Known(Books', u, c)
    BY <1>2, <1>3, <1>5 DEF Known
  <1>7. Orderly
    BY <1>1, <1>3, <1>4, <1>5, <1>6, SeenSame, InnerOrderly
  <1> QED
    BY <1>1, <1>7, QuietStep

(* An old preparation is released like any other.                          *)
LEMMA LegacyPutKeeps == ASSUME IInv, RInv, NEW u \in Updaters, LegacyPut(u) PROVE GoodMove
  <1> DEFINE k == call[u]
             n == Released(k.prior, fresh, k.at)
  <1>1. u \in Procs /\ ~At(u, "idle") /\ UNCHANGED <<index, runs, refunded>>
    BY DEF Procs, LegacyPut, At
  <1>2. /\ k.prior \in LedgerType /\ k.prior.status = "prepared" /\ Shape(k.prior)
        /\ k.at \in Int /\ fresh \in Nat /\ k.prior.generation < fresh
    BY <1>1, CallFields, RecordFields DEF LegacyPut, At, CallOK, SnapshotOK
  <1>3. Books' = Books /\ Sound(Books, k.prior) /\ Backed(Books, k.prior.receipt)
    BY <1>1, BooksSame DEF runs, RInv, Sounds, AllKnown, Known, LegacyPut, At
  <1>4. WriteOK(k.prior, n) /\ Sound(Books', n) /\ Passes(k.prior, n)
    BY <1>2, <1>3, ReleasedOK, ReleasedMoves
  <1>5. /\ Accepted(u, n) \/ Rejected \/ Unanswered(u, n)
        /\ Goto(u, "legacy-released") \/ Settle(u, "legacy-lost", n)
    BY DEF LegacyPut
  <1>6. Orderly
    <2>1. CASE Goto(u, "legacy-released")
      BY <1>1, <2>1, GotoOrderly DEF KnownSteps
    <2>2. CASE Settle(u, "legacy-lost", n)
      BY <1>1, <2>2, AnswerOrderly
    <2> QED
      BY <1>5, <2>1, <2>2
  <1> HIDE DEF n
  <1> QED
    BY <1>1, <1>2, <1>4, <1>5, <1>6, OtherPut

(* Every step of an updater.                                               *)
LEMMA UpdaterKeeps == ASSUME IInv, RInv, NEW u \in Updaters, UpdaterStep(u) PROVE GoodMove
  BY BeginIssueKeeps, BeginReapKeeps, RoundsKeep, LegacyIndexKeeps, LegacyRereadKeeps,
     LegacyPutKeeps DEF UpdaterStep

-----------------------------------------------------------------------------
(* The steps of the world, and the theorems                                *)

(* Calls, runs and indexes that do not move keep their order.              *)
LEMMA WorldOrderly ==
    ASSUME IInv, RInv, UNCHANGED <<index, run, claims, call, refunded>>
    PROVE  Orderly
  <1>1. Grows(Books, Books')
    BY BooksSame
  <1>2. AllKnown'
    BY <1>1, KnownKept DEF AllKnown
  <1>3. Alive' /\ \A a \in Attempts : Waiting(a)' => Waiting(a)
    BY DEF RInv, Alive, Waiting
  <1> QED
    BY <1>1, <1>2, <1>3, SeenSame DEF Orderly

(* A late write, the clock, the pull request, and steps of others.         *)
LEMMA WorldKeeps ==
    ASSUME IInv, RInv, (\E w \in wire : Land(w)) \/ Tick \/ MovePr \/ UNCHANGED vars
    PROVE  GoodMove
  <1>1. CASE \E w \in wire : Land(w)
    <2>1. PICK w \in wire : Land(w)
      BY <1>1
    <2>2. Orderly
      BY <2>1, WorldOrderly DEF Land, runs
    <2> QED
      BY <2>1, <2>2, LandStep DEF Land
  <1>2. CASE Tick \/ MovePr \/ UNCHANGED vars
    <2>1. UNCHANGED <<ledger, spent, wire, index, run, claims, call, refunded>>
      BY <1>2 DEF Tick, MovePr, vars, storage, runs
    <2> QED
      BY <2>1, WorldOrderly, QuietStep
  <1> QED
    BY <1>1, <1>2

(* Every step of the system.                                               *)
LEMMA NextKeeps == ASSUME IInv, RInv, [Next]_vars PROVE GoodMove
  BY AttemptKeeps, ReporterKeeps, UpdaterKeeps, SharedKeeps, WorldKeeps DEF Next

(* The ledger starts without a receipt, or with a preparation whose run is *)
(* over and whose index was never written.                                 *)
LEMMA InitKeeps == ASSUME Init PROVE RInv
  <1>1. /\ wire = {} /\ spent = {} /\ refunded = {}
        /\ \A p \in Procs : call[p] = Idle
        /\ \A a \in Attempts : index[a] = None /\ run[a] \in {"new", "ended"}
    BY DEF Init
  <1>2. Idle.step = "idle" /\ Idle.prior = Absent
    BY DEF Idle
  <1>3. /\ Sound(Books, ledger) /\ ledger.released = None
        /\ \A a \in Attempts : Names(ledger, a) => run[a] = "ended"
    <2>1. CASE ledger = Absent
      BY <2>1, AbsentSound DEF Absent, Names, Owns
    <2>2. CASE \E a \in Legacy, h \in Heads, f \in Fingerprints :
            /\ ledger = LegacyPreparation(a, h, f)
            /\ run = [b \in Attempts |-> IF b = a THEN "ended" ELSE "new"]
      <3>1. PICK a \in Legacy, h \in Heads, f \in Fingerprints :
            /\ ledger = LegacyPreparation(a, h, f)
            /\ run = [b \in Attempts |-> IF b = a THEN "ended" ELSE "new"]
        BY <2>2
      <3> DEFINE claim == [generation |-> 1, fingerprint |-> f, expires |-> Window, head |-> h]
                 r == Receipt(a, claim)
      <3>2. claim \in ClaimType /\ a \in Attempts
        BY LegacyAssumption, WindowAssumption DEF ClaimType
      <3>3. r \in ReceiptType /\ r.owner = a
        BY <3>2 DEF Receipt, ReceiptType
      <3>4. ledger = [status |-> "prepared", revision |-> 1, generation |-> 1,
                      fingerprint |-> f, head |-> h, expires |-> Window,
                      receipt |-> r, claim |-> None, released |-> None, recovered |-> None]
        BY <3>1 DEF LegacyPreparation, Absent
      <3> HIDE DEF r, claim
      <3>5. /\ ledger.status = "prepared" /\ ledger.receipt = r /\ ledger.claim = None
            /\ ledger.released = None /\ ledger.recovered = None
        BY <3>4
      <3>6. run[a] = "ended" /\ claims[a] = r.claim /\ index[a] = None
        BY <1>1, <3>1, <3>2, <3>5 DEF Init
      <3>7. Old(Books, ledger)
        BY <3>3, <3>5, <3>6 DEF Old, Books
      <3> QED
        BY <3>3, <3>5, <3>6, <3>7 DEF Sound, Names, Owns
    <2> QED
      BY <2>1, <2>2 DEF Init
  <1>4. Sounds /\ WirePasses
    BY <1>1, <1>2, <1>3, AbsentSound DEF Sounds, WirePasses
  <1>5. AllKnown
    BY <1>1, <1>2, KnownOther DEF AllKnown, KnownSteps
  <1>6. \A a \in Attempts : call[a].step = "idle"
    BY <1>1, <1>2 DEF Procs
  <1>7. ASSUME NEW a \in Attempts PROVE Trail(a)
    <2>1. ~Seen(a)
      BY <1>1, <1>2, <1>3, AbsentSound DEF Seen, Owns
    <2>2. ~Floating(a) /\ ~Spender(a) /\ Alone(a)
      BY <1>1 DEF Floating, Spender, Alone
    <2>3. Pristine(a) => ~Names(ledger, a)
      BY <1>3, <1>6, <2>2 DEF Pristine, Waiting
    <2> QED
      BY <2>1, <2>2, <2>3 DEF Trail
  <1> QED
    BY <1>4, <1>5, <1>6, <1>7 DEF RInv, Alive, Trails

(* The inductive invariant: in every interleaving of the callers and their *)
(* lost answers, records are backed, and a release is final.               *)
THEOREM RefundInvariance == Spec => [](IInv /\ RInv)
  <1>1. Init => IInv /\ RInv
    BY InitOK, InitKeeps
  <1>2. IInv /\ RInv /\ [Next]_vars => (IInv /\ RInv)'
    BY NextOK, NextKeeps DEF GoodStep, GoodMove
  <1> QED
    BY <1>1, <1>2, PTL DEF Spec

(* A worker that has started keeps its authority used: the ledger offers no*)
(* refund of its receipt, by a late release or by a reporter's reopening.  *)
THEOREM WorkNeverRefundedAlways == Spec => []WorkNeverRefunded
  <1>1. IInv /\ RInv => WorkNeverRefunded
    <2> SUFFICES ASSUME IInv, RInv, NEW a \in Attempts, run[a] \in {"working", "worked"}
                 PROVE  ~Owns(a, ledger.released) /\ ~Owns(a, ledger.recovered)
      BY DEF WorkNeverRefunded
    <2>1. Spender(a)
      <3> DEFINE use == [generation |-> claims[a].generation, owner |-> a]
      <3>1. use \in spent /\ use.owner = a
        BY DEF IInv, GrantsAreSpent
      <3> QED
        BY <3>1 DEF Spender
    <2>2. ~Owns(a, ledger.released)
      BY <2>1 DEF RInv, Trails, Trail, Seen, Over
    <2>3. ~Owns(a, ledger.recovered)
      BY DEF RInv, Sounds, Sound, Owns, Books
    <2> QED
      BY <2>2, <2>3
  <1> QED
    BY <1>1, RefundInvariance, PTL

(* A release that was reported stays final: no write that was in flight    *)
(* consumes for that attempt afterwards.                                   *)
THEOREM ReleasedNeverSpentAlways == Spec => []ReleasedNeverSpent
  <1>1. IInv /\ RInv => ReleasedNeverSpent
    <2> SUFFICES ASSUME IInv, RInv, NEW s \in spent, s.owner \in refunded PROVE FALSE
      BY DEF ReleasedNeverSpent
    <2>1. s.owner \in Attempts
      BY DEF IInv, TypeOK
    <2>2. Over(s.owner)
      BY <2>1 DEF RInv, Trails, Trail, Seen
    <2> QED
      BY <2>2 DEF Over, Spender
  <1> QED
    BY <1>1, RefundInvariance, PTL

(* Every receipt that the ledger holds or refunds is the one in the index  *)
(* of its owner, but for a preparation of the old format.                  *)
THEOREM ReceiptBackedAlways == Spec => []ReceiptBacked
  <1>1. RInv => ReceiptBacked
    BY DEF RInv, Sounds, Sound, Backed, Old, Books, ReceiptBacked
  <1> QED
    BY <1>1, RefundInvariance, PTL

(* No write of the ledger ends a run.                                      *)
LEMMA EndsApart ==
    ASSUME IInv, Next, ledger' # ledger, NEW a \in Attempts, run'[a] = "ended"
    PROVE  run[a] = "ended"
  <1>1. CASE \E b \in Attempts : AttemptStep(b)
    <2>1. PICK b \in Attempts : AttemptStep(b)
      BY <1>1
    <2>2. PreparePut(b) \/ FinalizePut(b) \/ ConfirmPut(b)
      BY <2>1 DEF AttemptStep, Dispatch, Rerun, StartPrepare, PrepareIndex, StartFinalize,
                  FinalizeGrant, StartRelease, StartWorker, StartConfirm, EndRun, storage
    <2>3. run' = run \/ run' = [run EXCEPT ![b] = "prepared"]
      BY <2>2 DEF PreparePut, FinalizePut, ConfirmPut, runs
    <2> QED
      BY <2>3 DEF IInv, TypeOK
  <1>2. CASE \E r \in Reporters : ReporterStep(r)
    BY <1>2 DEF ReporterStep, StartReconcile, Reread, RecoverCheck, RecoverPut, ReopenCheck,
                ReopenPut, runs
  <1>3. CASE \E u \in Updaters : UpdaterStep(u)
    BY <1>3 DEF UpdaterStep, StartBegin, BeginIssue, BeginReap, BeginRetry, BeginReaped,
                LegacyIndex, LegacyReread, LegacyPut, LegacySettle, LegacyReleased, runs
  <1>4. CASE \E p \in Procs : SharedStep(p)
    BY <1>4 DEF SharedStep, ReleaseAlready, ReleaseCheck, ReleasePut, ReleaseSettle,
                RefreshCheck, RefreshPut, RefreshSettle, Return, runs
  <1>5. CASE (\E w \in wire : Land(w)) \/ Tick \/ MovePr
    BY <1>5 DEF Land, Tick, MovePr, runs
  <1> QED
    BY <1>1, <1>2, <1>3, <1>4, <1>5 DEF Next

(* While the head stays, a spent receipt is confirmed, or reopened under a *)
(* new generation after its run ended without a worker; nothing else.      *)
THEOREM SpentReceiptMovesAlways == Spec => SpentReceiptMovesProperty
  <1>1. IInv /\ RInv /\ [Next]_vars => [SpentReceiptMoves]_vars
    <2> SUFFICES ASSUME IInv, RInv, Next, ledger' # ledger PROVE SpentReceiptMoves
      BY DEF SpentReceiptMoves
    <2>1. RInv' /\ SpentMoves(ledger, ledger')
      BY NextKeeps DEF GoodMove
    <2> SUFFICES ASSUME ledger.status \in {"consumed", "confirmed"}, ledger'.head = ledger.head,
                        Owns(ledger.receipt.owner, ledger'.recovered)
                 PROVE  run[ledger.receipt.owner] = "ended"
      BY <2>1 DEF SpentReceiptMoves, SpentMoves
    <2>2. Sound(Books', ledger')
      BY <2>1 DEF RInv, Sounds
    <2>3. ledger.receipt.owner \in Attempts /\ run'[ledger.receipt.owner] = "ended"
      BY <2>2 DEF Sound, Owns, Backed, ReceiptType, Books
    <2> QED
      BY <2>3, EndsApart
  <1> QED
    BY <1>1, RefundInvariance, PTL DEF Spec, SpentReceiptMovesProperty
=============================================================================
