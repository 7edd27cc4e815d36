------------------------ MODULE RunnerDispatchProofs ------------------------
(***************************************************************************)
(* RunnerDispatch for every number of attempts, heads, lost posts and      *)
(* clock values.  Comments are never removed, an attempt posts one         *)
(* reservation at most, and a receipt only ever replaces a receipt of the  *)
(* same attempt; so what a reader takes for the record belongs to the      *)
(* newest reservation, and a closed reservation stays closed.  Within a    *)
(* concurrency group what is read is also what the counters were written   *)
(* for, and they count the completions that the comments show.             *)
(***************************************************************************)
EXTENDS RunnerDispatch, FiniteSetTheorems, TLAPS, WellFoundedInduction

-----------------------------------------------------------------------------
(* Reading the comments                                                    *)

EntryType == [kind : {"reservation", "receipt"}, record : RecordType]
Comments == Seq(EntryType)

(* A bounded set of numbers has a largest one.                             *)
LEMMA Largest ==
    ASSUME NEW n \in Nat, NEW S, S \subseteq 0..n, S # {}
    PROVE  Max(S) \in S /\ \A y \in S : y <= Max(S)
  <1> DEFINE T == {n - x : x \in S}
             R == OpToRel(<, Nat)
  <1>1. T \subseteq Nat /\ T # {}
    <2>1. \A x \in S : n - x \in Nat
      OBVIOUS
    <2> QED
      BY <2>1
  <1>2. PICK m \in T : \A y \in T : ~(<<y, m>> \in R)
    BY <1>1, WFMin, NatLessThanWellFounded
  <1>3. PICK x \in S : m = n - x
    BY <1>2
  <1>4. ASSUME NEW y \in S PROVE y <= x
    <2>1. n - y \in T /\ n - y \in Nat /\ m \in Nat
      BY <1>1
    <2>2. ~(n - y < m)
      BY <1>2, <2>1 DEF OpToRel
    <2> QED
      BY <1>3, <2>1, <2>2
  <1>5. \E z \in S : \A y \in S : z >= y
    BY <1>4
  <1>6. Max(S) \in S /\ \A y \in S : Max(S) >= y
    BY <1>5 DEF Max
  <1> QED
    BY <1>6

(* And only one.                                                           *)
LEMMA LargestIs ==
    ASSUME NEW n \in Nat, NEW S, S \subseteq 0..n, NEW m \in S, \A y \in S : y <= m
    PROVE  Max(S) = m
  <1>1. Max(S) \in S /\ \A y \in S : y <= Max(S)
    BY Largest
  <1>2. ASSUME NEW x \in S, \A y \in S : y <= x PROVE x = m
    <2>1. x \in Int /\ m \in Int
      OBVIOUS
    <2>2. x <= m /\ m <= x
      BY <1>2
    <2> QED
      BY <2>1, <2>2
  <1> QED
    BY <1>1, <1>2

(* What a reader takes for the record is in the newest reservation, or in  *)
(* the newest receipt for it.                                              *)
Newest(s, i) == i \in Reservations(s) /\ \A j \in Reservations(s) : j <= i
Last(s, i, k) == k \in {i} \cup ReceiptsFor(s, i) /\ \A j \in ReceiptsFor(s, i) : j <= k

(* Where the reservations and their receipts are.                          *)
LEMMA Places ==
    ASSUME NEW s \in Comments
    PROVE  /\ Reservations(s) \subseteq 0..Len(s) /\ Reservations(s) \subseteq 1..Len(s)
           /\ \A i \in Reservations(s) :
                {i} \cup ReceiptsFor(s, i) \subseteq 0..Len(s) /\ ReceiptsFor(s, i) \subseteq 1..Len(s)
           /\ Len(s) \in Nat
  BY DEF Comments, Reservations, ReceiptsFor

(* The newest receipt for the newest reservation is the record.            *)
LEMMA RecordIsLast ==
    ASSUME NEW s \in Comments, NEW i, NEW k, Newest(s, i), Last(s, i, k)
    PROVE  RecordIn(s) = s[k].record
  <1>1. Max(Reservations(s)) = i
    BY Places, LargestIs DEF Newest
  <1>2. \A j \in {i} \cup ReceiptsFor(s, i) : j <= k
    BY Places DEF Last, Newest, ReceiptsFor
  <1>3. Max({i} \cup ReceiptsFor(s, i)) = k
    BY <1>2, Places, LargestIs DEF Last, Newest
  <1> QED
    BY <1>1, <1>3 DEF RecordIn, Newest

(* With a reservation there is such a record.                              *)
LEMMA RecordFrom ==
    ASSUME NEW s \in Comments, Reservations(s) # {}
    PROVE  \E i, k : Newest(s, i) /\ Last(s, i, k) /\ RecordIn(s) = s[k].record
  <1> DEFINE i == Max(Reservations(s))
             k == Max({i} \cup ReceiptsFor(s, i))
  <1>1. Newest(s, i)
    BY Places, Largest DEF Newest
  <1>2. Last(s, i, k)
    <2>1. i \in Reservations(s)
      BY <1>1 DEF Newest
    <2> HIDE DEF i
    <2>2. {i} \cup ReceiptsFor(s, i) \subseteq 0..Len(s) /\ Len(s) \in Nat
      BY <2>1, Places
    <2>3. k \in {i} \cup ReceiptsFor(s, i) /\ \A j \in {i} \cup ReceiptsFor(s, i) : j <= k
      BY <2>2, Largest
    <2> HIDE DEF k
    <2> QED
      BY <2>3 DEF Last
  <1>3. RecordIn(s) = s[k].record
    BY DEF RecordIn
  <1> HIDE DEF i, k
  <1> QED
    BY <1>1, <1>2, <1>3

(* The owner of the record has reserved.                                   *)
LEMMA RecordOwner ==
    ASSUME NEW s \in Comments, RecordIn(s) # None
    PROVE  /\ RecordIn(s) \in RecordType
           /\ \E i \in Reservations(s) : s[i].record.owner = RecordIn(s).owner
  <1>1. Reservations(s) # {}
    BY DEF RecordIn
  <1>2. PICK i, k : Newest(s, i) /\ Last(s, i, k) /\ RecordIn(s) = s[k].record
    BY <1>1, RecordFrom
  <1>3. i \in 1..Len(s) /\ k \in 1..Len(s)
    BY <1>2, Places DEF Newest, Last
  <1>4. s[k] \in EntryType
    BY <1>3 DEF Comments
  <1>5. s[k].record \in RecordType
    BY <1>4 DEF EntryType
  <1> QED
    BY <1>2, <1>5 DEF Newest, Last, ReceiptsFor

-----------------------------------------------------------------------------
(* The records that are written                                            *)

Counts == 0..(Limit + 1)
Continued == -1..(Limit + 1)
Statuses == Terminal \cup {"pending"}

(* The fields of a record, and that it is not None.                        *)
LEMMA RecordFields ==
    ASSUME NEW r \in RecordType
    PROVE  /\ r.owner \in Attempts \cup {None} /\ r.head \in Heads /\ r.status \in Statuses
           /\ r.started \in Int /\ r.ended \in Int /\ r.productive \in Known
           /\ r.incomplete \in Known /\ r.unproductive \in Counts
           /\ r.continuations \in Continued /\ r.preflight \in BOOLEAN /\ r # None
  BY NoneAssumption DEF RecordType, Statuses, Counts, Continued

(* Both tallies stay within the limit.                                     *)
LEMMA ContinuationBounds ==
    ASSUME NEW r \in RecordType \cup {None}
    PROVE  ContinuationCount(r) \in Counts
  BY RecordFields, LimitAssumption DEF ContinuationCount, Counts, Continued

(* A tally that is counted up stays within its cap.                        *)
LEMMA CappedBounds == ASSUME NEW n \in Counts PROVE Capped(n + 1) \in Counts
  BY LimitAssumption DEF Capped, Counts

(* A reservation is a pending record of the attempt that posts it.         *)
LEMMA ReservationOK ==
    ASSUME NEW r \in RecordType \cup {None}, NEW a \in Attempts \cup {None}, NEW h \in Heads,
           NEW t \in Int
    PROVE  /\ Reservation(r, a, h, t) \in RecordType
           /\ Reservation(r, a, h, t).owner = a /\ Reservation(r, a, h, t).status = "pending"
           /\ Reservation(r, a, h, t).head = h
  <1> DEFINE n == Reservation(r, a, h, t)
  <1>1. n.unproductive \in 0..(Limit + 1)
    BY RecordFields, LimitAssumption DEF Reservation, Counts
  <1>2. n.continuations \in -1..(Limit + 1)
    BY ContinuationBounds, LimitAssumption DEF Reservation, Counts
  <1>3. n.productive \in Known /\ n.incomplete \in Known
    BY DEF Reservation, Known
  <1>4. /\ n = [owner |-> a, head |-> h, status |-> "pending", started |-> t, ended |-> t,
                productive |-> n.productive, incomplete |-> n.incomplete,
                unproductive |-> n.unproductive, continuations |-> n.continuations,
                preflight |-> FALSE]
    BY DEF Reservation
  <1>5. n.owner = a /\ n.status = "pending" /\ n.head = h
    BY DEF Reservation
  <1> DEFINE p == n.productive
             i == n.incomplete
             u == n.unproductive
             c == n.continuations
  <1> HIDE DEF n
  <1>6. n \in RecordType
    <2> HIDE DEF p, i, u, c
    <2>1. /\ n = [owner |-> a, head |-> h, status |-> "pending", started |-> t, ended |-> t,
                  productive |-> p, incomplete |-> i, unproductive |-> u,
                  continuations |-> c, preflight |-> FALSE]
      BY <1>4 DEF p, i, u, c
    <2>2. u \in 0..(Limit + 1) /\ c \in -1..(Limit + 1) /\ p \in Known /\ i \in Known
      BY <1>1, <1>2, <1>3 DEF p, i, u, c
    <2> QED
      BY <2>1, <2>2 DEF RecordType
  <1> QED
    BY <1>5, <1>6 DEF n

(* A completion is a closed record of the attempt that holds r.            *)
OutcomeOK(o) ==
    o.success \in BOOLEAN /\ o.productive \in Known /\ o.incomplete \in Known /\ o.preflight \in BOOLEAN

(* It is one of the same owner and head.                                   *)
LEMMA CompletionOK ==
    ASSUME NEW r \in RecordType, NEW o, OutcomeOK(o), NEW t \in Int
    PROVE  /\ Completion(r, o, t) \in RecordType
           /\ Completion(r, o, t).owner = r.owner /\ Completion(r, o, t).status \in Terminal
           /\ Completion(r, o, t).head = r.head
  <1> DEFINE replay     == r.status \in Terminal
             measured   == IF replay THEN r.productive ELSE o.productive
             productive == IF measured = "unknown" /\ r.productive = "no" THEN "no" ELSE measured
             incomplete == IF replay \/ o.incomplete = "unknown" THEN r.incomplete ELSE o.incomplete
             unproductive ==
               CASE productive = "yes"     -> 0
                 [] productive = "unknown" -> r.unproductive
                 [] replay -> IF r.unproductive = 0 THEN 1 ELSE r.unproductive
                 [] OTHER  -> Capped(r.unproductive + 1)
             continuations ==
               CASE incomplete = "no"  -> 0
                 [] incomplete = "yes" -> IF replay THEN ContinuationCount(r)
                                          ELSE Capped(ContinuationCount(r) + 1)
                 [] OTHER -> IF productive = "no" THEN unproductive ELSE r.continuations
             done == [r EXCEPT !.ended = IF replay THEN r.ended ELSE t,
                               !.incomplete = incomplete, !.preflight = o.preflight]
  <1>1. Completion(r, o, t) = IF o.success
                              THEN [done EXCEPT !.status = "completed", !.productive = productive,
                                                !.unproductive = unproductive,
                                                !.continuations = continuations]
                              ELSE [done EXCEPT !.status = "error"]
    BY DEF Completion
  <1>2. productive \in Known /\ incomplete \in Known
    BY RecordFields DEF OutcomeOK, Known
  <1>3. unproductive \in 0..(Limit + 1)
    <2>1. productive \in {"yes", "no", "unknown"}
      BY <1>2 DEF Known
    <2>2. r.unproductive \in Counts /\ Capped(r.unproductive + 1) \in Counts
      BY RecordFields, CappedBounds
    <2>3. 0 \in Counts /\ 1 \in Counts
      BY LimitAssumption DEF Counts
    <2> HIDE DEF productive, replay
    <2>4. unproductive \in Counts
      BY <2>1, <2>2, <2>3
    <2> QED
      BY <2>4 DEF Counts
  <1>4. continuations \in -1..(Limit + 1)
    <2>1. incomplete \in {"yes", "no", "unknown"}
      BY <1>2 DEF Known
    <2>2. ContinuationCount(r) \in Counts /\ Capped(ContinuationCount(r) + 1) \in Counts
      BY ContinuationBounds, CappedBounds
    <2>3. Counts \subseteq Continued /\ 0 \in Counts /\ r.continuations \in Continued
      BY RecordFields, LimitAssumption DEF Counts, Continued
    <2>4. unproductive \in Counts
      BY <1>3 DEF Counts
    <2> HIDE DEF productive, incomplete, unproductive, replay
    <2>5. continuations \in Continued
      BY <2>1, <2>2, <2>3, <2>4
    <2> QED
      BY <2>5 DEF Continued
  <1>5. /\ done \in RecordType /\ done.owner = r.owner /\ done.head = r.head
    <2> DEFINE e == IF replay THEN r.ended ELSE t
               f == o.preflight
    <2>1. e \in Int /\ f \in BOOLEAN
      BY RecordFields DEF OutcomeOK
    <2> HIDE DEF incomplete, e, f
    <2>2. [r EXCEPT !.ended = e, !.incomplete = incomplete, !.preflight = f] \in RecordType
      BY <1>2, <2>1 DEF RecordType
    <2> QED
      BY <2>2 DEF e, f, RecordType
  <1> HIDE DEF productive, unproductive, continuations, done
  <1>6. /\ [done EXCEPT !.status = "completed", !.productive = productive,
                        !.unproductive = unproductive,
                        !.continuations = continuations] \in RecordType
        /\ [done EXCEPT !.status = "error"] \in RecordType
    BY <1>2, <1>3, <1>4, <1>5 DEF RecordType, Terminal
  <1> QED
    BY <1>1, <1>5, <1>6 DEF RecordType, Terminal

-----------------------------------------------------------------------------
(* Comments that are added and replaced                                    *)

Posts(e, a) == e.kind = "reservation" /\ e.record.owner = a
HasPosted(s, a) == \E i \in Reservations(s) : s[i].record.owner = a

(* Every reservation of a has a receipt.                                   *)
ClosedIn(s, a) == \A i \in Reservations(s) : s[i].record.owner = a => ReceiptsFor(s, i) # {}

GoodEntry(e) ==
    /\ e \in EntryType /\ e.record.owner \in Attempts
    /\ e.kind = "reservation" => e.record.status = "pending"
    /\ e.kind = "receipt" => e.record.status \in Terminal

(* An attempt reserves once.                                               *)
Good(s) ==
    /\ s \in Comments /\ \A i \in 1..Len(s) : GoodEntry(s[i])
    /\ \A i, j \in Reservations(s) : s[i].record.owner = s[j].record.owner => i = j

(* A reservation is the first of its attempt, a receipt only replaces one  *)
(* of the same attempt.                                                    *)
Fits(s, e, place) ==
    \/ place = 0 /\ \A a \in Attempts : Posts(e, a) => ~HasPosted(s, a)
    \/ /\ place \in 1..Len(s) /\ e.kind = "receipt" /\ s[place].kind = "receipt"
       /\ s[place].record.owner = e.record.owner

(* What is true of the record as one comment is stored.                    *)
Moves(s, d) ==
    LET r == RecordIn(s)
        n == RecordIn(d)
    IN  r # n => \/ n.status = "pending" /\ ~HasPosted(s, n.owner)
                 \/ r # None /\ n.owner = r.owner /\ n.status \in Terminal

(* A comment is added.                                                     *)
LEMMA AppendOK ==
    ASSUME NEW s, Good(s), NEW e, GoodEntry(e), \A a \in Attempts : Posts(e, a) => ~HasPosted(s, a)
    PROVE  LET d == Append(s, e) IN
           /\ Good(d) /\ Moves(s, d)
           /\ \A a : HasPosted(d, a) <=> HasPosted(s, a) \/ Posts(e, a)
           /\ \A a : ClosedIn(s, a) /\ ~Posts(e, a) => ClosedIn(d, a)
           /\ \A f, p : /\ Fits(s, f, p)
                        /\ \A a : ~(Posts(e, a) /\ Posts(f, a))
                        => Fits(d, f, p)
  <1> DEFINE d == Append(s, e)
             m == Len(s) + 1
  <1>1. /\ d \in Comments /\ Len(d) = m /\ d[m] = e /\ Len(s) \in Nat
        /\ \A i \in 1..Len(s) : d[i] = s[i]
    BY DEF Good, GoodEntry, Comments
  <1>2. DOMAIN s = 1..Len(s) /\ DOMAIN d = 1..m
    BY <1>1 DEF Good, Comments
  <1> HIDE DEF d
  <1>3. Reservations(d) = Reservations(s) \cup (IF e.kind = "reservation" THEN {m} ELSE {})
    BY <1>1, <1>2 DEF Reservations
  <1>4. /\ Reservations(s) \subseteq 1..Len(s)
        /\ \A i \in Reservations(s) : d[i] = s[i] /\ i < m /\ i \in Int
    BY <1>1, <1>2 DEF Reservations
  <1>5. \A i \in Reservations(s) :
          ReceiptsFor(d, i) = ReceiptsFor(s, i)
             \cup (IF e.kind = "receipt" /\ e.record.owner = s[i].record.owner THEN {m} ELSE {})
    BY <1>1, <1>2, <1>4 DEF ReceiptsFor
  <1>6. \A a : HasPosted(d, a) <=> HasPosted(s, a) \/ Posts(e, a)
    BY <1>1, <1>3, <1>4 DEF HasPosted, Posts
  <1>7. \A a : ClosedIn(s, a) /\ ~Posts(e, a) => ClosedIn(d, a)
    BY <1>1, <1>3, <1>4, <1>5 DEF ClosedIn, Posts
  <1>8. Good(d)
    <2>1. \A i \in 1..m : GoodEntry(d[i])
      <3>1. \A i \in 1..m : i = m \/ i \in 1..Len(s)
        BY <1>1
      <3> QED
        BY <1>1, <3>1 DEF Good
    <2>2. \A i, j \in Reservations(d) : d[i].record.owner = d[j].record.owner => i = j
      <3>1. e.kind = "reservation" => \A i \in Reservations(s) : s[i].record.owner # e.record.owner
        BY DEF GoodEntry, Posts, HasPosted
      <3> QED
        BY <1>1, <1>3, <1>4, <3>1 DEF Good
    <2> QED
      BY <1>1, <2>1, <2>2 DEF Good
  <1>9. Moves(s, d)
    <2>1. CASE e.kind = "reservation"
      <3>1. Newest(d, m) /\ Last(d, m, m)
        BY <1>1, <1>3, <1>4, <2>1 DEF Newest, Last, ReceiptsFor
      <3>2. RecordIn(d) = e.record
        BY <1>1, <3>1, RecordIsLast
      <3> QED
        BY <2>1, <3>2 DEF Moves, GoodEntry, Posts
    <2>2. CASE e.kind # "reservation" /\ Reservations(s) = {}
      BY <1>3, <2>2 DEF Moves, RecordIn
    <2>3. CASE e.kind # "reservation" /\ Reservations(s) # {}
      <3>1. PICK i, k : Newest(s, i) /\ Last(s, i, k) /\ RecordIn(s) = s[k].record
        BY <2>3, RecordFrom DEF Good
      <3>2. Newest(d, i) /\ k \in 1..Len(s) /\ d[k] = s[k] /\ i \in Reservations(s)
        BY <1>1, <1>3, <1>4, <2>3, <3>1 DEF Newest, Last, ReceiptsFor
      <3>3. CASE e.record.owner # s[i].record.owner
        <4>1. Last(d, i, k)
          BY <1>5, <3>1, <3>2, <3>3 DEF Last
        <4> QED
          BY <1>1, <3>1, <3>2, <4>1, RecordIsLast DEF Moves
      <3>4. CASE e.record.owner = s[i].record.owner
        <4>1. e.kind = "receipt"
          BY <2>3 DEF GoodEntry, EntryType
        <4>2. Last(d, i, m)
          BY <1>1, <1>4, <1>5, <3>2, <3>4, <4>1 DEF Last, ReceiptsFor
        <4>3. RecordIn(d) = e.record /\ e.record.status \in Terminal
          BY <1>1, <3>2, <4>1, <4>2, RecordIsLast DEF GoodEntry
        <4>4. s[k].record.owner = s[i].record.owner /\ GoodEntry(s[k])
          BY <3>1, <3>2 DEF Last, ReceiptsFor, Good
        <4>5. RecordIn(s) # None
          BY <3>1, <4>4, RecordFields DEF GoodEntry, EntryType
        <4> QED
          BY <3>1, <3>4, <4>3, <4>4, <4>5 DEF Moves
      <3> QED
        BY <3>3, <3>4
    <2> QED
      BY <2>1, <2>2, <2>3
  <1>10. \A f, p : Fits(s, f, p) /\ (\A a : ~(Posts(e, a) /\ Posts(f, a))) => Fits(d, f, p)
    BY <1>1, <1>6 DEF Fits
  <1> QED
    BY <1>6, <1>7, <1>8, <1>9, <1>10 DEF d

(* A receipt is replaced.                                                  *)
LEMMA ReplaceOK ==
    ASSUME NEW s, Good(s), NEW e, GoodEntry(e), e.kind = "receipt", NEW q \in 1..Len(s),
           s[q].kind = "receipt", s[q].record.owner = e.record.owner
    PROVE  LET d == [s EXCEPT ![q] = e] IN
           /\ Good(d) /\ Moves(s, d)
           /\ \A a : HasPosted(d, a) <=> HasPosted(s, a)
           /\ \A a : ClosedIn(s, a) => ClosedIn(d, a)
           /\ \A f, p : Fits(s, f, p) => Fits(d, f, p)
  <1> DEFINE d == [s EXCEPT ![q] = e]
  <1>1. /\ d \in Comments /\ Len(d) = Len(s) /\ d[q] = e /\ Len(s) \in Nat
        /\ \A i \in 1..Len(s) : i # q => d[i] = s[i]
        /\ DOMAIN s = 1..Len(s) /\ DOMAIN d = 1..Len(s)
    BY DEF Good, GoodEntry, Comments
  <1> HIDE DEF d
  <1>2. \A i \in 1..Len(s) : d[i].kind = s[i].kind /\ d[i].record.owner = s[i].record.owner
    BY <1>1
  <1>3. Reservations(d) = Reservations(s)
    BY <1>1, <1>2 DEF Reservations
  <1>4. \A i \in Reservations(s) : d[i] = s[i] /\ i \in 1..Len(s)
    BY <1>1 DEF Reservations
  <1>5. \A i \in Reservations(s) : ReceiptsFor(d, i) = ReceiptsFor(s, i)
    <2> SUFFICES ASSUME NEW i \in Reservations(s) PROVE ReceiptsFor(d, i) = ReceiptsFor(s, i)
      OBVIOUS
    <2>1. \A j \in (i + 1)..Len(s) : j \in 1..Len(s)
      BY <1>1, <1>4
    <2> QED
      BY <1>1, <1>2, <1>4, <2>1 DEF ReceiptsFor
  <1>6. \A a : (HasPosted(d, a) <=> HasPosted(s, a)) /\ (ClosedIn(s, a) => ClosedIn(d, a))
    BY <1>3, <1>4, <1>5 DEF HasPosted, ClosedIn
  <1>7. Good(d)
    BY <1>1, <1>3, <1>4 DEF Good
  <1>8. Moves(s, d)
    <2>1. CASE Reservations(s) = {}
      BY <1>3, <2>1 DEF Moves, RecordIn
    <2>2. CASE Reservations(s) # {}
      <3>1. PICK i, k : Newest(s, i) /\ Last(s, i, k) /\ RecordIn(s) = s[k].record
        BY <2>2, RecordFrom DEF Good
      <3>2. Newest(d, i) /\ Last(d, i, k) /\ k \in 1..Len(s) /\ i \in Reservations(s)
        BY <1>1, <1>3, <1>4, <1>5, <3>1 DEF Newest, Last, ReceiptsFor
      <3>3. RecordIn(d) = d[k].record
        BY <1>1, <3>2, RecordIsLast
      <3>4. CASE k # q
        BY <1>1, <3>1, <3>2, <3>3, <3>4 DEF Moves
      <3>5. CASE k = q
        <4>1. GoodEntry(s[k]) /\ e.record.status \in Terminal
          BY <3>2 DEF Good, GoodEntry
        <4>2. RecordIn(s) # None
          BY <3>1, <4>1, RecordFields DEF GoodEntry, EntryType
        <4> QED
          BY <1>1, <3>1, <3>3, <3>5, <4>1, <4>2 DEF Moves
      <3> QED
        BY <3>4, <3>5
    <2> QED
      BY <2>1, <2>2
  <1>9. \A f, p : Fits(s, f, p) => Fits(d, f, p)
    BY <1>1, <1>2, <1>6 DEF Fits
  <1> QED
    BY <1>6, <1>7, <1>8, <1>9 DEF d

(* Either way.                                                             *)
LEMMA StoredOK ==
    ASSUME NEW s, Good(s), NEW e, GoodEntry(e), NEW p, Fits(s, e, p)
    PROVE  LET d == Stored(s, e, p) IN
           /\ Good(d) /\ Moves(s, d)
           /\ \A a : HasPosted(d, a) <=> HasPosted(s, a) \/ Posts(e, a)
           /\ \A a : ClosedIn(s, a) /\ ~Posts(e, a) => ClosedIn(d, a)
           /\ \A f, q : /\ Fits(s, f, q)
                        /\ \A a : ~(Posts(e, a) /\ Posts(f, a))
                        => Fits(d, f, q)
  <1>1. CASE p = 0 /\ \A a \in Attempts : Posts(e, a) => ~HasPosted(s, a)
    BY <1>1, AppendOK DEF Stored
  <1>2. CASE /\ p \in 1..Len(s) /\ e.kind = "receipt" /\ s[p].kind = "receipt"
             /\ s[p].record.owner = e.record.owner
    <2>1. p # 0 /\ \A a : ~Posts(e, a)
      BY <1>2 DEF Good, Comments, Posts
    <2> QED
      BY <1>2, <2>1, ReplaceOK DEF Stored
  <1> QED
    BY <1>1, <1>2 DEF Fits

-----------------------------------------------------------------------------
(* The invariant                                                           *)

Early == {"new", "read", "prepare", "reread", "post"}

Stages ==
    Early \cup {"granted", "recheck", "reconcile", "release", "readback", "cleanup", "refund",
                "working", "recorded", "close", "record", "ended"}

JobType ==
    [authority : BOOLEAN, closing : BOOLEAN, head : Heads,
     prior : RecordType \cup {None}, mine : RecordType \cup {None}]

AuthType == {"none", "prepared", "consumed", "refunded", "reaped"}

TypeInv ==
    /\ pc \in [Attempts -> Stages] /\ job \in [Attempts -> JobType]
    /\ auth \in [Attempts -> AuthType]
    /\ fallback \in RecordType \cup {None} /\ head \in Heads
    /\ now \in Nat /\ lost \in Nat /\ moves \in Nat

(* A comment that is still under way fits when it arrives.                 *)
StoreOK ==
    /\ Good(comments)
    /\ \A w \in wire : GoodEntry(w.entry) /\ Fits(comments, w.entry, w.place)
    /\ \A v, w \in wire, a \in Attempts : Posts(v.entry, a) /\ Posts(w.entry, a) => v = w

Floats(w, a) == \E x \in w : Posts(x.entry, a)

(* What the place q of attempt a, its job j and its preparation u say of   *)
(* the comments s and of those under way.                                  *)
PlaceAt(s, w, a, q, j, u) ==
    /\ q \in Early => ~HasPosted(s, a) /\ ~Floats(w, a)
    /\ q \in {"granted", "readback", "working"} => HasPosted(s, a)
    /\ q \in {"record", "recheck"} => j.mine # None /\ j.mine.owner = a
    /\ q = "readback" => u = "consumed"
    /\ q = "working" /\ j.authority => u = "consumed"

(* A challenge is given back only when its attempt has never reserved, or  *)
(* after its reservation was closed.                                       *)
RefundAt(s, a, q, u) ==
    /\ q = "release" => ~HasPosted(s, a)
    /\ q = "refund" => ClosedIn(s, a)
    /\ u = "refunded" => q = "ended" /\ ClosedIn(s, a)

Inv ==
    /\ TypeInv /\ StoreOK
    /\ \A a \in Attempts : PlaceAt(comments, wire, a, pc[a], job[a], auth[a])
    /\ ~Late => /\ wire = {}
                /\ \A a \in Attempts : RefundAt(comments, a, pc[a], auth[a])

-----------------------------------------------------------------------------
(* What the comments say of an attempt                                     *)

(* Only a store without a reservation has no record.                       *)
LEMMA NoRecord ==
    ASSUME NEW s, Good(s), RecordIn(s) = None
    PROVE  \A a : ~HasPosted(s, a)
  <1>1. CASE Reservations(s) = {}
    BY <1>1 DEF HasPosted
  <1>2. CASE Reservations(s) # {}
    <2>1. PICK i, k : Newest(s, i) /\ Last(s, i, k) /\ RecordIn(s) = s[k].record
      BY <1>2, RecordFrom DEF Good
    <2>2. k \in 1..Len(s)
      BY <2>1, Places DEF Good, Newest, Last
    <2>3. s[k].record \in RecordType
      BY <2>2 DEF Good, GoodEntry, EntryType
    <2> QED
      BY <2>1, <2>3, RecordFields
  <1> QED
    BY <1>1, <1>2

(* A record that is not pending any more is a receipt for the only         *)
(* reservation of its owner; while it is pending there is none.            *)
LEMMA ClosedRecord ==
    ASSUME NEW s, Good(s), RecordIn(s) # None
    PROVE  ClosedIn(s, RecordIn(s).owner) <=> RecordIn(s).status # "pending"
  <1>1. Reservations(s) # {}
    BY DEF RecordIn
  <1>2. PICK i, k : Newest(s, i) /\ Last(s, i, k) /\ RecordIn(s) = s[k].record
    BY <1>1, RecordFrom DEF Good
  <1>3. /\ i \in Reservations(s) /\ i \in 1..Len(s) /\ k \in 1..Len(s)
        /\ Len(s) \in Nat /\ ReceiptsFor(s, i) \subseteq (i + 1)..Len(s)
        /\ GoodEntry(s[i]) /\ GoodEntry(s[k])
    BY <1>2, Places DEF Good, Newest, Last, ReceiptsFor
  <1>4. s[k].record.owner = s[i].record.owner
    BY <1>2 DEF Last, ReceiptsFor
  <1>5. \A j \in Reservations(s) : s[j].record.owner = s[i].record.owner => j = i
    BY <1>3 DEF Good
  <1>6. ClosedIn(s, RecordIn(s).owner) <=> ReceiptsFor(s, i) # {}
    BY <1>2, <1>3, <1>4, <1>5 DEF ClosedIn
  <1>7. CASE k = i
    <2>1. ReceiptsFor(s, i) = {}
      BY <1>2, <1>3, <1>7 DEF Last
    <2>2. s[k].record.status = "pending"
      BY <1>3, <1>7 DEF GoodEntry, Reservations
    <2> QED
      BY <1>2, <1>6, <2>1, <2>2
  <1>8. CASE k # i
    <2>1. k \in ReceiptsFor(s, i)
      BY <1>2, <1>8 DEF Last
    <2>2. s[k].record.status \in Terminal
      BY <1>3, <2>1 DEF GoodEntry, ReceiptsFor
    <2> QED
      BY <1>2, <1>6, <2>1, <2>2 DEF Terminal
  <1> QED
    BY <1>7, <1>8

(* What is read is a record or None, also when it comes from the fallback. *)
LEMMA PriorOK ==
    ASSUME Inv
    PROVE  /\ RecordIn(comments) \in RecordType \cup {None} /\ Prior \in RecordType \cup {None}
           /\ RecordIn(comments) # None => HasPosted(comments, RecordIn(comments).owner)
  BY RecordOwner DEF Inv, TypeInv, StoreOK, Good, Prior, HasPosted

-----------------------------------------------------------------------------
(* Steps                                                                   *)

(* What one step does to the store, for an attempt that posts e or for     *)
(* none (no e posts for any).                                              *)
Kept(e) ==
    /\ StoreOK' /\ RecordMoves
    /\ ~Late /\ wire = {} => wire' = {}
    /\ \A b : /\ HasPosted(comments, b) => HasPosted(comments', b)
              /\ HasPosted(comments', b) => HasPosted(comments, b) \/ Posts(e, b)
              /\ ClosedIn(comments, b) /\ ~Posts(e, b) => ClosedIn(comments', b)
              /\ Floats(wire', b) => Floats(wire, b) \/ Posts(e, b)

(* The record of the two stores, seen as a step.                           *)
LEMMA MovesRecord ==
    ASSUME Moves(comments, comments') PROVE RecordMoves
  BY DEF Moves, RecordMoves, Reserved, HasPosted

(* A comment is posted, whether its answer comes or not.                   *)
LEMMA PostKeeps ==
    ASSUME StoreOK, NEW e, GoodEntry(e), NEW p, Fits(comments, e, p),
           \A b : Posts(e, b) => ~Floats(wire, b), Put(e, p) \/ PutUnanswered(e, p)
    PROVE  Kept(e)
  <1> DEFINE d == Stored(comments, e, p)
             x == [entry |-> e, place |-> p]
  <1>1. /\ Good(d) /\ Moves(comments, d)
        /\ \A a : HasPosted(d, a) <=> HasPosted(comments, a) \/ Posts(e, a)
        /\ \A a : ClosedIn(comments, a) /\ ~Posts(e, a) => ClosedIn(d, a)
        /\ \A f, q : /\ Fits(comments, f, q)
                     /\ \A a : ~(Posts(e, a) /\ Posts(f, a))
                     => Fits(d, f, q)
    BY StoredOK DEF StoreOK
  <1>2. \A w \in wire : \A b : ~(Posts(e, b) /\ Posts(w.entry, b))
    BY DEF Floats
  <1> HIDE DEF d
  <1>3. CASE comments' = d /\ wire' = wire
    <2>1. StoreOK'
      BY <1>1, <1>2, <1>3 DEF StoreOK
    <2>2. RecordMoves
      BY <1>1, <1>3, MovesRecord
    <2> QED
      BY <1>1, <1>3, <2>1, <2>2 DEF Kept
  <1>4. CASE Late /\ wire' = wire \cup {x} /\ comments' = comments
    <2>1. x.entry = e /\ x.place = p
      OBVIOUS
    <2> HIDE DEF x
    <2>2. \A w \in wire' : GoodEntry(w.entry) /\ Fits(comments, w.entry, w.place)
      BY <1>4, <2>1 DEF StoreOK
    <2>3. \A v, w \in wire', a \in Attempts : Posts(v.entry, a) /\ Posts(w.entry, a) => v = w
      BY <1>2, <1>4, <2>1 DEF StoreOK
    <2>4. StoreOK'
      BY <1>4, <2>2, <2>3 DEF StoreOK
    <2>5. \A b : Floats(wire', b) => Floats(wire, b) \/ Posts(e, b)
      BY <1>4, <2>1 DEF Floats
    <2>6. RecordMoves
      BY <1>4 DEF RecordMoves
    <2> QED
      BY <1>4, <2>4, <2>5, <2>6 DEF Kept
  <1>5. CASE comments' = comments /\ wire' = wire
    <2>1. StoreOK' /\ RecordMoves
      BY <1>5 DEF StoreOK, RecordMoves
    <2> QED
      BY <1>5, <2>1 DEF Kept
  <1> QED
    BY <1>3, <1>4, <1>5 DEF Put, PutUnanswered, d

(* A comment arrives; nobody posts.                                        *)
LEMMA ArrivalKeeps ==
    ASSUME StoreOK, NEW w \in wire, Arrive(w)
    PROVE  /\ StoreOK' /\ RecordMoves
           /\ \A b : /\ HasPosted(comments, b) => HasPosted(comments', b)
                     /\ HasPosted(comments', b) => HasPosted(comments, b) \/ Floats(wire, b)
                     /\ Floats(wire', b) => Floats(wire, b)
  <1> DEFINE e == w.entry
             d == Stored(comments, e, w.place)
  <1>1. /\ Good(d) /\ Moves(comments, d)
        /\ \A a : HasPosted(d, a) <=> HasPosted(comments, a) \/ Posts(e, a)
        /\ \A f, q : /\ Fits(comments, f, q)
                     /\ \A a : ~(Posts(e, a) /\ Posts(f, a))
                     => Fits(d, f, q)
    BY StoredOK DEF StoreOK
  <1>2. comments' = d /\ wire' = wire \ {w}
    BY DEF Arrive
  <1>3. \A v \in wire' : \A b : ~(Posts(e, b) /\ Posts(v.entry, b))
    <2> SUFFICES ASSUME NEW v \in wire', NEW b, Posts(e, b), Posts(v.entry, b) PROVE FALSE
      OBVIOUS
    <2>1. b \in Attempts
      BY DEF StoreOK, GoodEntry, Posts
    <2> QED
      BY <1>2, <2>1 DEF StoreOK
  <1> HIDE DEF d
  <1>4. StoreOK'
    <2>1. \A v \in wire' : GoodEntry(v.entry) /\ Fits(d, v.entry, v.place)
      BY <1>1, <1>2, <1>3 DEF StoreOK
    <2> QED
      BY <1>1, <1>2, <2>1 DEF StoreOK
  <1>5. RecordMoves
    BY <1>1, <1>2, MovesRecord
  <1> QED
    BY <1>1, <1>2, <1>4, <1>5 DEF Floats

(* One attempt goes on, with at most one comment that it posts.            *)
Goes(a, q, j, u) ==
    /\ pc' = [pc EXCEPT ![a] = q] /\ q \in Stages
    /\ job' = [job EXCEPT ![a] = j] /\ j \in JobType
    /\ auth' = [auth EXCEPT ![a] = u] /\ u \in AuthType
    /\ UNCHANGED world /\ lost' \in Nat

(* Then the invariant and the record are kept if its new place is right.   *)
LEMMA AttemptGoes ==
    ASSUME Inv, NEW a \in Attempts, NEW q, NEW j, NEW u, Goes(a, q, j, u), NEW e, Kept(e),
           \A b : Posts(e, b) => b = a /\ pc[a] = "post",
           PlaceAt(comments', wire', a, q, j, u), ~Late => RefundAt(comments', a, q, u)
    PROVE  Inv' /\ RecordMoves
  <1>1. TypeInv'
    BY DEF Inv, TypeInv, Goes, world
  <1>2. \A b \in Attempts : PlaceAt(comments, wire, b, pc[b], job[b], auth[b])
                            /\ pc[b] \in Stages
    BY DEF Inv, TypeInv
  <1>3. \A b \in Attempts : b # a => pc'[b] = pc[b] /\ job'[b] = job[b] /\ auth'[b] = auth[b]
    BY DEF Goes, Inv, TypeInv
  <1>4. pc'[a] = q /\ job'[a] = j /\ auth'[a] = u
    BY DEF Goes, Inv, TypeInv
  <1>5. \A b : b # a => /\ HasPosted(comments', b) <=> HasPosted(comments, b)
                        /\ Floats(wire', b) => Floats(wire, b)
                        /\ ClosedIn(comments, b) => ClosedIn(comments', b)
    BY DEF Kept
  <1>6. \A b \in Attempts : PlaceAt(comments', wire', b, pc'[b], job'[b], auth'[b])
    BY <1>2, <1>3, <1>4, <1>5 DEF PlaceAt
  <1>7. ~Late => wire' = {} /\ \A b \in Attempts : RefundAt(comments', b, pc'[b], auth'[b])
    BY <1>3, <1>4, <1>5 DEF Inv, Kept, RefundAt
  <1> QED
    BY <1>1, <1>6, <1>7 DEF Inv, Kept

(* The store as it is: no comment is posted.                               *)
LEMMA StoreStands ==
    ASSUME Inv, UNCHANGED store
    PROVE  /\ comments' = comments /\ wire' = wire /\ lost' = lost /\ lost' \in Nat
           /\ \E e : Kept(e) /\ \A b : ~Posts(e, b)
  <1> DEFINE e == [kind |-> "none", record |-> None]
  <1>1. \A b : ~Posts(e, b)
    BY DEF Posts
  <1> HIDE DEF e
  <1>2. Kept(e)
    BY DEF Kept, Inv, StoreOK, RecordMoves, store
  <1> QED
    BY <1>1, <1>2 DEF store, Inv, TypeInv

(* So an attempt that posts nothing keeps the invariant if its own place   *)
(* is right.                                                               *)
LEMMA QuietStep ==
    ASSUME Inv, NEW a \in Attempts, NEW q, NEW j, NEW u, UNCHANGED <<store, world>>,
           pc' = [pc EXCEPT ![a] = q], q \in Stages,
           job' = [job EXCEPT ![a] = j], j \in JobType,
           auth' = [auth EXCEPT ![a] = u], u \in AuthType,
           PlaceAt(comments, wire, a, q, j, u), ~Late => RefundAt(comments, a, q, u)
    PROVE  Inv' /\ RecordMoves
  <1>1. PICK e : Kept(e) /\ \A b : ~Posts(e, b)
    BY StoreStands
  <1>2. comments' = comments /\ wire' = wire /\ lost' \in Nat
    BY StoreStands
  <1>3. Goes(a, q, j, u)
    BY <1>2 DEF Goes
  <1>4. PlaceAt(comments', wire', a, q, j, u) /\ (~Late => RefundAt(comments', a, q, u))
    BY <1>2
  <1> QED
    BY <1>1, <1>3, <1>4, AttemptGoes

-----------------------------------------------------------------------------
(* Each step                                                               *)

(* The fields of a job.                                                    *)
LEMMA JobFields ==
    ASSUME NEW j \in JobType
    PROVE  /\ j.authority \in BOOLEAN /\ j.closing \in BOOLEAN /\ j.head \in Heads
           /\ j.prior \in RecordType \cup {None} /\ j.mine \in RecordType \cup {None}
  BY DEF JobType

(* What the invariant says of one attempt.                                 *)
LEMMA Here ==
    ASSUME Inv, NEW a \in Attempts
    PROVE  /\ pc[a] \in Stages /\ job[a] \in JobType /\ auth[a] \in AuthType
           /\ PlaceAt(comments, wire, a, pc[a], job[a], auth[a])
           /\ ~Late => wire = {} /\ RefundAt(comments, a, pc[a], auth[a])
           /\ job' = job => job' = [job EXCEPT ![a] = job[a]]
           /\ auth' = auth => auth' = [auth EXCEPT ![a] = auth[a]]
           /\ pc' = pc => pc' = [pc EXCEPT ![a] = pc[a]]
  BY DEF Inv, TypeInv

(* A changed field leaves the others of the job.                           *)
LEMMA SetPrior ==
    ASSUME Inv, NEW a \in Attempts, NEW v \in RecordType \cup {None}, Set(a, "prior", v)
    PROVE  \E j \in JobType : /\ job' = [job EXCEPT ![a] = j]
                              /\ j.authority = job[a].authority /\ j.mine = job[a].mine
                              /\ j.prior = v /\ j.head = job[a].head /\ j.closing = job[a].closing
  <1> DEFINE j == [job[a] EXCEPT !["prior"] = v]
  <1>1. job[a] \in JobType
    BY Here
  <1>2. /\ j \in JobType /\ j.authority = job[a].authority /\ j.mine = job[a].mine
        /\ j.prior = v /\ j.head = job[a].head /\ j.closing = job[a].closing
    BY <1>1 DEF JobType
  <1>3. job' = [job EXCEPT ![a] = j]
    BY DEF Set
  <1> HIDE DEF j
  <1> QED
    BY <1>2, <1>3

(* The same for the record of its own,                                      *)
LEMMA SetMine ==
    ASSUME Inv, NEW a \in Attempts, NEW v \in RecordType \cup {None}, Set(a, "mine", v)
    PROVE  \E j \in JobType : /\ job' = [job EXCEPT ![a] = j]
                              /\ j.authority = job[a].authority /\ j.mine = v
                              /\ j.closing = job[a].closing
  <1> DEFINE j == [job[a] EXCEPT !["mine"] = v]
  <1>1. job[a] \in JobType
    BY Here
  <1>2. /\ j \in JobType /\ j.authority = job[a].authority /\ j.mine = v
        /\ j.closing = job[a].closing
    BY <1>1 DEF JobType
  <1>3. job' = [job EXCEPT ![a] = j]
    BY DEF Set
  <1> HIDE DEF j
  <1> QED
    BY <1>2, <1>3

(* for the mark that it gives the challenge back,                          *)
LEMMA SetClosing ==
    ASSUME Inv, NEW a \in Attempts, Set(a, "closing", TRUE)
    PROVE  \E j \in JobType : /\ job' = [job EXCEPT ![a] = j]
                              /\ j.authority = job[a].authority /\ j.mine = job[a].mine
  <1> DEFINE j == [job[a] EXCEPT !["closing"] = TRUE]
  <1>1. job[a] \in JobType
    BY Here
  <1>2. j \in JobType /\ j.authority = job[a].authority /\ j.mine = job[a].mine
    BY <1>1 DEF JobType
  <1>3. job' = [job EXCEPT ![a] = j]
    BY DEF Set
  <1> HIDE DEF j
  <1> QED
    BY <1>2, <1>3

(* and for both records when a command exits.                              *)
LEMMA Forgets ==
    ASSUME Inv, NEW a \in Attempts, Forget(a)
    PROVE  \E j \in JobType : /\ job' = [job EXCEPT ![a] = j]
                              /\ j.authority = job[a].authority /\ j.closing = job[a].closing
  <1> DEFINE j == [job[a] EXCEPT !.prior = None, !.mine = None]
  <1>1. job[a] \in JobType
    BY Here
  <1>2. /\ j \in JobType /\ j.authority = job[a].authority
        /\ j.closing = job[a].closing
    BY <1>1 DEF JobType
  <1>3. job' = [job EXCEPT ![a] = j]
    BY DEF Forget
  <1> HIDE DEF j
  <1> QED
    BY <1>2, <1>3

(* Before the reservation nothing changes but the place.                   *)
LEMMA EarlyStep ==
    ASSUME Inv, NEW a \in Attempts, Start(a) \/ Read(a) \/ Prepare(a) \/ Reread(a)
    PROVE  Inv' /\ RecordMoves
  <1>1. /\ pc[a] \in Early /\ UNCHANGED <<store, world>>
    BY DEF Start, Read, Prepare, Reread, At, Early
  <1>2. PICK q \in {"read", "prepare", "reread", "post", "release", "ended"} :
          pc' = [pc EXCEPT ![a] = q]
    BY DEF Start, Read, Prepare, Reread, Goto
  <1>3. PICK j \in JobType : job' = [job EXCEPT ![a] = j]
    <2>1. CASE Start(a)
      <3>1. PICK v \in BOOLEAN :
              job' = [job EXCEPT ![a] = [@ EXCEPT !.authority = v, !.head = head]]
        BY <2>1 DEF Start
      <3> DEFINE j == [job[a] EXCEPT !.authority = v, !.head = head]
      <3>2. job[a] \in JobType /\ head \in Heads
        BY Here DEF Inv, TypeInv
      <3>3. j \in JobType
        BY <3>2 DEF JobType
      <3> QED
        BY <3>1, <3>3
    <2>2. CASE job' = job
      BY <2>2, Here
    <2>3. CASE Set(a, "prior", Prior)
      BY <2>3, PriorOK, SetPrior
    <2> QED
      BY <2>1, <2>2, <2>3 DEF Read, Prepare, Reread
  <1>4. PICK u \in AuthType : /\ auth' = [auth EXCEPT ![a] = u]
                              /\ u = auth[a] \/ u = "prepared"
    BY Here DEF Start, Read, Prepare, Reread, AuthType
  <1>5. q \in Stages
    BY DEF Stages, Early
  <1>6. ~HasPosted(comments, a) /\ ~Floats(wire, a)
    BY <1>1, Here DEF PlaceAt
  <1>7. PlaceAt(comments, wire, a, q, j, u)
    BY <1>6 DEF PlaceAt
  <1>8. ~Late => RefundAt(comments, a, q, u)
    <2>1. ~Late => auth[a] # "refunded"
      BY <1>1, Here DEF RefundAt, Early
    <2> QED
      BY <1>4, <1>6, <2>1 DEF RefundAt
  <1> QED
    BY <1>1, <1>2, <1>3, <1>4, <1>5, <1>7, <1>8, QuietStep

(* A pending reservation of an attempt's own is one it has posted.         *)
LEMMA OwnedIsPosted ==
    ASSUME Inv, NEW a \in Attempts, Owns(a, RecordIn(comments))
    PROVE  HasPosted(comments, a)
  BY PriorOK DEF Owns

(* The reservation is the first of its attempt, stored, lost or late.      *)
LEMMA ReserveStep ==
    ASSUME Inv, NEW a \in Attempts, Reserve(a)
    PROVE  Inv' /\ RecordMoves
  <1> DEFINE r == Reservation(job[a].prior, a, job[a].head, now)
             e == Entry("reservation", r)
  <1>1. pc[a] = "post" /\ auth' = auth /\ UNCHANGED world
    BY DEF Reserve, At
  <1>2. job[a].prior \in RecordType \cup {None} /\ job[a].head \in Heads /\ now \in Int
    BY Here, JobFields DEF Inv, TypeInv
  <1>3. r \in RecordType /\ r.owner = a /\ r.status = "pending"
    BY <1>2, ReservationOK
  <1>4. e.kind = "reservation" /\ e.record = r
    BY DEF Entry
  <1>5. \/ Put(e, 0) /\ Forget(a) /\ Goto(a, "granted")
        \/ PutUnanswered(e, 0) /\ Set(a, "mine", r) /\ Goto(a, "recheck")
    BY DEF Reserve
  <1>6. e \in EntryType
    BY <1>3 DEF EntryType, Entry
  <1> HIDE DEF r, e
  <1>7. GoodEntry(e) /\ \A b : Posts(e, b) => b = a
    BY <1>3, <1>4, <1>6 DEF GoodEntry, Posts
  <1>8. ~HasPosted(comments, a) /\ ~Floats(wire, a)
    BY <1>1, Here DEF PlaceAt, Early
  <1>9. Fits(comments, e, 0)
    BY <1>7, <1>8 DEF Fits
  <1>10. Kept(e)
    BY <1>5, <1>7, <1>8, <1>9, PostKeeps DEF Inv
  <1>11. auth' = [auth EXCEPT ![a] = auth[a]] /\ auth[a] \in AuthType
    BY <1>1, Here
  <1>12. ~Late => auth[a] # "refunded"
    BY <1>1, Here DEF RefundAt
  <1>13. CASE Put(e, 0) /\ Forget(a) /\ Goto(a, "granted")
    <2>1. PICK j \in JobType : job' = [job EXCEPT ![a] = j]
      BY <1>13, Forgets
    <2>2. Goes(a, "granted", j, auth[a])
      BY <1>1, <1>11, <1>13, <2>1 DEF Goes, Goto, Put, Inv, TypeInv, Stages
    <2>3. HasPosted(comments', a)
      <3>1. comments' = Stored(comments, e, 0) /\ Posts(e, a)
        BY <1>3, <1>4, <1>13 DEF Put, Posts
      <3>2. HasPosted(Stored(comments, e, 0), a)
        BY <1>7, <1>9, <3>1, StoredOK DEF Inv, StoreOK
      <3> QED
        BY <3>1, <3>2
    <2>4. PlaceAt(comments', wire', a, "granted", j, auth[a])
      BY <2>3 DEF PlaceAt, Early
    <2>5. ~Late => RefundAt(comments', a, "granted", auth[a])
      BY <1>12 DEF RefundAt
    <2> QED
      BY <1>1, <1>7, <1>10, <2>2, <2>4, <2>5, AttemptGoes
  <1>14. CASE PutUnanswered(e, 0) /\ Set(a, "mine", r) /\ Goto(a, "recheck")
    <2>1. PICK j \in JobType : job' = [job EXCEPT ![a] = j] /\ j.mine = r
      BY <1>3, <1>14, SetMine
    <2>2. Goes(a, "recheck", j, auth[a])
      <3>1. lost' \in Nat
        BY <1>14 DEF PutUnanswered, Inv, TypeInv
      <3> QED
        BY <1>1, <1>11, <1>14, <2>1, <3>1 DEF Goes, Goto, Stages
    <2>3. PlaceAt(comments', wire', a, "recheck", j, auth[a])
      BY <1>3, <2>1, RecordFields DEF PlaceAt, Early
    <2>4. ~Late => RefundAt(comments', a, "recheck", auth[a])
      BY <1>12 DEF RefundAt
    <2> QED
      BY <1>1, <1>7, <1>10, <2>2, <2>3, <2>4, AttemptGoes
  <1> QED
    BY <1>5, <1>13, <1>14

(* After a post without an answer: a grant needs a reservation that is     *)
(* read, and a release a store without any.                                *)
LEMMA DoubtStep ==
    ASSUME Inv, NEW a \in Attempts, Recheck(a) \/ Reconcile(a)
    PROVE  Inv' /\ RecordMoves
  <1>1. /\ pc[a] \in {"recheck", "reconcile"} /\ UNCHANGED <<store, world>> /\ auth' = auth
    BY DEF Recheck, Reconcile, At
  <1>2. PICK q \in {"granted", "ended", "reconcile", "release"} :
          /\ pc' = [pc EXCEPT ![a] = q]
          /\ q = "granted" => HasPosted(comments, a)
          /\ q = "release" => ~HasPosted(comments, a)
    <2>1. CASE Recheck(a)
      <3>1. job[a].mine # None /\ job[a].mine.owner = a
        BY <2>1, Here DEF Recheck, At, PlaceAt
      <3>2. RecordIn(comments) = job[a].mine => HasPosted(comments, a)
        BY <3>1, PriorOK
      <3> QED
        BY <2>1, <3>2 DEF Recheck, Goto
    <2>2. CASE Reconcile(a)
      <3>1. RecordIn(comments) = None => ~HasPosted(comments, a)
        BY NoRecord DEF Inv, StoreOK
      <3>2. OwnsPending(a, RecordIn(comments)) => HasPosted(comments, a)
        BY OwnedIsPosted DEF OwnsPending
      <3> QED
        BY <2>2, <3>1, <3>2 DEF Reconcile, Goto
    <2> QED
      BY <2>1, <2>2
  <1>3. PICK j \in JobType : job' = [job EXCEPT ![a] = j]
    BY Forgets, Here DEF Recheck, Reconcile
  <1>4. auth' = [auth EXCEPT ![a] = auth[a]] /\ auth[a] \in AuthType
    BY <1>1, Here
  <1>5. ~Late => auth[a] # "refunded"
    BY <1>1, Here DEF RefundAt
  <1>6. q \in Stages
    BY DEF Stages
  <1>7. PlaceAt(comments, wire, a, q, j, auth[a])
    BY <1>2 DEF PlaceAt, Early
  <1>8. ~Late => RefundAt(comments, a, q, auth[a])
    BY <1>2, <1>5 DEF RefundAt
  <1> QED
    BY <1>1, <1>2, <1>3, <1>4, <1>6, <1>7, <1>8, QuietStep

(* With the slot, up to the close of the reservation: the challenge is     *)
(* consumed before any work on it.                                         *)
LEMMA GrantStep ==
    ASSUME Inv, NEW a \in Attempts,
           Begin(a) \/ FailPreflight(a) \/ Finalize(a) \/ ReadBack(a)
    PROVE  Inv' /\ RecordMoves
  <1>1. /\ pc[a] \in {"granted", "readback"} /\ UNCHANGED <<store, world>> /\ job' = job
    BY DEF Begin, FailPreflight, Finalize, ReadBack, At
  <1>2. /\ HasPosted(comments, a)
        /\ pc[a] = "readback" => auth[a] = "consumed"
        /\ ~Late => auth[a] # "refunded"
    BY <1>1, Here DEF PlaceAt, RefundAt
  <1> DEFINE D(q, u) == /\ pc' = [pc EXCEPT ![a] = q] /\ auth' = [auth EXCEPT ![a] = u]
                        /\ q \in {"working", "cleanup", "readback"} /\ u \in {auth[a], "consumed"}
                        /\ q = "readback" => u = "consumed"
                        /\ q = "working" => ~job[a].authority \/ u = "consumed"
  <1>3. \E q, u : D(q, u)
    <2>1. CASE Begin(a)
      <3>1. D("working", auth[a])
        BY <2>1, Here DEF Begin, Goto
      <3> HIDE DEF D
      <3> QED
        BY <3>1
    <2>2. CASE FailPreflight(a)
      <3>1. D("cleanup", auth[a])
        BY <2>2, Here DEF FailPreflight, Goto
      <3> HIDE DEF D
      <3> QED
        BY <3>1
    <2>3. CASE Finalize(a)
      <3>1. \/ D("readback", "consumed") \/ D("cleanup", "consumed") \/ D("cleanup", auth[a])
        BY <2>3, Here DEF Finalize, Goto
      <3> HIDE DEF D
      <3> QED
        BY <3>1
    <2>4. CASE ReadBack(a)
      <3>1. D("working", auth[a]) \/ D("cleanup", auth[a])
        BY <1>2, <2>4, Here DEF ReadBack, At, Goto
      <3> HIDE DEF D
      <3> QED
        BY <3>1
    <2> QED
      BY <2>1, <2>2, <2>3, <2>4
  <1> HIDE DEF D
  <1>8. PICK q, u : D(q, u)
    BY <1>3
  <1> USE DEF D
  <1>4. job' = [job EXCEPT ![a] = job[a]] /\ job[a] \in JobType /\ auth[a] \in AuthType
    BY <1>1, Here
  <1>5. q \in Stages /\ u \in AuthType
    BY <1>4, <1>8 DEF Stages, AuthType
  <1>6. PlaceAt(comments, wire, a, q, job[a], u)
    BY <1>2, <1>8 DEF PlaceAt, Early
  <1>7. ~Late => RefundAt(comments, a, q, u)
    BY <1>2, <1>8 DEF RefundAt
  <1> QED
    BY <1>1, <1>4, <1>5, <1>6, <1>7, <1>8, QuietStep

(* A challenge is given back only behind a closed reservation.             *)
LEMMA CleanupStep ==
    ASSUME Inv, NEW a \in Attempts, Cleanup(a)
    PROVE  Inv' /\ RecordMoves
  <1> DEFINE r == RecordIn(comments)
  <1>1. /\ pc[a] = "cleanup" /\ UNCHANGED <<store, world>> /\ auth' = auth
    BY DEF Cleanup, At
  <1>2. PICK q \in {"close", "refund", "ended"} :
          /\ pc' = [pc EXCEPT ![a] = q]
          /\ q = "refund" => Owns(a, r) /\ r.status = "error"
    BY DEF Cleanup, Goto
  <1>3. q = "refund" => ClosedIn(comments, a)
    BY <1>2, ClosedRecord DEF Owns, Inv, StoreOK
  <1>4. PICK j \in JobType : job' = [job EXCEPT ![a] = j]
    <2>1. CASE job' = job
      BY <2>1, Here
    <2>2. CASE Set(a, "closing", TRUE)
      BY <2>2, SetClosing
    <2> QED
      BY <2>1, <2>2 DEF Cleanup
  <1>5. auth' = [auth EXCEPT ![a] = auth[a]] /\ auth[a] \in AuthType
    BY <1>1, Here
  <1>6. ~Late => auth[a] # "refunded"
    BY <1>1, Here DEF RefundAt
  <1>7. q \in Stages
    BY DEF Stages
  <1>8. PlaceAt(comments, wire, a, q, j, auth[a])
    BY <1>2 DEF PlaceAt, Early
  <1>9. ~Late => RefundAt(comments, a, q, auth[a])
    BY <1>2, <1>3, <1>6 DEF RefundAt
  <1> QED
    BY <1>1, <1>2, <1>4, <1>5, <1>7, <1>8, <1>9, QuietStep

(* So it is given back only by an attempt that is over.                    *)
LEMMA RefundStep ==
    ASSUME Inv, NEW a \in Attempts, Refund(a)
    PROVE  Inv' /\ RecordMoves
  <1> DEFINE u == IF auth[a] = "prepared" THEN "refunded" ELSE auth[a]
  <1>1. /\ pc[a] \in {"release", "refund"} /\ UNCHANGED <<store, world>> /\ job' = job
        /\ pc' = [pc EXCEPT ![a] = "ended"] /\ auth' = [auth EXCEPT ![a] = u]
    BY DEF Refund, At, Goto
  <1>2. job' = [job EXCEPT ![a] = job[a]] /\ job[a] \in JobType
    BY <1>1, Here
  <1>3. u \in AuthType
    BY Here DEF AuthType
  <1>4. ~Late => ClosedIn(comments, a)
    BY <1>1, Here DEF RefundAt, ClosedIn, HasPosted
  <1> HIDE DEF u
  <1>5. PlaceAt(comments, wire, a, "ended", job[a], u)
    BY DEF PlaceAt, Early
  <1>6. ~Late => RefundAt(comments, a, "ended", u)
    BY <1>4 DEF RefundAt
  <1> QED
    BY <1>1, <1>2, <1>3, <1>5, <1>6, QuietStep DEF Stages

(* A completion starts from the record of its own.                         *)
LEMMA CompleteStep ==
    ASSUME Inv, NEW a \in Attempts, Complete(a)
    PROVE  Inv' /\ RecordMoves
  <1>1. /\ pc[a] \in {"working", "recorded", "close"} /\ UNCHANGED <<store, world>> /\ auth' = auth
    BY DEF Complete
  <1>2. auth' = [auth EXCEPT ![a] = auth[a]] /\ auth[a] \in AuthType
    BY <1>1, Here
  <1>3. ~Late => auth[a] # "refunded"
    BY <1>1, Here DEF RefundAt
  <1>4. CASE /\ Owns(a, RecordIn(comments)) /\ Set(a, "mine", RecordIn(comments))
             /\ Goto(a, "record")
    <2>1. PICK j \in JobType : job' = [job EXCEPT ![a] = j] /\ j.mine = RecordIn(comments)
      BY <1>4, PriorOK, SetMine
    <2>2. PlaceAt(comments, wire, a, "record", j, auth[a])
      BY <1>4, <2>1 DEF PlaceAt, Early, Owns
    <2>3. ~Late => RefundAt(comments, a, "record", auth[a])
      BY <1>3 DEF RefundAt
    <2>4. pc' = [pc EXCEPT ![a] = "record"] /\ "record" \in Stages
      BY <1>4 DEF Goto, Stages
    <2> QED
      BY <1>1, <1>2, <2>1, <2>2, <2>3, <2>4, QuietStep
  <1>5. CASE job' = job /\ Goto(a, "ended")
    <2>1. job' = [job EXCEPT ![a] = job[a]] /\ job[a] \in JobType
      BY <1>5, Here
    <2>2. PlaceAt(comments, wire, a, "ended", job[a], auth[a])
      BY DEF PlaceAt, Early
    <2>3. ~Late => RefundAt(comments, a, "ended", auth[a])
      BY <1>3 DEF RefundAt
    <2>4. pc' = [pc EXCEPT ![a] = "ended"] /\ "ended" \in Stages
      BY <1>5 DEF Goto, Stages
    <2> QED
      BY <1>1, <1>2, <2>1, <2>2, <2>3, <2>4, QuietStep
  <1> QED
    BY <1>4, <1>5 DEF Complete

(* Wherever a run is stopped, it does nothing any more.                    *)
LEMMA StopStep ==
    ASSUME Inv, NEW a \in Attempts, Stop(a)
    PROVE  Inv' /\ RecordMoves
  <1>1. /\ pc[a] \notin Inactive /\ UNCHANGED <<store, world>> /\ auth' = auth
        /\ pc' = [pc EXCEPT ![a] = "ended"]
    BY DEF Stop, Goto
  <1>2. PICK j \in JobType : job' = [job EXCEPT ![a] = j]
    BY Forgets DEF Stop
  <1>3. auth' = [auth EXCEPT ![a] = auth[a]] /\ auth[a] \in AuthType
    BY <1>1, Here
  <1>4. PlaceAt(comments, wire, a, "ended", j, auth[a])
    BY DEF PlaceAt, Early
  <1>5. ~Late => RefundAt(comments, a, "ended", auth[a])
    BY Here DEF RefundAt
  <1> QED
    BY <1>1, <1>2, <1>3, <1>4, <1>5, QuietStep DEF Stages

(* A reaped preparation is not consumed.                                   *)
LEMMA ReapStep ==
    ASSUME Inv, NEW a \in Attempts, Reap(a)
    PROVE  Inv' /\ RecordMoves
  <1>1. /\ auth[a] = "prepared" /\ auth' = [auth EXCEPT ![a] = "reaped"]
        /\ UNCHANGED <<store, world>> /\ pc' = pc /\ job' = job
    BY DEF Reap
  <1>2. /\ pc' = [pc EXCEPT ![a] = pc[a]] /\ job' = [job EXCEPT ![a] = job[a]]
        /\ pc[a] \in Stages /\ job[a] \in JobType
    BY <1>1, Here
  <1>3. PlaceAt(comments, wire, a, pc[a], job[a], "reaped")
    BY <1>1, Here DEF PlaceAt
  <1>4. ~Late => RefundAt(comments, a, pc[a], "reaped")
    BY <1>1, Here DEF RefundAt
  <1> QED
    BY <1>1, <1>2, <1>3, <1>4, QuietStep DEF AuthType

(* The own receipt that a new one replaces is newer than any reservation.  *)
LEMMA PlaceOfReceipt ==
    ASSUME Good(comments), NEW a
    PROVE  \/ ReceiptPlace(a) = 0
           \/ /\ ReceiptPlace(a) \in 1..Len(comments)
              /\ comments[ReceiptPlace(a)].kind = "receipt"
              /\ comments[ReceiptPlace(a)].record.owner = a
              /\ \A i \in Reservations(comments) : i < ReceiptPlace(a)
  <1> DEFINE newest == Max({0} \cup Reservations(comments))
             own == {j \in DOMAIN comments : /\ j > newest
                                             /\ comments[j].kind = "receipt"
                                             /\ comments[j].record.owner = a}
  <1>1. /\ Len(comments) \in Nat /\ DOMAIN comments = 1..Len(comments)
        /\ {0} \cup Reservations(comments) \subseteq 0..Len(comments)
    BY Places DEF Good, Comments
  <1>2. newest \in 0..Len(comments) /\ \A i \in Reservations(comments) : i <= newest
    BY <1>1, Largest
  <1>3. {0} \cup own \subseteq 0..Len(comments)
    BY <1>1
  <1>4. Max({0} \cup own) \in {0} \cup own
    BY <1>1, <1>3, Largest
  <1>5. ReceiptPlace(a) = Max({0} \cup own)
    BY DEF ReceiptPlace
  <1> HIDE DEF newest
  <1>6. CASE ReceiptPlace(a) = 0
    BY <1>6
  <1>7. CASE ReceiptPlace(a) \in own
    <2>1. \A i \in Reservations(comments) : i \in Int /\ i < ReceiptPlace(a)
      BY <1>1, <1>2, <1>7
    <2> QED
      BY <1>1, <1>7, <2>1
  <1> QED
    BY <1>4, <1>5, <1>6, <1>7

(* A receipt that is stored closes the reservation of its attempt.         *)
LEMMA ReceiptCloses ==
    ASSUME Good(comments), NEW a, NEW e \in EntryType, e.kind = "receipt", e.record.owner = a
    PROVE  ClosedIn(Stored(comments, e, ReceiptPlace(a)), a)
  <1> DEFINE p == ReceiptPlace(a)
             d == Stored(comments, e, p)
             n == Len(comments)
  <1>1. /\ comments \in Comments /\ n \in Nat /\ DOMAIN comments = 1..n
        /\ Reservations(comments) \subseteq 1..n
    BY Places DEF Good, Comments
  <1>2. CASE p = 0
    <2>1. d = Append(comments, e)
      BY <1>2 DEF Stored
    <2> HIDE DEF d
    <2>2. /\ Len(d) = n + 1 /\ DOMAIN d = 1..(n + 1) /\ d[n + 1] = e
          /\ \A i \in 1..n : d[i] = comments[i]
      BY <1>1, <2>1 DEF Comments
    <2>3. \A i \in Reservations(d) : i \in 1..n
      BY <1>1, <2>2 DEF Reservations
    <2>4. \A i \in Reservations(d) : d[i].record.owner = a => n + 1 \in ReceiptsFor(d, i)
      BY <1>1, <2>2, <2>3 DEF ReceiptsFor
    <2> QED
      BY <2>4 DEF ClosedIn, d
  <1>3. CASE /\ p \in 1..n /\ comments[p].kind = "receipt"
             /\ \A i \in Reservations(comments) : i < p
    <2> HIDE DEF p
    <2>5. p # 0
      BY <1>1, <1>3
    <2>1. d = [comments EXCEPT ![p] = e]
      BY <2>5 DEF Stored
    <2> HIDE DEF d
    <2>2. /\ Len(d) = n /\ DOMAIN d = 1..n /\ d[p] = e
          /\ \A i \in 1..n : i # p => d[i] = comments[i]
      BY <1>1, <1>3, <2>1 DEF Comments
    <2>3. \A i \in Reservations(d) : i \in Reservations(comments) /\ i \in 1..n
      BY <1>1, <1>3, <2>2 DEF Reservations
    <2>4. \A i \in Reservations(d) : d[i].record.owner = a => p \in ReceiptsFor(d, i)
      BY <1>1, <1>3, <2>2, <2>3 DEF ReceiptsFor
    <2> QED
      BY <2>4 DEF ClosedIn, d, p
  <1> QED
    BY <1>2, <1>3, PlaceOfReceipt

(* What a run reports is an outcome.                                       *)
LEMMA ReportedOK ==
    ASSUME NEW a, NEW o \in Reported(a)
    PROVE  OutcomeOK(o)
  <1>1. OutcomeOK(PreflightFailed)
    BY DEF PreflightFailed, OutcomeOK, Known
  <1>2. \A h : \A x \in Outcomes(h) : OutcomeOK(x)
    <2>1. OutcomeOK(Outcome(TRUE, "unknown", "unknown")) /\ OutcomeOK(Outcome(TRUE, "yes", "no"))
      BY DEF Outcome, OutcomeOK, Known
    <2>2. /\ OutcomeOK(Outcome(FALSE, "unknown", "unknown"))
          /\ OutcomeOK(Outcome(FALSE, "unknown", "yes"))
      BY DEF Outcome, OutcomeOK, Known
    <2>3. \A x \in OutcomeType : OutcomeOK(x)
      BY DEF OutcomeType, OutcomeOK
    <2> QED
      BY <2>1, <2>2, <2>3 DEF Outcomes
  <1> QED
    BY <1>1, <1>2 DEF Reported

(* The receipt closes the reservation of its attempt and moves nothing else.*)
LEMMA RecordStep ==
    ASSUME Inv, NEW a \in Attempts, Record(a)
    PROVE  Inv' /\ RecordMoves
  <1>1. pc[a] = "record" /\ Forget(a) /\ auth' = auth /\ UNCHANGED world
    BY DEF Record, At
  <1>2. PICK o \in Reported(a) :
          LET e == Entry("receipt", Completion(job[a].mine, o, now)) IN
             \/ /\ Put(e, ReceiptPlace(a))
                /\ Goto(a, IF job[a].closing THEN "refund" ELSE "recorded")
             \/ /\ PutUnanswered(e, ReceiptPlace(a))
                /\ Goto(a, IF job[a].closing THEN "cleanup" ELSE "recorded")
    BY DEF Record
  <1> DEFINE c == Completion(job[a].mine, o, now)
             e == Entry("receipt", c)
             p == ReceiptPlace(a)
  <1>3. job[a].mine \in RecordType /\ job[a].mine.owner = a /\ now \in Int
    BY <1>1, Here, JobFields DEF PlaceAt, Inv, TypeInv
  <1>4. c \in RecordType /\ c.owner = a /\ c.status \in Terminal
    BY <1>3, ReportedOK, CompletionOK
  <1>5. \/ Put(e, p) /\ pc' = [pc EXCEPT ![a] = IF job[a].closing THEN "refund" ELSE "recorded"]
        \/ /\ PutUnanswered(e, p)
           /\ pc' = [pc EXCEPT ![a] = IF job[a].closing THEN "cleanup" ELSE "recorded"]
    BY <1>2 DEF Goto
  <1> HIDE DEF c
  <1>6. /\ e \in EntryType /\ e.kind = "receipt" /\ e.record.owner = a
        /\ e.record.status \in Terminal
    BY <1>4 DEF EntryType, Entry
  <1> HIDE DEF e
  <1>7. GoodEntry(e) /\ \A b : ~Posts(e, b)
    BY <1>6 DEF GoodEntry, Posts
  <1>8. Fits(comments, e, p)
    BY <1>6, <1>7, PlaceOfReceipt DEF Fits, Inv, StoreOK
  <1>9. ClosedIn(Stored(comments, e, p), a)
    BY <1>6, ReceiptCloses DEF Inv, StoreOK
  <1> HIDE DEF p
  <1>10. Kept(e)
    BY <1>5, <1>7, <1>8, PostKeeps DEF Inv
  <1>11. PICK q \in {"refund", "recorded", "cleanup"} :
           pc' = [pc EXCEPT ![a] = q] /\ (q = "refund" => ClosedIn(comments', a))
    <2>1. Put(e, p) => ClosedIn(comments', a)
      BY <1>9 DEF Put
    <2>2. CASE Put(e, p) /\ pc' = [pc EXCEPT ![a] = IF job[a].closing THEN "refund" ELSE "recorded"]
      BY <2>1, <2>2
    <2>3. CASE pc' = [pc EXCEPT ![a] = IF job[a].closing THEN "cleanup" ELSE "recorded"]
      BY <2>3
    <2> QED
      BY <1>5, <2>2, <2>3
  <1>12. PICK j \in JobType : job' = [job EXCEPT ![a] = j]
    BY <1>1, Forgets
  <1>13. auth' = [auth EXCEPT ![a] = auth[a]] /\ auth[a] \in AuthType
    BY <1>1, Here
  <1>14. lost' \in Nat
    BY <1>5 DEF Put, PutUnanswered, Inv, TypeInv
  <1>15. Goes(a, q, j, auth[a])
    BY <1>1, <1>11, <1>12, <1>13, <1>14 DEF Goes, Stages
  <1>16. PlaceAt(comments', wire', a, q, j, auth[a])
    BY <1>11 DEF PlaceAt, Early
  <1>17. ~Late => RefundAt(comments', a, q, auth[a])
    <2>1. ~Late => auth[a] # "refunded"
      BY <1>1, Here DEF RefundAt
    <2> QED
      BY <1>11, <2>1 DEF RefundAt
  <1> QED
    BY <1>7, <1>10, <1>15, <1>16, <1>17, AttemptGoes

(* A late comment finds no attempt that has yet to reserve.                *)
LEMMA ArriveStep ==
    ASSUME Inv, NEW w \in wire, Arrive(w)
    PROVE  Inv' /\ RecordMoves
  <1>1. /\ StoreOK' /\ RecordMoves
        /\ \A b : /\ HasPosted(comments, b) => HasPosted(comments', b)
                  /\ HasPosted(comments', b) => HasPosted(comments, b) \/ Floats(wire, b)
                  /\ Floats(wire', b) => Floats(wire, b)
    BY ArrivalKeeps DEF Inv
  <1>2. UNCHANGED <<lost, world, pc, job, auth>>
    BY DEF Arrive
  <1>3. TypeInv'
    BY <1>2 DEF Inv, TypeInv, world
  <1>4. \A b \in Attempts : PlaceAt(comments', wire', b, pc'[b], job'[b], auth'[b])
    BY <1>1, <1>2, Here DEF PlaceAt
  <1>5. Late
    BY DEF Inv
  <1> QED
    BY <1>1, <1>3, <1>4, <1>5 DEF Inv

(* The clock, the head, and steps that change nothing.                     *)
LEMMA WorldStep ==
    ASSUME Inv, Tick \/ MoveHead \/ UNCHANGED vars
    PROVE  Inv' /\ RecordMoves
  <1>1. UNCHANGED <<comments, wire, lost, fallback, pc, job, auth>>
    BY DEF Tick, MoveHead, vars, store, world
  <1>2. TypeInv'
    <2>1. CASE Tick
      BY <1>1, <2>1 DEF Tick, Inv, TypeInv
    <2>2. CASE MoveHead
      BY <1>1, <2>2 DEF MoveHead, Inv, TypeInv
    <2>3. CASE UNCHANGED vars
      BY <1>1, <2>3 DEF vars, world, Inv, TypeInv
    <2> QED
      BY <2>1, <2>2, <2>3
  <1>3. StoreOK' /\ RecordMoves
    BY <1>1 DEF Inv, StoreOK, RecordMoves
  <1> QED
    BY <1>1, <1>2, <1>3 DEF Inv

(* Every step.                                                             *)
LEMMA NextStep ==
    ASSUME Inv, [Next]_vars
    PROVE  Inv' /\ RecordMoves
  <1>1. ASSUME NEW a \in Attempts,
               \/ Start(a) \/ Read(a) \/ Prepare(a) \/ Reread(a) \/ Reserve(a)
               \/ Recheck(a) \/ Reconcile(a) \/ Begin(a) \/ FailPreflight(a)
               \/ Finalize(a) \/ ReadBack(a) \/ Cleanup(a) \/ Refund(a)
               \/ Complete(a) \/ Record(a) \/ Stop(a) \/ Reap(a)
        PROVE  Inv' /\ RecordMoves
    BY <1>1, EarlyStep, ReserveStep, DoubtStep, GrantStep, CleanupStep, RefundStep, CompleteStep,
       RecordStep, StopStep, ReapStep
  <1>2. ASSUME NEW w \in wire, Arrive(w) PROVE Inv' /\ RecordMoves
    BY <1>2, ArriveStep
  <1>3. CASE Tick \/ MoveHead \/ UNCHANGED vars
    BY <1>3, WorldStep
  <1> QED
    BY <1>1, <1>2, <1>3 DEF Next

(* The beginning.                                                          *)
LEMMA InitInv == Init => Inv
  <1> SUFFICES ASSUME Init PROVE Inv
    OBVIOUS
  <1>1. TypeInv
    <2>0. head \in Heads /\ 0 \in Int /\ None \in RecordType \cup {None} /\ None \in Attempts \cup {None}
      BY DEF Init
    <2>1. Reservation(None, None, head, 0) \in RecordType
      BY <2>0, ReservationOK
    <2>2. pc \in [Attempts -> Stages] /\ auth \in [Attempts -> AuthType]
      BY DEF Init, Stages, Early, AuthType
    <2>3. job \in [Attempts -> JobType]
      BY DEF Init, JobType
    <2> QED
      BY <2>1, <2>2, <2>3 DEF Init, TypeInv
  <1>2. Reservations(comments) = {} /\ Good(comments)
    BY DEF Init, Reservations, Good, Comments
  <1>3. StoreOK
    BY <1>2 DEF Init, StoreOK
  <1>4. \A a : ~HasPosted(comments, a) /\ ~Floats(wire, a)
    BY <1>2 DEF Init, HasPosted, Floats
  <1>5. \A a \in Attempts : /\ PlaceAt(comments, wire, a, pc[a], job[a], auth[a])
                            /\ RefundAt(comments, a, pc[a], auth[a])
    BY <1>4 DEF Init, PlaceAt, RefundAt
  <1> QED
    BY <1>1, <1>3, <1>5 DEF Init, Inv

-----------------------------------------------------------------------------
(* Theorems                                                                *)

(* What is stored, what is under way and where each attempt stands fit     *)
(* together in every reachable state: comments are of records, an attempt  *)
(* has reserved at most once and not before its post, and a late comment   *)
(* can still be stored as it was meant.                                    *)
THEOREM DispatchInvariance == Spec => []Inv
  <1>1. Inv /\ [Next]_vars => Inv'
    BY NextStep
  <1> QED
    BY <1>1, InitInv, PTL DEF Spec

(* WorkIsBacked for any number of attempts, lost and late posts: a run     *)
(* works only behind a reservation of its own, and on a challenge only     *)
(* after it has consumed its preparation.                                  *)
THEOREM WorkIsBackedAlways == Spec => []WorkIsBacked
  <1>1. Inv => WorkIsBacked
    BY Here DEF WorkIsBacked, PlaceAt, At, Reserved, HasPosted
  <1> QED
    BY <1>1, DispatchInvariance, PTL

(* NewerOwnerKept: the record passes on only to a first, pending           *)
(* reservation, or is closed for the attempt that holds it.                *)
THEOREM NewerOwnerKeptAlways == Spec => NewerOwnerKept
  <1>1. Inv /\ [Next]_vars => [RecordMoves]_vars
    BY NextStep
  <1> QED
    BY <1>1, DispatchInvariance, PTL DEF Spec, NewerOwnerKept

(* RefundedNotPending, unless a post without an answer may be stored after *)
(* later reads: a challenge that was given back has no pending             *)
(* reservation, and nobody works on it.                                    *)
THEOREM RefundedNotPendingAlways == Spec => [](~Late => RefundedNotPending)
  <1>1. Inv => (~Late => RefundedNotPending)
    <2> SUFFICES ASSUME Inv, ~Late, NEW a \in Attempts, auth[a] = "refunded"
                 PROVE  ~OwnsPending(a, RecordIn(comments)) /\ ~At(a, "working")
      BY DEF RefundedNotPending
    <2>1. pc[a] = "ended" /\ ClosedIn(comments, a)
      BY Here DEF RefundAt
    <2>2. Good(comments)
      BY DEF Inv, StoreOK
    <2> QED
      BY <2>1, <2>2, ClosedRecord DEF OwnsPending, Owns, At
  <1> QED
    BY <1>1, DispatchInvariance, PTL

-----------------------------------------------------------------------------
(* Retries within a concurrency group                                      *)

(* The operators of RetryWaits, for any comments s.                        *)
FinalIn(s, i) == s[Max({i} \cup ReceiptsFor(s, i))].record

BeforeIn(s, i) ==
    {j \in Reservations(s) :
        j < i /\ \A k \in j..i : k \in Reservations(s) => s[k].record.head = s[i].record.head}

StreakIn(s, B, field, value) ==
    {j \in B : \A k \in B : k >= j /\ FinalIn(s, k).status = "completed"
                                => FinalIn(s, k)[field] = value}

DoneIn(s, J) == {j \in J : FinalIn(s, j).status = "completed"}

TooMany(s, B, field, value) == Cardinality(DoneIn(s, StreakIn(s, B, field, value))) > Limit

(* What RetryWaits says of one reservation.                                *)
WaitsAt(s, i, authority) ==
    LET B    == BeforeIn(s, i)
        last == FinalIn(s, Max(B))
    IN  /\ ~authority
        /\ TooMany(s, B, "productive", "no") \/ TooMany(s, B, "incomplete", "yes")
        /\ last.status = "completed"
        => s[i].record.started >= last.ended + Cooldown

(* A counter counts the completions of a streak, up to Limit + 1.          *)
Tally(S, u) == IsFiniteSet(S) /\ (Cardinality(S) <= u \/ u > Limit)

CountedAt(s, n) ==
    LET B == BeforeIn(s, n) \cup {n}
        f == FinalIn(s, n)
    IN  /\ f.head = s[n].record.head
        /\ Tally(DoneIn(s, StreakIn(s, B, "productive", "no")), f.unproductive)
        /\ Tally(DoneIn(s, StreakIn(s, B, "incomplete", "yes")), ContinuationCount(f))

Counted(s) == \A n : Newest(s, n) => CountedAt(s, n)

(* The last receipt for a reservation is what became of it.                *)
LEMMA FinalIs ==
    ASSUME NEW s \in Comments, NEW i \in Reservations(s), NEW k, Last(s, i, k)
    PROVE  FinalIn(s, i) = s[k].record
  <1>1. {i} \cup ReceiptsFor(s, i) \subseteq 0..Len(s) /\ Len(s) \in Nat
    BY Places
  <1>2. \A j \in {i} \cup ReceiptsFor(s, i) : j <= k
    BY Places DEF Last, ReceiptsFor
  <1>3. Max({i} \cup ReceiptsFor(s, i)) = k
    BY <1>1, <1>2, LargestIs DEF Last
  <1> QED
    BY <1>3 DEF FinalIn

(* There is one.                                                           *)
LEMMA HasLast ==
    ASSUME NEW s \in Comments, NEW i \in Reservations(s)
    PROVE  \E k : /\ Last(s, i, k) /\ k \in 1..Len(s) /\ i <= k
                  /\ s[k].record.owner = s[i].record.owner
  <1> DEFINE k == Max({i} \cup ReceiptsFor(s, i))
  <1>1. {i} \cup ReceiptsFor(s, i) \subseteq 0..Len(s) /\ Len(s) \in Nat
    BY Places
  <1>2. k \in {i} \cup ReceiptsFor(s, i) /\ \A j \in {i} \cup ReceiptsFor(s, i) : j <= k
    BY <1>1, Largest
  <1> HIDE DEF k
  <1>3. k \in 1..Len(s) /\ i <= k /\ s[k].record.owner = s[i].record.owner
    BY <1>2, Places DEF ReceiptsFor
  <1> QED
    BY <1>2, <1>3 DEF Last

(* Of the newest reservation it is the record that is read.                *)
LEMMA FinalIsRecord ==
    ASSUME NEW s \in Comments, NEW n, Newest(s, n)
    PROVE  RecordIn(s) = FinalIn(s, n)
  <1>1. n \in Reservations(s)
    BY DEF Newest
  <1>2. PICK k : Last(s, n, k)
    BY <1>1, HasLast
  <1> QED
    BY <1>1, <1>2, FinalIs, RecordIsLast

(* A reservation's receipts are all as they were: so is its final record.  *)
LEMMA FinalKept ==
    ASSUME NEW s \in Comments, NEW d \in Comments, NEW i \in Reservations(s), i \in Reservations(d),
           ReceiptsFor(d, i) = ReceiptsFor(s, i),
           \A j \in {i} \cup ReceiptsFor(s, i) : d[j] = s[j]
    PROVE  FinalIn(d, i) = FinalIn(s, i)
  <1>1. PICK k : Last(s, i, k)
    BY HasLast
  <1>2. Last(d, i, k) /\ d[k] = s[k]
    BY <1>1 DEF Last
  <1> QED
    BY <1>1, <1>2, FinalIs

-----------------------------------------------------------------------------
(* What a new comment changes                                              *)

(* From s to d no reservation that was there changes, and of them only n   *)
(* may have become something else.                                         *)
Grown(s, d, n) ==
    /\ \A i \in 1..Len(s) : i \in Reservations(d) <=> i \in Reservations(s)
    /\ \A i \in Reservations(s) : d[i] = s[i] /\ (i # n => FinalIn(d, i) = FinalIn(s, i))

(* The reservations before it on its head are the same.                    *)
LEMMA SameBefore ==
    ASSUME NEW s \in Comments, NEW d \in Comments, NEW n, Grown(s, d, n), NEW i \in Reservations(s)
    PROVE  BeforeIn(d, i) = BeforeIn(s, i)
  <1>1. /\ i \in 1..Len(s) /\ Reservations(s) \subseteq 1..Len(s) /\ Len(s) \in Nat
        /\ Reservations(d) \subseteq 1..Len(d) /\ Len(d) \in Nat
    BY Places
  <1>2. \A j \in Int : j >= 1 /\ j <= i => (j \in Reservations(d) <=> j \in Reservations(s))
    BY <1>1 DEF Grown
  <1>3. \A k \in Reservations(s) : d[k].record.head = s[k].record.head
    BY DEF Grown
  <1>4. ASSUME NEW j \in Int, j >= 1, j < i PROVE j \in BeforeIn(d, i) <=> j \in BeforeIn(s, i)
    <2>1. j \in Reservations(d) <=> j \in Reservations(s)
      BY <1>1, <1>2, <1>4
    <2>2. \A k \in j..i : k \in Reservations(d) <=> k \in Reservations(s)
      BY <1>1, <1>2, <1>4
    <2>3. (\A k \in j..i : k \in Reservations(d) => d[k].record.head = d[i].record.head)
          <=> (\A k \in j..i : k \in Reservations(s) => s[k].record.head = s[i].record.head)
      BY <1>3, <2>2
    <2> QED
      BY <1>4, <2>1, <2>3 DEF BeforeIn
  <1>5. /\ \A j \in BeforeIn(d, i) : j \in Int /\ j >= 1 /\ j < i
        /\ \A j \in BeforeIn(s, i) : j \in Int /\ j >= 1 /\ j < i
    BY <1>1 DEF BeforeIn
  <1> QED
    BY <1>4, <1>5

(* Where what became of the reservations is the same, so are the streaks.  *)
LEMMA SameStreak ==
    ASSUME NEW s, NEW d, NEW B, \A k \in B : FinalIn(d, k) = FinalIn(s, k), NEW field, NEW value
    PROVE  DoneIn(d, StreakIn(d, B, field, value)) = DoneIn(s, StreakIn(s, B, field, value))
  <1>1. StreakIn(d, B, field, value) = StreakIn(s, B, field, value)
    BY DEF StreakIn
  <1>2. \A j \in StreakIn(s, B, field, value) : j \in B
    BY DEF StreakIn
  <1>3. \A j \in StreakIn(s, B, field, value) : FinalIn(d, j) = FinalIn(s, j)
    BY <1>2
  <1> QED
    BY <1>1, <1>3 DEF DoneIn

(* So a reservation that waited for long enough still has.                 *)
LEMMA WaitsKept ==
    ASSUME NEW s \in Comments, NEW d \in Comments, NEW n, Grown(s, d, n),
           NEW i \in Reservations(s), n \notin BeforeIn(s, i), NEW x, WaitsAt(s, i, x)
    PROVE  WaitsAt(d, i, x)
  <1> DEFINE B == BeforeIn(s, i)
  <1>1. BeforeIn(d, i) = B /\ d[i] = s[i]
    BY SameBefore DEF Grown
  <1>2. B \subseteq Reservations(s)
    BY DEF BeforeIn
  <1>3. \A k \in B : FinalIn(d, k) = FinalIn(s, k)
    BY <1>2 DEF Grown
  <1>4. CASE B = {}
    <2>1. \A f, v : DoneIn(d, StreakIn(d, B, f, v)) = {}
      BY <1>4 DEF DoneIn, StreakIn
    <2>2. \A f, v : ~TooMany(d, B, f, v)
      BY <2>1, FS_EmptySet, LimitAssumption DEF TooMany
    <2> QED
      BY <1>1, <2>2 DEF WaitsAt
  <1>5. CASE B # {}
    <2>1. Max(B) \in B
      <3>1. Len(s) \in Nat /\ B \subseteq 0..Len(s)
        BY <1>2, Places
      <3> QED
        BY <1>5, <3>1, Largest
    <2>2. FinalIn(d, Max(B)) = FinalIn(s, Max(B))
      BY <1>3, <2>1
    <2> HIDE DEF B
    <2>3. \A f, v : TooMany(d, B, f, v) <=> TooMany(s, B, f, v)
      BY <1>3, SameStreak DEF TooMany
    <2> QED
      BY <1>1, <2>2, <2>3 DEF WaitsAt, B
  <1> QED
    BY <1>4, <1>5

(* A counter of a streak stays right as the newest reservation is closed,  *)
(* when it grows by one with a completion that goes on with the streak,    *)
(* and is not lowered by anything else but a completion that ends it.      *)
Counting(x, y, field, value, u, v) ==
    \/ x.status # "completed" /\ y.status # "completed" /\ v >= u
    \/ y.status = "completed" /\ y[field] # value
    \/ /\ x.status = "completed" /\ y.status = "completed"
       /\ x[field] = value /\ y[field] = value /\ v >= u
    \/ /\ x.status # "completed" /\ y.status = "completed" /\ y[field] = value
       /\ v = Capped(u + 1)

(* Whatever the field.                                                     *)
LEMMA TallyCloses ==
    ASSUME NEW s, NEW d, NEW B, NEW n \in Int, \A k \in B : k \in Int /\ k < n,
           \A k \in B : FinalIn(d, k) = FinalIn(s, k),
           NEW field, NEW value, NEW u \in Nat, NEW v \in Nat,
           Counting(FinalIn(s, n), FinalIn(d, n), field, value, u, v),
           Tally(DoneIn(s, StreakIn(s, B \cup {n}, field, value)), u)
    PROVE  Tally(DoneIn(d, StreakIn(d, B \cup {n}, field, value)), v)
  <1> DEFINE S == DoneIn(s, StreakIn(s, B \cup {n}, field, value))
             T == DoneIn(d, StreakIn(d, B \cup {n}, field, value))
             x == FinalIn(s, n)
             y == FinalIn(d, n)
  <1>1. \A j \in T : /\ j \in B \cup {n}
                     /\ y.status = "completed" => y[field] = value
                     /\ FinalIn(d, j).status = "completed"
    BY DEF DoneIn, StreakIn
  <1>2. ASSUME x.status = "completed" => x[field] = value PROVE T \subseteq S \cup {n}
    <2> SUFFICES ASSUME NEW j \in T, j # n PROVE j \in S
      OBVIOUS
    <2>1. j \in B /\ FinalIn(s, j).status = "completed"
      BY <1>1
    <2>2. \A k \in B \cup {n} : k >= j /\ FinalIn(d, k).status = "completed"
                                    => FinalIn(d, k)[field] = value
      BY DEF DoneIn, StreakIn
    <2>3. \A k \in B \cup {n} : k >= j /\ FinalIn(s, k).status = "completed"
                                    => FinalIn(s, k)[field] = value
      BY <1>2, <2>2
    <2> QED
      BY <2>1, <2>3 DEF DoneIn, StreakIn
  <1>3. ASSUME x.status = "completed", x[field] = value PROVE n \in S
    BY <1>3 DEF DoneIn, StreakIn
  <1>4. IsFiniteSet(S) /\ (Cardinality(S) <= u \/ u > Limit) /\ Cardinality(S) \in Nat
    BY FS_CardinalityType DEF Tally
  <1>5. ASSUME T \subseteq S, v >= u PROVE Tally(T, v)
    <2>1. IsFiniteSet(T) /\ Cardinality(T) <= Cardinality(S)
      BY <1>4, <1>5, FS_Subset
    <2>2. Cardinality(T) \in Nat
      BY <2>1, FS_CardinalityType
    <2> HIDE DEF S, T
    <2> QED
      BY <1>4, <1>5, <2>1, <2>2, LimitAssumption DEF Tally
  <1>6. CASE x.status # "completed" /\ y.status # "completed" /\ v >= u
    <2>1. n \notin T
      BY <1>1, <1>6
    <2>2. T \subseteq S
      BY <1>2, <1>6, <2>1
    <2> QED
      BY <1>5, <1>6, <2>2
  <1>7. CASE y.status = "completed" /\ y[field] # value
    <2>1. T = {}
      BY <1>1, <1>7
    <2> HIDE DEF T
    <2> QED
      BY <2>1, FS_EmptySet DEF Tally, T
  <1>8. CASE /\ x.status = "completed" /\ y.status = "completed"
             /\ x[field] = value /\ y[field] = value /\ v >= u
    <2>1. n \in S /\ T \subseteq S \cup {n}
      BY <1>2, <1>3, <1>8
    <2>2. T \subseteq S
      BY <2>1
    <2> QED
      BY <1>5, <1>8, <2>2
  <1>9. CASE /\ x.status # "completed" /\ y.status = "completed" /\ y[field] = value
             /\ v = Capped(u + 1)
    <2>1. T \subseteq S \cup {n}
      BY <1>2, <1>9
    <2> HIDE DEF S, T
    <2>6. /\ IsFiniteSet(S \cup {n})
          /\ Cardinality(S \cup {n}) = IF n \in S THEN Cardinality(S) ELSE Cardinality(S) + 1
      BY <1>4, FS_AddElement
    <2>2. IsFiniteSet(S \cup {n}) /\ Cardinality(S \cup {n}) <= Cardinality(S) + 1
      BY <1>4, <2>6
    <2>3. IsFiniteSet(T) /\ Cardinality(T) <= Cardinality(S \cup {n})
      BY <2>1, <2>2, FS_Subset
    <2>4. Cardinality(T) \in Nat /\ Cardinality(S \cup {n}) \in Nat
      BY <2>2, <2>3, FS_CardinalityType
    <2>5. Cardinality(T) <= v \/ v > Limit
      BY <1>4, <1>9, <2>2, <2>3, <2>4, LimitAssumption DEF Capped
    <2> QED
      BY <2>3, <2>5 DEF Tally, T
  <1> QED
    BY <1>6, <1>7, <1>8, <1>9 DEF Counting

(* A completion counts itself once, on both counters.                      *)
LEMMA CompletionCounts ==
    ASSUME NEW r \in RecordType, NEW o, OutcomeOK(o), NEW t \in Int,
           r.status \in Terminal => o.success = (r.status = "completed")
    PROVE  LET c == Completion(r, o, t) IN
           /\ Counting(r, c, "productive", "no", r.unproductive, c.unproductive)
           /\ Counting(r, c, "incomplete", "yes", ContinuationCount(r), ContinuationCount(c))
  <1> DEFINE replay     == r.status \in Terminal
             measured   == IF replay THEN r.productive ELSE o.productive
             productive == IF measured = "unknown" /\ r.productive = "no" THEN "no" ELSE measured
             incomplete == IF replay \/ o.incomplete = "unknown" THEN r.incomplete ELSE o.incomplete
             unproductive ==
               CASE productive = "yes"     -> 0
                 [] productive = "unknown" -> r.unproductive
                 [] replay -> IF r.unproductive = 0 THEN 1 ELSE r.unproductive
                 [] OTHER  -> Capped(r.unproductive + 1)
             continuations ==
               CASE incomplete = "no"  -> 0
                 [] incomplete = "yes" -> IF replay THEN ContinuationCount(r)
                                          ELSE Capped(ContinuationCount(r) + 1)
                 [] OTHER -> IF productive = "no" THEN unproductive ELSE r.continuations
             ended == IF replay THEN r.ended ELSE t
             preflight == o.preflight
             done == [r EXCEPT !.ended = ended, !.incomplete = incomplete,
                               !.preflight = preflight]
             c == Completion(r, o, t)
  <1>1. /\ o.success => c = [done EXCEPT !.status = "completed", !.productive = productive,
                                         !.unproductive = unproductive,
                                         !.continuations = continuations]
        /\ ~o.success => c = [done EXCEPT !.status = "error"]
    BY DEF Completion
  <1>2. /\ r.unproductive \in Nat /\ ContinuationCount(r) \in Nat /\ r # None
        /\ r.unproductive \in Counts /\ ContinuationCount(r) \in Counts
        /\ r.status \in {"completed", "error", "pending"} /\ c # None
    BY RecordFields, ContinuationBounds, CompletionOK, LimitAssumption
       DEF Counts, Statuses, Terminal
  <1>3. /\ r.productive \in {"yes", "no", "unknown"} /\ r.incomplete \in {"yes", "no", "unknown"}
        /\ o.productive \in {"yes", "no", "unknown"} /\ o.incomplete \in {"yes", "no", "unknown"}
        /\ o.success \in BOOLEAN
    BY RecordFields DEF OutcomeOK, Known
  <1>4. replay <=> r.status # "pending"
    BY <1>2 DEF Terminal
  <1>5. DOMAIN r = {"owner", "head", "status", "started", "ended", "productive", "incomplete",
                    "unproductive", "continuations", "preflight"}
    BY DEF RecordType
  <1> HIDE DEF ended, preflight, c
  <1>6. /\ productive \in {"yes", "no", "unknown"}
        /\ productive = "no" =>
             unproductive = IF replay THEN IF r.unproductive = 0 THEN 1 ELSE r.unproductive
                            ELSE Capped(r.unproductive + 1)
        /\ replay => productive = r.productive
    <2>1. /\ productive \in {"yes", "no", "unknown"} /\ (replay => productive = r.productive)
      BY <1>3
    <2> HIDE DEF productive, replay
    <2> QED
      BY <2>1
  <1>7. /\ incomplete \in {"yes", "no", "unknown"}
        /\ incomplete = "yes" => continuations = IF replay THEN ContinuationCount(r)
                                                 ELSE Capped(ContinuationCount(r) + 1)
        /\ replay => incomplete = r.incomplete
    <2>1. incomplete \in {"yes", "no", "unknown"} /\ (replay => incomplete = r.incomplete)
      BY <1>3
    <2> HIDE DEF productive, incomplete, replay, unproductive
    <2> QED
      BY <2>1
  <1> HIDE DEF productive, incomplete, unproductive, continuations
  <1>8. CASE o.success
    <2>4. replay => r.status = "completed"
      BY <1>8, Zenon
    <2>1. /\ c.status = "completed" /\ c.productive = productive /\ c.incomplete = incomplete
          /\ c.unproductive = unproductive /\ c.continuations = continuations
      BY <1>1, <1>5, <1>8
    <2>2. Counting(r, c, "productive", "no", r.unproductive, c.unproductive)
      <3>1. CASE productive # "no"
        BY <2>1, <3>1 DEF Counting
      <3>2. CASE productive = "no" /\ replay
        BY <1>2, <1>6, <2>1, <2>4, <3>2 DEF Counting
      <3>3. CASE productive = "no" /\ ~replay
        BY <1>4, <1>6, <2>1, <3>3 DEF Counting
      <3> QED
        BY <3>1, <3>2, <3>3
    <2>3. Counting(r, c, "incomplete", "yes", ContinuationCount(r), ContinuationCount(c))
      <3>1. CASE incomplete # "yes"
        BY <2>1, <3>1 DEF Counting
      <3>2. CASE incomplete = "yes"
        <4>1. continuations \in Nat
          BY <1>2, <1>7, <3>2, CappedBounds DEF Counts
        <4>2. ContinuationCount(c) = continuations
          BY <1>2, <2>1, <4>1 DEF ContinuationCount
        <4>3. CASE replay
          BY <1>2, <1>7, <2>1, <2>4, <3>2, <4>2, <4>3 DEF Counting
        <4>4. CASE ~replay
          BY <1>4, <1>7, <2>1, <3>2, <4>2, <4>4 DEF Counting
        <4> QED
          BY <4>3, <4>4
      <3> QED
        BY <3>1, <3>2
    <2> QED
      BY <2>2, <2>3 DEF c
  <1>9. CASE ~o.success
    <2>1. /\ c.status = "error" /\ c.unproductive = r.unproductive
          /\ c.continuations = r.continuations
      BY <1>1, <1>5, <1>9
    <2>2. r.status # "completed"
      BY <1>9 DEF Terminal
    <2>3. ContinuationCount(c) = ContinuationCount(r)
      BY <1>2, <2>1 DEF ContinuationCount
    <2> QED
      BY <1>2, <2>1, <2>2, <2>3 DEF Counting, c
  <1> QED
    BY <1>3, <1>8, <1>9

(* A reservation on the same head takes both counters over; one on         *)
(* another head has counters that are numbers.                             *)
LEMMA ReservationCounts ==
    ASSUME NEW r \in RecordType \cup {None}, NEW a \in Attempts, NEW h \in Heads, NEW t \in Int
    PROVE  LET c == Reservation(r, a, h, t) IN
           /\ c.unproductive \in Nat /\ ContinuationCount(c) \in Nat /\ c.started = t
           /\ r # None /\ r.head = h => /\ c.unproductive = r.unproductive
                                        /\ ContinuationCount(c) >= ContinuationCount(r)
  <1> DEFINE c == Reservation(r, a, h, t)
  <1>1. c \in RecordType /\ ContinuationCount(c) \in Counts /\ ContinuationCount(r) \in Counts
    BY ReservationOK, ContinuationBounds
  <1>2. c.unproductive \in Counts /\ c # None
    BY <1>1, RecordFields
  <1>3. Counts \subseteq Nat
    BY LimitAssumption DEF Counts
  <1>4. c.started = t
    BY DEF Reservation
  <1>5. ASSUME r # None, r.head = h
        PROVE  /\ c.unproductive = r.unproductive
               /\ c.continuations = IF ContinuationCount(r) # 0 THEN ContinuationCount(r) ELSE -1
    BY <1>5 DEF Reservation
  <1> HIDE DEF c
  <1>6. ASSUME r # None, r.head = h PROVE ContinuationCount(c) >= ContinuationCount(r)
    <2>3. ContinuationCount(c) \in Nat /\ ContinuationCount(r) \in Nat
      BY <1>1, <1>3
    <2>1. CASE ContinuationCount(r) = 0
      BY <2>1, <2>3
    <2>2. CASE ContinuationCount(r) # 0
      <3>1. c.continuations = ContinuationCount(r) /\ c.continuations # -1
        BY <1>5, <1>6, <2>2, <2>3
      <3>2. ContinuationCount(c) = c.continuations
        BY <1>2, <3>1 DEF ContinuationCount
      <3> QED
        BY <2>3, <3>1, <3>2
    <2> QED
      BY <2>1, <2>2
  <1> QED
    BY <1>1, <1>2, <1>3, <1>4, <1>5, <1>6 DEF c

(* A reservation that is added is the newest, and changes none before it.  *)
LEMMA ReservationStored ==
    ASSUME NEW s, Good(s), NEW e, GoodEntry(e), e.kind = "reservation"
    PROVE  LET d == Append(s, e)
               m == Len(s) + 1
           IN  /\ d \in Comments /\ Grown(s, d, 0) /\ Newest(d, m) /\ d[m] = e
               /\ FinalIn(d, m) = e.record /\ Reservations(d) = Reservations(s) \cup {m}
               /\ \A i \in Reservations(s) : i \in Int /\ 1 <= i /\ i < m
               /\ m \in Nat
  <1> DEFINE d == Append(s, e)
             m == Len(s) + 1
  <1>1. /\ s \in Comments /\ d \in Comments /\ Len(d) = m /\ d[m] = e /\ Len(s) \in Nat
        /\ \A i \in 1..Len(s) : d[i] = s[i]
    BY DEF Good, GoodEntry, Comments
  <1>2. DOMAIN s = 1..Len(s) /\ DOMAIN d = 1..m
    BY <1>1 DEF Good, Comments
  <1> HIDE DEF d
  <1>3. Reservations(d) = Reservations(s) \cup {m}
    BY <1>1, <1>2 DEF Reservations
  <1>4. \A i \in Reservations(s) : d[i] = s[i] /\ i \in Int /\ 1 <= i /\ i < m
    BY <1>1, <1>2 DEF Reservations
  <1>5. \A i \in Reservations(s) : ReceiptsFor(d, i) = ReceiptsFor(s, i)
    BY <1>1, <1>4 DEF ReceiptsFor
  <1>6. \A i \in Reservations(s) : FinalIn(d, i) = FinalIn(s, i)
    <2> SUFFICES ASSUME NEW i \in Reservations(s) PROVE FinalIn(d, i) = FinalIn(s, i)
      OBVIOUS
    <2>1. \A j \in {i} \cup ReceiptsFor(s, i) : j \in 1..Len(s)
      BY <1>1, Places
    <2>2. \A j \in {i} \cup ReceiptsFor(s, i) : d[j] = s[j]
      BY <1>1, <2>1
    <2>3. i \in Reservations(d)
      BY <1>3
    <2> QED
      BY <1>1, <1>5, <2>2, <2>3, FinalKept
  <1>7. Newest(d, m) /\ Last(d, m, m)
    BY <1>1, <1>3, <1>4 DEF Newest, Last, ReceiptsFor
  <1>8. FinalIn(d, m) = e.record
    BY <1>1, <1>7, FinalIs DEF Newest
  <1>9. Grown(s, d, 0)
    <2>1. \A i \in 1..Len(s) : i # m
      BY <1>1
    <2> QED
      BY <1>3, <1>4, <1>6, <2>1 DEF Grown
  <1> QED
    BY <1>1, <1>3, <1>4, <1>7, <1>8, <1>9 DEF d

(* The reservations before it on its head: those of the one that was the   *)
(* newest and that one itself, unless that was on another head.            *)
LEMMA BeforeNew ==
    ASSUME NEW s, Good(s), NEW e, GoodEntry(e), e.kind = "reservation"
    PROVE  LET B == BeforeIn(Append(s, e), Len(s) + 1) IN
           /\ B \subseteq Reservations(s)
           /\ \A p : Newest(s, p) =>
                 /\ s[p].record.head # e.record.head => B = {}
                 /\ s[p].record.head = e.record.head => B = BeforeIn(s, p) \cup {p}
  <1> DEFINE d == Append(s, e)
             m == Len(s) + 1
             B == BeforeIn(d, m)
  <1>1. /\ d \in Comments /\ Grown(s, d, 0) /\ d[m] = e
        /\ Reservations(d) = Reservations(s) \cup {m} /\ m \in Nat
        /\ \A i \in Reservations(s) : i \in Int /\ 1 <= i /\ i < m
    BY ReservationStored
  <1> HIDE DEF d, m
  <1>2. B = {j \in Reservations(s) : \A k \in j..m : k \in Reservations(d)
                                         => d[k].record.head = e.record.head}
    BY <1>1 DEF BeforeIn
  <1>3. \A k \in Reservations(s) : d[k] = s[k]
    BY <1>1 DEF Grown
  <1> HIDE DEF B
  <1>4. ASSUME NEW p, Newest(s, p), s[p].record.head # e.record.head PROVE B = {}
    <2>1. \A j \in B : p \in j..m
      BY <1>1, <1>2, <1>4 DEF Newest
    <2>2. p \in Reservations(d) /\ d[p].record.head # e.record.head
      BY <1>1, <1>3, <1>4 DEF Newest
    <2> QED
      BY <1>2, <2>1, <2>2
  <1>5. ASSUME NEW p, Newest(s, p), s[p].record.head = e.record.head
        PROVE  B = BeforeIn(s, p) \cup {p}
    <2>1. p \in Reservations(s) /\ p \in Int /\ p < m /\ \A j \in Reservations(s) : j <= p
      BY <1>1, <1>5 DEF Newest
    <2>2. \A k \in Reservations(d) : k = m \/ (k \in Reservations(s) /\ k <= p)
      BY <1>1, <2>1
    <2>3. p \in B
      <3>1. ASSUME NEW k \in p..m, k \in Reservations(d) PROVE d[k].record.head = e.record.head
        <4>1. k = m \/ k = p
          BY <1>1, <2>1, <2>2, <3>1
        <4> QED
          BY <1>1, <1>3, <1>5, <2>1, <4>1
      <3> QED
        BY <1>2, <2>1, <3>1
    <2>4. ASSUME NEW j \in Reservations(s), j # p PROVE j \in B <=> j \in BeforeIn(s, p)
      <3>4. j \in Int /\ j <= p
        BY <1>1, <2>1
      <3>1. j < p /\ j \in Int
        BY <2>1, <2>4, <3>4
      <3>2. ASSUME j \in B PROVE j \in BeforeIn(s, p)
        <4>1. ASSUME NEW k \in j..p, k \in Reservations(s)
              PROVE  s[k].record.head = s[p].record.head
          <5>1. k \in j..m /\ k \in Reservations(d)
            BY <1>1, <2>1, <3>1, <4>1
          <5> QED
            BY <1>2, <1>3, <1>5, <3>2, <4>1, <5>1
        <4> QED
          BY <3>1, <4>1 DEF BeforeIn
      <3>3. ASSUME j \in BeforeIn(s, p) PROVE j \in B
        <4>1. ASSUME NEW k \in j..m, k \in Reservations(d)
              PROVE  d[k].record.head = e.record.head
          <5>1. k = m \/ (k \in Reservations(s) /\ k \in j..p)
            BY <1>1, <2>1, <2>2, <3>1, <4>1
          <5> QED
            BY <1>1, <1>3, <1>5, <3>3, <5>1 DEF BeforeIn
        <4> QED
          BY <1>2, <4>1
      <3> QED
        BY <3>2, <3>3
    <2>5. /\ \A j \in B : j \in Reservations(s)
          /\ \A j \in BeforeIn(s, p) : j \in Reservations(s)
      BY <1>2 DEF BeforeIn
    <2>6. p \notin BeforeIn(s, p)
      BY <2>1 DEF BeforeIn
    <2> QED
      BY <2>3, <2>4, <2>5, <2>6
  <1>6. B \subseteq Reservations(s)
    BY <1>2
  <1> QED
    BY <1>4, <1>5, <1>6 DEF B, d, m

(* A reservation that carries the counters on keeps them right, and it     *)
(* waits if its dispatch was granted on the record that was read.          *)
LEMMA ReservationCounted ==
    ASSUME NEW s, Good(s), Counted(s), NEW r \in RecordType \cup {None},
           RecordIn(s) = None \/ RecordIn(s) = r,
           NEW a \in Attempts, NEW h \in Heads, NEW t \in Int,
           NEW e, e = Entry("reservation", Reservation(r, a, h, t)), GoodEntry(e),
           NEW x \in BOOLEAN, x \/ \E y \in Int : y <= t /\ Grants(r, h, y)
    PROVE  Counted(Append(s, e)) /\ WaitsAt(Append(s, e), Len(s) + 1, x)
  <1> DEFINE d == Append(s, e)
             m == Len(s) + 1
             B == BeforeIn(d, m)
             c == Reservation(r, a, h, t)
  <1>1. /\ e.kind = "reservation" /\ e.record = c /\ c.status = "pending" /\ c.head = h
        /\ c.unproductive \in Nat /\ ContinuationCount(c) \in Nat /\ c.started = t
        /\ r # None /\ r.head = h => /\ c.unproductive = r.unproductive
                                     /\ ContinuationCount(c) >= ContinuationCount(r)
    BY ReservationOK, ReservationCounts DEF Entry
  <1>2. /\ d \in Comments /\ Grown(s, d, 0) /\ d[m] = e /\ m \in Nat /\ Newest(d, m)
        /\ Reservations(d) = Reservations(s) \cup {m} /\ FinalIn(d, m) = c
        /\ \A i \in Reservations(s) : i \in Int /\ 1 <= i /\ i < m
    BY <1>1, ReservationStored
  <1>3. /\ B \subseteq Reservations(s)
        /\ \A p : Newest(s, p) => /\ s[p].record.head # h => B = {}
                                  /\ s[p].record.head = h => B = BeforeIn(s, p) \cup {p}
    BY <1>1, BeforeNew
  <1>4. s \in Comments
    BY DEF Good
  <1> HIDE DEF d, m, c
  <1>5. \A k \in B : FinalIn(d, k) = FinalIn(s, k)
    BY <1>2, <1>3 DEF Grown
  <1>6. \A n : Newest(d, n) => n = m
    BY <1>2 DEF Newest
  <1> HIDE DEF B
  (* The new reservation is not completed: the streaks stay as they are.    *)
  <1>7. ASSUME NEW f, NEW v
        PROVE  DoneIn(d, StreakIn(d, B \cup {m}, f, v)) = DoneIn(s, StreakIn(s, B, f, v))
    <2>1. FinalIn(d, m).status # "completed"
      BY <1>1, <1>2
    <2>2. \A j \in B : j \in StreakIn(d, B \cup {m}, f, v) <=> j \in StreakIn(d, B, f, v)
      BY <2>1 DEF StreakIn
    <2>3. DoneIn(d, StreakIn(d, B \cup {m}, f, v)) = DoneIn(d, StreakIn(d, B, f, v))
      BY <2>1, <2>2 DEF DoneIn, StreakIn
    <2> QED
      BY <1>5, <2>3, SameStreak
  <1>8. CASE B = {}
    <2>1. \A f, v : DoneIn(s, StreakIn(s, B, f, v)) = {}
      BY <1>8 DEF DoneIn, StreakIn
    <2>2. Tally({}, c.unproductive) /\ Tally({}, ContinuationCount(c))
      BY <1>1, FS_EmptySet DEF Tally
    <2>3. CountedAt(d, m)
      BY <1>1, <1>2, <1>7, <2>1, <2>2 DEF CountedAt, B
    <2>4. \A f, v : ~TooMany(d, B, f, v)
      BY <1>5, <2>1, SameStreak, FS_EmptySet, LimitAssumption DEF TooMany
    <2>5. WaitsAt(d, m, x)
      BY <2>4 DEF WaitsAt, B
    <2> QED
      BY <1>6, <2>3, <2>5 DEF Counted, d, m
  <1>9. CASE B # {}
    <2>1. Reservations(s) # {}
      BY <1>3, <1>9
    <2>2. PICK p : Newest(s, p)
      BY <1>4, <2>1, RecordFrom
    <2>3. B = BeforeIn(s, p) \cup {p} /\ s[p].record.head = h /\ p \in Reservations(s)
      BY <1>3, <1>9, <2>2 DEF Newest
    <2>4. /\ FinalIn(s, p).head = s[p].record.head
          /\ Tally(DoneIn(s, StreakIn(s, B, "productive", "no")), FinalIn(s, p).unproductive)
          /\ Tally(DoneIn(s, StreakIn(s, B, "incomplete", "yes")), ContinuationCount(FinalIn(s, p)))
      BY <2>2, <2>3 DEF Counted, CountedAt
    <2>5. RecordIn(s) = FinalIn(s, p) /\ FinalIn(s, p) \in RecordType
      <3>1. RecordIn(s) = FinalIn(s, p)
        BY <1>4, <2>2, FinalIsRecord
      <3>2. PICK k : Last(s, p, k) /\ k \in 1..Len(s)
        BY <1>4, <2>3, HasLast
      <3>3. s[k] \in EntryType
        BY <1>4, <3>2 DEF Comments
      <3> QED
        BY <1>4, <2>3, <3>1, <3>2, <3>3, FinalIs DEF EntryType
    <2>6. FinalIn(s, p) = r /\ r \in RecordType /\ r # None /\ r.head = h
      BY <2>3, <2>4, <2>5, RecordFields
    <2>7. /\ c.unproductive = r.unproductive /\ ContinuationCount(c) >= ContinuationCount(r)
          /\ ContinuationCount(c) \in Nat /\ ContinuationCount(r) \in Nat /\ r.unproductive \in Nat
      <3>1. ContinuationCount(r) \in Counts /\ r.unproductive \in Counts
        BY <2>6, ContinuationBounds, RecordFields
      <3>2. Counts \subseteq Nat
        BY LimitAssumption DEF Counts
      <3> QED
        BY <1>1, <2>6, <3>1, <3>2
    <2>8. ASSUME NEW S, Tally(S, ContinuationCount(r)) PROVE Tally(S, ContinuationCount(c))
      <3>1. Cardinality(S) \in Nat
        BY <2>8, FS_CardinalityType DEF Tally
      <3> QED
        BY <2>7, <2>8, <3>1, LimitAssumption DEF Tally
    <2>9. CountedAt(d, m)
      <3>1. /\ Tally(DoneIn(s, StreakIn(s, B, "productive", "no")), c.unproductive)
            /\ Tally(DoneIn(s, StreakIn(s, B, "incomplete", "yes")), ContinuationCount(c))
        BY <2>4, <2>6, <2>7, <2>8
      <3> QED
        BY <1>1, <1>2, <1>7, <3>1 DEF CountedAt, B
    <2>10. WaitsAt(d, m, x)
      <3> SUFFICES ASSUME ~x,
                          TooMany(d, B, "productive", "no") \/ TooMany(d, B, "incomplete", "yes"),
                          FinalIn(d, Max(B)).status = "completed"
                   PROVE  d[m].record.started >= FinalIn(d, Max(B)).ended + Cooldown
        BY DEF WaitsAt, B
      <3>1. Max(B) = p
        <4>1. B \subseteq 0..Len(s) /\ Len(s) \in Nat /\ \A j \in B : j <= p
          BY <1>3, <1>4, <2>2, Places DEF Newest
        <4> QED
          BY <2>3, <4>1, LargestIs
      <3>2. FinalIn(d, Max(B)) = r /\ r.status = "completed"
        BY <1>5, <2>3, <2>6, <3>1
      <3>3. ASSUME NEW f, NEW v, TooMany(d, B, f, v), NEW u \in Nat,
                   Tally(DoneIn(s, StreakIn(s, B, f, v)), u)
            PROVE  u > Limit /\ r[f] = v
        <4> DEFINE S == DoneIn(s, StreakIn(s, B, f, v))
        <4>1. Cardinality(S) > Limit /\ IsFiniteSet(S)
          BY <1>5, <3>3, SameStreak DEF TooMany, Tally
        <4>2. u > Limit
          <5> HIDE DEF S
          <5>1. Cardinality(S) \in Nat
            BY <4>1, FS_CardinalityType
          <5> QED
            BY <3>3, <4>1, <5>1, LimitAssumption DEF Tally, S
        <4>3. PICK j \in S : TRUE
          <5> HIDE DEF S
          <5>1. S # {}
            BY <4>1, FS_EmptySet, LimitAssumption
          <5> QED
            BY <5>1
        <4>4. j \in B /\ p \in B /\ p >= j
          <5>1. j \in B
            BY DEF DoneIn, StreakIn
          <5> QED
            BY <1>2, <1>3, <2>2, <2>3, <5>1 DEF Newest
        <4>5. FinalIn(s, p)[f] = v
          BY <2>6, <3>2, <4>4 DEF DoneIn, StreakIn
        <4> QED
          BY <2>6, <4>2, <4>5
      <3>4. /\ r.productive = "no" \/ r.incomplete = "yes"
            /\ \/ r.productive = "no" /\ r.unproductive > Limit
               \/ r.incomplete = "yes" /\ ContinuationCount(r) > Limit
        BY <2>4, <2>6, <2>7, <3>3
      <3>5. RetryCount(r) > Limit
        <4>1. ASSUME NEW u \in Nat, NEW v \in Nat
              PROVE  Max({u, v}) \in Nat /\ Max({u, v}) >= u /\ Max({u, v}) >= v
          <5>1. \E n \in Nat : {u, v} \subseteq 0..n
            <6>1. CASE u <= v
              BY <6>1
            <6>2. CASE v <= u
              BY <6>2
            <6> QED
              BY <6>1, <6>2
          <5>2. Max({u, v}) \in {u, v} /\ \A y \in {u, v} : y <= Max({u, v})
            BY <5>1, Largest
          <5> QED
            BY <5>2
        <4>2. CASE r.productive = "no"
          <5> DEFINE M == Max({ContinuationCount(r), r.unproductive})
          <5>1. M \in Nat /\ M >= ContinuationCount(r) /\ M >= r.unproductive
            BY <2>7, <4>1
          <5>2. RetryCount(r) = M
            BY <4>2 DEF RetryCount
          <5> HIDE DEF M
          <5> QED
            BY <2>7, <3>4, <5>1, <5>2, LimitAssumption
        <4>3. CASE r.productive # "no"
          BY <3>4, <4>3 DEF RetryCount
        <4> QED
          BY <4>2, <4>3
      <3>6. PICK y \in Int : y <= t /\ Grants(r, h, y)
        OBVIOUS
      <3>7. y >= r.ended + Cooldown
        <4>1. RetryCount(r) <= Limit \/ y >= r.ended + Cooldown
          BY <2>6, <3>2, <3>6 DEF Grants
        <4>2. RetryCount(r) \in Nat
          <5>1. r.productive = "no" => RetryCount(r) \in {ContinuationCount(r), r.unproductive}
            <6>1. \E n \in Nat : {ContinuationCount(r), r.unproductive} \subseteq 0..n
              <7>1. CASE ContinuationCount(r) <= r.unproductive
                BY <2>7, <7>1
              <7>2. CASE r.unproductive <= ContinuationCount(r)
                BY <2>7, <7>2
              <7> QED
                BY <2>7, <7>1, <7>2
            <6> QED
              BY <6>1, Largest DEF RetryCount
          <5>2. r.productive # "no" => RetryCount(r) = ContinuationCount(r)
            BY DEF RetryCount
          <5> QED
            BY <2>7, <5>1, <5>2
        <4> QED
          BY <3>5, <4>1, <4>2, LimitAssumption
      <3>8. r.ended \in Int /\ Cooldown \in Int
        BY <2>6, RecordFields, DelaysAssumption
      <3> QED
        BY <1>1, <1>2, <3>2, <3>6, <3>7, <3>8
    <2> QED
      BY <1>6, <2>9, <2>10 DEF Counted, d, m
  <1> QED
    BY <1>8, <1>9

(* Where a receipt of attempt a is stored: at the end, or in place of the  *)
(* last one of its own after every reservation.                            *)
ReceiptGoes(s, a, p) ==
    \/ p = 0
    \/ /\ p \in 1..Len(s) /\ s[p].kind = "receipt" /\ s[p].record.owner = a
       /\ \A i \in Reservations(s) : i < p
       /\ \A j \in 1..Len(s) : (/\ \A i \in Reservations(s) : i < j
                                /\ s[j].kind = "receipt" /\ s[j].record.owner = a) => j <= p

(* There write_completion puts it.                                         *)
LEMMA ReceiptGoesThere ==
    ASSUME Good(comments), NEW a
    PROVE  ReceiptGoes(comments, a, ReceiptPlace(a))
  <1> DEFINE newest == Max({0} \cup Reservations(comments))
             own == {j \in DOMAIN comments : /\ j > newest
                                             /\ comments[j].kind = "receipt"
                                             /\ comments[j].record.owner = a}
             p == ReceiptPlace(a)
  <1>1. /\ Len(comments) \in Nat /\ DOMAIN comments = 1..Len(comments)
        /\ {0} \cup Reservations(comments) \subseteq 0..Len(comments)
    BY Places DEF Good, Comments
  <1>2. newest \in {0} \cup Reservations(comments) /\ newest \in Nat
    BY <1>1, Largest
  <1>3. {0} \cup own \subseteq 0..Len(comments)
    BY <1>1
  <1>4. p = Max({0} \cup own)
    BY DEF ReceiptPlace
  <1> HIDE DEF newest, p
  <1>5. \A j \in own : j <= p
    BY <1>1, <1>3, <1>4, Largest
  <1>6. \A j \in 1..Len(comments) :
           (/\ \A i \in Reservations(comments) : i < j
            /\ comments[j].kind = "receipt" /\ comments[j].record.owner = a) => j <= p
    <2>1. \A j \in 1..Len(comments) : (\A i \in Reservations(comments) : i < j) => j > newest
      BY <1>1, <1>2
    <2> QED
      BY <1>1, <1>5, <2>1
  <1> QED
    BY <1>6, PlaceOfReceipt DEF ReceiptGoes, p

(* The receipt is what becomes of the newest reservation, and of no other. *)
LEMMA ReceiptStored ==
    ASSUME NEW s, Good(s), NEW n, Newest(s, n), NEW e, GoodEntry(e), e.kind = "receipt",
           e.record.owner = s[n].record.owner, NEW p, ReceiptGoes(s, e.record.owner, p)
    PROVE  LET d == Stored(s, e, p) IN
           /\ d \in Comments /\ Grown(s, d, n) /\ Newest(d, n)
           /\ FinalIn(d, n) = e.record /\ Reservations(d) = Reservations(s)
  <1> DEFINE d == Stored(s, e, p)
             q == IF p = 0 THEN Len(s) + 1 ELSE p
             o == s[n].record.owner
  <1>1. s \in Comments /\ Len(s) \in Nat /\ DOMAIN s = 1..Len(s) /\ e \in EntryType
    BY DEF Good, GoodEntry, Comments
  <1>2. /\ n \in Reservations(s) /\ \A i \in Reservations(s) : i <= n /\ i \in 1..Len(s)
        /\ \A i \in Reservations(s) : s[i].kind = "reservation"
    BY <1>1, Places DEF Newest, Reservations
  <1>3. /\ d \in Comments /\ Len(d) \in Nat /\ DOMAIN d = 1..Len(d) /\ Len(d) >= Len(s)
        /\ q \in 1..Len(d) /\ d[q] = e
        /\ \A i \in 1..Len(s) : i # q => d[i] = s[i]
        /\ \A i \in 1..Len(d) : i # q => i \in 1..Len(s)
    <2>1. CASE p = 0
      <3>1. d = Append(s, e) /\ q = Len(s) + 1
        BY <2>1 DEF Stored
      <3> HIDE DEF d, q
      <3> QED
        BY <1>1, <3>1 DEF Comments
    <2>2. CASE p \in 1..Len(s)
      <3>2. p # 0
        BY <1>1, <2>2
      <3>1. d = [s EXCEPT ![p] = e] /\ q = p
        BY <3>2 DEF Stored
      <3> HIDE DEF d, q
      <3> QED
        BY <1>1, <2>2, <3>1 DEF Comments
    <2> QED
      BY <2>1, <2>2 DEF ReceiptGoes
  <1>4. /\ \A i \in Reservations(s) : i < q
        /\ q \in 1..Len(s) => s[q].kind = "receipt" /\ s[q].record.owner = o
        /\ \A j \in ReceiptsFor(s, n) : j <= q
    <2>1. CASE p = 0
      <3>1. q = Len(s) + 1
        BY <2>1
      <3> HIDE DEF q
      <3> QED
        BY <1>1, <1>2, <3>1 DEF ReceiptsFor
    <2>2. CASE /\ p \in 1..Len(s) /\ s[p].kind = "receipt" /\ s[p].record.owner = e.record.owner
               /\ \A i \in Reservations(s) : i < p
               /\ \A j \in 1..Len(s) : (/\ \A i \in Reservations(s) : i < j
                                        /\ s[j].kind = "receipt"
                                        /\ s[j].record.owner = e.record.owner) => j <= p
      <3>1. q = p
        BY <1>1, <2>2
      <3>2. \A j \in ReceiptsFor(s, n) : /\ j \in 1..Len(s) /\ s[j].kind = "receipt"
                                         /\ s[j].record.owner = e.record.owner
                                         /\ \A i \in Reservations(s) : i < j
        BY <1>1, <1>2 DEF ReceiptsFor
      <3> HIDE DEF q
      <3> QED
        BY <2>2, <3>1, <3>2
    <2> QED
      BY <2>1, <2>2 DEF ReceiptGoes
  <1> HIDE DEF d, q
  <1>5. Reservations(d) = Reservations(s)
    <2>1. \A i \in Reservations(s) : i \in Reservations(d)
      BY <1>2, <1>3, <1>4 DEF Reservations
    <2>2. \A i \in Reservations(d) : i \in Reservations(s)
      BY <1>1, <1>3 DEF Reservations
    <2> QED
      BY <2>1, <2>2
  <1>6. \A i \in Reservations(s) : d[i] = s[i]
    BY <1>2, <1>3, <1>4
  <1>7. ASSUME NEW i \in Reservations(s), i # n PROVE FinalIn(d, i) = FinalIn(s, i)
    <2>1. s[i].record.owner # o
      BY <1>2, <1>7 DEF Good
    <2>2. ReceiptsFor(d, i) = ReceiptsFor(s, i)
      <3>1. i \in 1..Len(s) /\ d[i] = s[i]
        BY <1>2, <1>6
      <3>2. \A j \in (i + 1)..Len(d) : j \in ReceiptsFor(d, i) => j \in ReceiptsFor(s, i)
        BY <1>1, <1>3, <2>1, <3>1 DEF ReceiptsFor
      <3>3. \A j \in (i + 1)..Len(s) : j \in ReceiptsFor(s, i) => j \in ReceiptsFor(d, i)
        BY <1>1, <1>3, <1>4, <2>1, <3>1 DEF ReceiptsFor
      <3> QED
        BY <3>2, <3>3 DEF ReceiptsFor
    <2>3. \A j \in {i} \cup ReceiptsFor(s, i) : d[j] = s[j]
      <3>1. \A j \in ReceiptsFor(s, i) : j \in 1..Len(s) /\ s[j].record.owner # o
        BY <1>1, <1>2, <2>1 DEF ReceiptsFor
      <3> QED
        BY <1>3, <1>4, <1>6, <3>1
    <2> QED
      BY <1>1, <1>3, <1>5, <2>2, <2>3, FinalKept
  <1>8. Newest(d, n)
    BY <1>2, <1>5 DEF Newest
  <1>9. FinalIn(d, n) = e.record
    <2>1. q \in ReceiptsFor(d, n)
      BY <1>1, <1>2, <1>3, <1>4, <1>6 DEF ReceiptsFor
    <2>2. \A j \in ReceiptsFor(d, n) : j <= q
      <3>1. \A j \in ReceiptsFor(d, n) : j = q \/ j \in ReceiptsFor(s, n)
        BY <1>1, <1>2, <1>3, <1>6 DEF ReceiptsFor
      <3> QED
        BY <1>3, <1>4, <3>1
    <2>3. Last(d, n, q)
      BY <2>1, <2>2 DEF Last
    <2> QED
      BY <1>2, <1>3, <1>5, <2>3, FinalIs
  <1>10. Grown(s, d, n)
    BY <1>5, <1>6, <1>7 DEF Grown
  <1> QED
    BY <1>3, <1>5, <1>8, <1>9, <1>10 DEF d

(* A receipt keeps the counters right.                                     *)
LEMMA ReceiptCounted ==
    ASSUME NEW s, Good(s), Counted(s), NEW n, Newest(s, n), RecordIn(s) \in RecordType,
           NEW o, OutcomeOK(o), NEW t \in Int,
           RecordIn(s).status \in Terminal => o.success = (RecordIn(s).status = "completed"),
           NEW e, e = Entry("receipt", Completion(RecordIn(s), o, t)), GoodEntry(e),
           e.record.owner = s[n].record.owner, NEW p, ReceiptGoes(s, e.record.owner, p)
    PROVE  Counted(Stored(s, e, p))
  <1> DEFINE d == Stored(s, e, p)
             B == BeforeIn(s, n)
             r == RecordIn(s)
             c == Completion(r, o, t)
  <1>1. /\ e.kind = "receipt" /\ e.record = c /\ s \in Comments
        /\ r = FinalIn(s, n) /\ n \in Reservations(s)
    BY FinalIsRecord DEF Entry, Good, Newest
  <1>2. /\ d \in Comments /\ Grown(s, d, n) /\ Newest(d, n) /\ FinalIn(d, n) = c
        /\ Reservations(d) = Reservations(s)
    BY <1>1, ReceiptStored
  <1>3. c \in RecordType /\ c.head = r.head
    BY CompletionOK
  <1>4. /\ Counting(r, c, "productive", "no", r.unproductive, c.unproductive)
        /\ Counting(r, c, "incomplete", "yes", ContinuationCount(r), ContinuationCount(c))
    BY CompletionCounts
  <1> HIDE DEF d, c, r
  <1>5. /\ r.unproductive \in Nat /\ ContinuationCount(r) \in Nat
        /\ c.unproductive \in Nat /\ ContinuationCount(c) \in Nat
    <2>1. Counts \subseteq Nat
      BY LimitAssumption DEF Counts
    <2>2. r \in RecordType
      BY DEF r
    <2> QED
      BY <1>3, <2>1, <2>2, RecordFields, ContinuationBounds
  <1>6. /\ r.head = s[n].record.head
        /\ Tally(DoneIn(s, StreakIn(s, B \cup {n}, "productive", "no")), r.unproductive)
        /\ Tally(DoneIn(s, StreakIn(s, B \cup {n}, "incomplete", "yes")), ContinuationCount(r))
    BY <1>1 DEF Counted, CountedAt
  <1>7. n \in Int /\ \A k \in B : k \in Int /\ k < n /\ k \in Reservations(s)
    BY <1>1, Places DEF BeforeIn
  <1>8. BeforeIn(d, n) = B /\ d[n] = s[n]
    BY <1>1, <1>2, SameBefore DEF Grown
  <1>9. \A k \in B : FinalIn(d, k) = FinalIn(s, k)
    BY <1>2, <1>7 DEF Grown
  <1> HIDE DEF B
  <1>10. /\ Tally(DoneIn(d, StreakIn(d, B \cup {n}, "productive", "no")), c.unproductive)
         /\ Tally(DoneIn(d, StreakIn(d, B \cup {n}, "incomplete", "yes")), ContinuationCount(c))
    <2>1. ASSUME NEW f, NEW v, NEW i \in Nat, NEW j \in Nat, Counting(r, c, f, v, i, j),
                 Tally(DoneIn(s, StreakIn(s, B \cup {n}, f, v)), i)
          PROVE  Tally(DoneIn(d, StreakIn(d, B \cup {n}, f, v)), j)
      <3>1. Counting(FinalIn(s, n), FinalIn(d, n), f, v, i, j) /\ n \in Int
        BY <1>1, <1>2, <1>7, <2>1
      <3>2. \A k \in B : k \in Int /\ k < n
        BY <1>7
      <3> QED
        BY <1>9, <2>1, <3>1, <3>2, TallyCloses
    <2>2. Tally(DoneIn(d, StreakIn(d, B \cup {n}, "productive", "no")), c.unproductive)
      BY <1>4, <1>5, <1>6, <2>1
    <2>3. Tally(DoneIn(d, StreakIn(d, B \cup {n}, "incomplete", "yes")), ContinuationCount(c))
      BY <1>4, <1>5, <1>6, <2>1
    <2> QED
      BY <2>2, <2>3
  <1>11. CountedAt(d, n)
    BY <1>2, <1>3, <1>6, <1>8, <1>10 DEF CountedAt
  <1>12. \A i : Newest(d, i) => i = n
    BY <1>2, Places DEF Newest
  <1> QED
    BY <1>11, <1>12 DEF Counted, d

-----------------------------------------------------------------------------
(* The invariant of a concurrency group                                    *)

Idle(a) == \A b \in Attempts \ {a} : pc[b] \in Inactive

Closing == {"cleanup", "close", "record", "refund", "ended"}

(* What an attempt has read is what the comments still say; only one that  *)
(* answers a challenge prepares, and one that gives it back does not close *)
(* what was completed.                                                     *)
UpToDate(s, f, a, q, j, t) ==
    LET r == RecordIn(s) IN
    /\ q = "post" => LET p == IF r = None THEN f ELSE r IN
                     /\ j.prior = p
                     /\ j.authority \/ \E y \in Int : y <= t /\ Grants(p, j.head, y)
    /\ q = "record" => j.mine = r /\ r # None /\ r.owner = a
    /\ q \in {"prepare", "reread"} => j.authority
    /\ j.closing => q \in Closing
    /\ q = "close" => r # None /\ r.status = "pending"
    /\ q = "record" /\ j.closing => r.status # "completed"

Reading == {"post", "record", "prepare", "reread", "close"}

(* Each reservation has waited as it must.                                 *)
AllWait(s, g) == \A i \in Reservations(s) : WaitsAt(s, i, g[s[i].record.owner].authority)

(* One attempt of the group is active at a time, so what it has read is up *)
(* to date when it posts, and the counters count what the comments show.   *)
SerialInv ==
    /\ \A a, b \in Attempts : pc[a] \notin Inactive /\ pc[b] \notin Inactive => a = b
    /\ \A a \in Attempts : UpToDate(comments, fallback, a, pc[a], job[a], now)
    /\ Counted(comments) /\ AllWait(comments, job)

(* RetryWaits is the last part of it.                                      *)
LEMMA WaitsShown == ASSUME AllWait(comments, job) PROVE RetryWaits
  <1>1. \A i : Final(i) = FinalIn(comments, i)
    BY DEF Final, FinalIn
  <1>2. \A i : Before(i) = BeforeIn(comments, i)
    BY DEF Before, BeforeIn
  <1>3. \A i, f, v : Streak(i, f, v) = StreakIn(comments, BeforeIn(comments, i), f, v)
    BY <1>1, <1>2 DEF Streak, StreakIn
  <1>4. \A J : Completions(J) = DoneIn(comments, J)
    BY <1>1 DEF Completions, DoneIn
  <1> QED
    BY <1>1, <1>2, <1>3, <1>4 DEF RetryWaits, AllWait, WaitsAt, TooMany

(* The other attempts wait while one is active.                            *)
LEMMA OthersIdle ==
    ASSUME SerialInv, NEW a \in Attempts, pc[a] \notin Inactive
    PROVE  Idle(a)
  BY DEF SerialInv, Idle

(* One attempt goes on while the others wait.                              *)
LEMMA SerialGoes ==
    ASSUME Inv, SerialInv, NEW a \in Attempts, Idle(a), NEW q, NEW j,
           pc' = [pc EXCEPT ![a] = q], job' = [job EXCEPT ![a] = j],
           UpToDate(comments', fallback', a, q, j, now'), Counted(comments'),
           AllWait(comments', job')
    PROVE  SerialInv'
  <1>1. /\ pc'[a] = q /\ job'[a] = j
        /\ \A b \in Attempts : b # a => pc'[b] = pc[b] /\ job'[b] = job[b]
    BY DEF Inv, TypeInv
  <1>2. \A b \in Attempts : b # a => pc'[b] \in Inactive
    BY <1>1 DEF Idle
  <1>3. \A b \in Attempts : UpToDate(comments', fallback', b, pc'[b], job'[b], now')
    <2>1. \A b \in Attempts : b # a => pc'[b] \notin Reading
      BY <1>2 DEF Inactive, Reading
    <2>2. \A b \in Attempts : b # a => UpToDate(comments', fallback', b, pc'[b], job'[b], now')
      <3>1. \A b \in Attempts : b # a => UpToDate(comments, fallback, b, pc'[b], job'[b], now)
        BY <1>1 DEF SerialInv
      <3> QED
        BY <2>1, <3>1 DEF UpToDate, Reading
    <2> QED
      BY <1>1, <2>2
  <1> QED
    BY <1>2, <1>3 DEF SerialInv

(* It posts nothing, and whether it answers a challenge is settled.        *)
LEMMA SerialQuiet ==
    ASSUME Inv, SerialInv, NEW a \in Attempts, Idle(a), NEW q, NEW j \in JobType,
           pc' = [pc EXCEPT ![a] = q], job' = [job EXCEPT ![a] = j],
           UNCHANGED <<comments, fallback, now>>,
           j.authority = job[a].authority \/ ~HasPosted(comments, a),
           UpToDate(comments, fallback, a, q, j, now)
    PROVE  SerialInv'
  <1>1. AllWait(comments, job')
    <2> SUFFICES ASSUME NEW i \in Reservations(comments)
                 PROVE  WaitsAt(comments, i, job'[comments[i].record.owner].authority)
      BY DEF AllWait
    <2>1. comments[i].record.owner \in Attempts
      BY Places DEF Inv, StoreOK, Good, GoodEntry
    <2>2. HasPosted(comments, comments[i].record.owner)
      BY DEF HasPosted
    <2>3. job'[comments[i].record.owner].authority = job[comments[i].record.owner].authority
      BY <2>1, <2>2 DEF Inv, TypeInv
    <2> QED
      BY <2>3 DEF SerialInv, AllWait
  <1>2. /\ UpToDate(comments', fallback', a, q, j, now') /\ Counted(comments')
        /\ AllWait(comments', job')
    BY <1>1 DEF SerialInv
  <1> QED
    BY <1>2, SerialGoes

(* Most steps neither lead to a post nor read the record.                  *)
LEMMA SerialPasses ==
    ASSUME Inv, SerialInv, NEW a \in Attempts, pc[a] \notin Inactive, NEW q,
           q \notin Reading, pc' = [pc EXCEPT ![a] = q],
           NEW j \in JobType, job' = [job EXCEPT ![a] = j], j.authority = job[a].authority,
           j.closing = job[a].closing, pc[a] \notin Closing \/ q \in Closing,
           UNCHANGED <<comments, fallback, now>>
    PROVE  SerialInv'
  <1>1. UpToDate(comments, fallback, a, q, j, now)
    BY DEF UpToDate, Reading, SerialInv
  <1> QED
    BY <1>1, OthersIdle, SerialQuiet

(* No attempt does anything, and the clock does not go back.               *)
LEMMA SerialStands ==
    ASSUME Inv, SerialInv, UNCHANGED <<comments, fallback, pc, job>>, now' \in Nat, now' >= now
    PROVE  SerialInv'
  <1>1. \A y \in Int : y <= now => y <= now'
    BY DEF Inv, TypeInv
  <1>2. \A a \in Attempts : UpToDate(comments, fallback, a, pc[a], job[a], now')
    BY <1>1 DEF SerialInv, UpToDate
  <1> QED
    BY <1>2 DEF SerialInv

-----------------------------------------------------------------------------
(* Each step within a concurrency group                                    *)

(* An attempt starts when no other is active.                              *)
LEMMA SerialStart ==
    ASSUME Serial, Inv, SerialInv, NEW a \in Attempts, Start(a)
    PROVE  SerialInv'
  <1>1. pc[a] = "new" /\ Idle(a) /\ UNCHANGED <<comments, fallback, now>>
        /\ pc' = [pc EXCEPT ![a] = "read"]
    BY DEF Start, At, Alone, Idle, Goto, store, world
  <1>2. ~HasPosted(comments, a)
    BY <1>1, Here DEF PlaceAt, Early
  <1>4. PICK j \in JobType : job' = [job EXCEPT ![a] = j] /\ j.closing = job[a].closing
    <2>1. Start(a)
      OBVIOUS
    <2>2. PICK v \in BOOLEAN :
            job' = [job EXCEPT ![a] = [@ EXCEPT !.authority = v, !.head = head]]
      BY <2>1, Zenon DEF Start
    <2> DEFINE j == [job[a] EXCEPT !.authority = v, !.head = head]
    <2>3. job[a] \in JobType /\ head \in Heads
      BY Here DEF Inv, TypeInv
    <2>4. j \in JobType /\ j.closing = job[a].closing
      BY <2>3 DEF JobType
    <2> QED
      BY <2>2, <2>4
  <1>5. UpToDate(comments, fallback, a, "read", j, now)
    BY <1>1, <1>4 DEF SerialInv, UpToDate, Closing
  <1> QED
    BY <1>1, <1>2, <1>4, <1>5, SerialQuiet

(* The record that a dispatch is decided on is the one that was just read. *)
LEMMA SerialRead ==
    ASSUME Inv, SerialInv, NEW a \in Attempts, Read(a) \/ Reread(a)
    PROVE  SerialInv'
  <1>1. pc[a] \notin Inactive /\ UNCHANGED <<comments, fallback, now>>
    BY DEF Read, Reread, At, Inactive, store, world
  <1>7. pc[a] \notin Closing /\ ~job[a].closing
    <2>1. pc[a] = "read" \/ pc[a] = "reread"
      BY DEF Read, Reread, At
    <2> QED
      BY <2>1 DEF SerialInv, UpToDate, Closing
  <1>2. CASE /\ Set(a, "prior", Prior) /\ Goto(a, "post")
             /\ job[a].authority \/ Grants(Prior, job[a].head, now)
    <2>1. PICK j \in JobType : /\ job' = [job EXCEPT ![a] = j] /\ j.authority = job[a].authority
                               /\ j.prior = Prior /\ j.head = job[a].head
                               /\ j.closing = job[a].closing
      BY <1>2, PriorOK, SetPrior
    <2>2. now \in Int /\ now <= now
      BY DEF Inv, TypeInv
    <2>3. UpToDate(comments, fallback, a, "post", j, now)
      <3>1. j.authority \/ \E y \in Int : y <= now /\ Grants(Prior, j.head, y)
        BY <1>2, <2>1, <2>2
      <3> QED
        BY <1>7, <2>1, <3>1 DEF UpToDate, Prior
    <2> QED
      BY <1>1, <1>2, <2>1, <2>3, OthersIdle, SerialQuiet DEF Goto
  <1>3. CASE job' = job /\ \E q \in {"ended", "release"} : Goto(a, q)
    <2>1. PICK q \in {"ended", "release"} : Goto(a, q)
      BY <1>3
    <2>2. job' = [job EXCEPT ![a] = job[a]] /\ job[a] \in JobType
      BY <1>3, Here
    <2> QED
      BY <1>1, <1>7, <2>1, <2>2, SerialPasses DEF Goto, Reading
  <1>6. CASE job' = job /\ Goto(a, "prepare") /\ job[a].authority
    <2>1. job' = [job EXCEPT ![a] = job[a]] /\ job[a] \in JobType
      BY <1>6, Here
    <2>2. UpToDate(comments, fallback, a, "prepare", job[a], now)
      BY <1>6, <1>7 DEF UpToDate
    <2> QED
      BY <1>1, <1>6, <2>1, <2>2, OthersIdle, SerialQuiet DEF Goto
  <1>4. CASE Read(a)
    <2>1. CASE job[a].authority
      <3>1. job' = job /\ (Goto(a, "ended") \/ Goto(a, "prepare"))
        BY <1>4, <2>1 DEF Read
      <3> QED
        BY <1>3, <1>6, <2>1, <3>1
    <2>2. CASE ~job[a].authority
      BY <1>2, <1>3, <1>4, <2>2 DEF Read
    <2> QED
      BY <2>1, <2>2
  <1>5. CASE Reread(a)
    <2>1. CASE PendingIsLive(Prior, now)
      BY <1>3, <1>5, <2>1, Zenon DEF Reread
    <2>2. CASE ~PendingIsLive(Prior, now)
      <3>1. Set(a, "prior", Prior) /\ Goto(a, "post")
        BY <1>5, <2>2 DEF Reread
      <3>2. job[a].authority
        BY <1>5 DEF SerialInv, UpToDate, Reread, At
      <3> QED
        BY <1>2, <3>1, <3>2
    <2> QED
      BY <2>1, <2>2
  <1> QED
    BY <1>4, <1>5

(* A reservation that is posted is one that had waited.                    *)
LEMMA SerialReserve ==
    ASSUME ~Late, Inv, SerialInv, NEW a \in Attempts, Reserve(a)
    PROVE  SerialInv'
  <1> DEFINE r == Reservation(job[a].prior, a, job[a].head, now)
             e == Entry("reservation", r)
             d == Append(comments, e)
  <1>1. pc[a] = "post" /\ UNCHANGED <<fallback, now>>
    BY DEF Reserve, At, world
  <1>2. Idle(a)
    BY <1>1, OthersIdle DEF Inactive
  <1>3. PICK q \in {"granted", "recheck"} : pc' = [pc EXCEPT ![a] = q]
    BY DEF Reserve, Goto
  <1>4. job[a] \in JobType /\ job[a].prior \in RecordType \cup {None} /\ job[a].head \in Heads
        /\ job[a].authority \in BOOLEAN /\ now \in Nat /\ now \in Int
    BY Here, JobFields DEF Inv, TypeInv
  <1>5. r \in RecordType /\ r.owner = a /\ r.status = "pending"
    BY <1>4, ReservationOK
  <1>6. \/ Put(e, 0) /\ Forget(a)
        \/ PutUnanswered(e, 0) /\ Set(a, "mine", r)
    BY DEF Reserve
  <1>7. PICK j \in JobType : /\ job' = [job EXCEPT ![a] = j] /\ j.authority = job[a].authority
                             /\ j.closing = job[a].closing
    <2> HIDE DEF r, e
    <2> QED
      BY <1>5, <1>6, Forgets, SetMine
  <1>8. comments' = d \/ comments' = comments
    BY <1>6 DEF Put, PutUnanswered, Stored
  <1>9. CASE comments' = comments
    BY <1>1, <1>2, <1>3, <1>7, <1>9, SerialPasses DEF Inactive, Reading, Closing
  <1>10. CASE comments' = d
    <2>1. /\ Good(comments) /\ Counted(comments) /\ AllWait(comments, job)
      BY DEF Inv, StoreOK, SerialInv
    <2>2. GoodEntry(e) /\ e.kind = "reservation" /\ e.record = r
      BY <1>5 DEF GoodEntry, EntryType, Entry
    <2>3. /\ RecordIn(comments) = None \/ RecordIn(comments) = job[a].prior
          /\ job[a].authority \/ \E y \in Int : y <= now /\ Grants(job[a].prior, job[a].head, y)
      BY <1>1 DEF SerialInv, UpToDate
    <2> DEFINE m == Len(comments) + 1
    <2>4. Counted(d) /\ WaitsAt(d, m, job[a].authority)
      <3> DEFINE p == job[a].prior
                 h == job[a].head
                 x == job[a].authority
      <3>1. p \in RecordType \cup {None} /\ h \in Heads /\ x \in BOOLEAN
        BY <1>4
      <3>2. RecordIn(comments) = None \/ RecordIn(comments) = p
        BY <2>3
      <3>3. x \/ \E y \in Int : y <= now /\ Grants(p, h, y)
        BY <2>3
      <3>4. e = Entry("reservation", Reservation(p, a, h, now))
        OBVIOUS
      <3> HIDE DEF p, h, x, e
      <3>5. Counted(Append(comments, e)) /\ WaitsAt(Append(comments, e), Len(comments) + 1, x)
        BY <1>4, <2>1, <2>2, <3>1, <3>2, <3>3, <3>4, ReservationCounted
      <3> QED
        BY <3>5 DEF x
    <2> HIDE DEF e
    <2>5. /\ d \in Comments /\ Grown(comments, d, 0) /\ d[m] = e
          /\ Reservations(d) = Reservations(comments) \cup {m}
          /\ \A i \in Reservations(comments) : i \in Int /\ 1 <= i /\ i < m
      BY <2>1, <2>2, ReservationStored
    <2> HIDE DEF d, m, r
    <2>6. \A b \in Attempts : job'[b].authority = job[b].authority
      BY <1>7 DEF Inv, TypeInv
    <2>7. ASSUME NEW i \in Reservations(comments)
          PROVE  WaitsAt(d, i, job'[d[i].record.owner].authority)
      <3>1. comments[i].record.owner \in Attempts /\ comments \in Comments
        BY <2>1, Places DEF Good, GoodEntry
      <3>2. WaitsAt(comments, i, job[comments[i].record.owner].authority)
        BY <2>1 DEF AllWait
      <3>3. 0 \notin BeforeIn(comments, i)
        BY <2>5 DEF BeforeIn
      <3>4. d[i] = comments[i]
        BY <2>5 DEF Grown
      <3>5. WaitsAt(d, i, job[comments[i].record.owner].authority)
        BY <2>5, <3>1, <3>2, <3>3, WaitsKept
      <3> QED
        BY <2>6, <3>1, <3>4, <3>5
    <2>8. WaitsAt(d, m, job'[d[m].record.owner].authority)
      BY <1>5, <2>2, <2>4, <2>5, <2>6
    <2>9. AllWait(d, job')
      BY <2>5, <2>7, <2>8 DEF AllWait
    <2>10. UpToDate(d, fallback, a, q, j, now)
      BY <1>1, <1>3, <1>7 DEF SerialInv, UpToDate, Closing
    <2> QED
      BY <1>1, <1>2, <1>3, <1>7, <1>10, <2>4, <2>9, <2>10, SerialGoes
  <1> QED
    BY <1>8, <1>9, <1>10

(* A preparation is for a challenge.                                       *)
LEMMA SerialPrepare ==
    ASSUME Inv, SerialInv, NEW a \in Attempts, Prepare(a)
    PROVE  SerialInv'
  <1>1. pc[a] = "prepare" /\ UNCHANGED <<comments, fallback, now>> /\ job' = job
        /\ pc' = [pc EXCEPT ![a] = "reread"]
    BY DEF Prepare, At, Goto, store, world
  <1>2. job' = [job EXCEPT ![a] = job[a]] /\ job[a] \in JobType
    BY <1>1, Here
  <1>3. UpToDate(comments, fallback, a, "reread", job[a], now)
    BY <1>1 DEF SerialInv, UpToDate, Closing
  <1> QED
    BY <1>1, <1>2, <1>3, OthersIdle, SerialQuiet DEF Inactive

(* A reservation is closed for a challenge while it is pending.            *)
LEMMA SerialCleanup ==
    ASSUME Inv, SerialInv, NEW a \in Attempts, Cleanup(a)
    PROVE  SerialInv'
  <1>1. pc[a] = "cleanup" /\ pc[a] \notin Inactive /\ UNCHANGED <<comments, fallback, now>>
    BY DEF Cleanup, At, Inactive, store, world
  <1>2. CASE OwnsPending(a, RecordIn(comments)) /\ Set(a, "closing", TRUE) /\ Goto(a, "close")
    <2>1. PICK j \in JobType : job' = [job EXCEPT ![a] = j] /\ j.authority = job[a].authority
      BY <1>2, SetClosing
    <2>2. UpToDate(comments, fallback, a, "close", j, now)
      BY <1>2 DEF UpToDate, Closing, OwnsPending, Owns
    <2> QED
      BY <1>1, <1>2, <2>1, <2>2, OthersIdle, SerialQuiet DEF Goto
  <1>3. CASE job' = job /\ (Goto(a, "refund") \/ Goto(a, "ended"))
    <2>1. job' = [job EXCEPT ![a] = job[a]] /\ job[a] \in JobType
      BY <1>3, Here
    <2>2. PICK q \in {"refund", "ended"} : pc' = [pc EXCEPT ![a] = q]
      BY <1>3 DEF Goto
    <2> QED
      BY <1>1, <2>1, <2>2, SerialPasses DEF Reading, Closing
  <1>4. \/ OwnsPending(a, RecordIn(comments)) /\ Set(a, "closing", TRUE) /\ Goto(a, "close")
        \/ job' = job /\ (Goto(a, "refund") \/ Goto(a, "ended"))
    BY DEF Cleanup
  <1> QED
    BY <1>2, <1>3, <1>4

(* The steps that post nothing and read no record to write one.            *)
LEMMA SerialPlain ==
    ASSUME Inv, SerialInv, NEW a \in Attempts,
           \/ Recheck(a) \/ Reconcile(a) \/ Begin(a) \/ FailPreflight(a)
           \/ Finalize(a) \/ ReadBack(a) \/ Refund(a) \/ Stop(a)
    PROVE  SerialInv'
  <1>1. pc[a] \notin Inactive
    BY DEF Recheck, Reconcile, Begin, FailPreflight, Finalize, ReadBack, Refund, Stop, At, Inactive
  <1>2. UNCHANGED <<comments, fallback, now>>
    BY DEF Recheck, Reconcile, Begin, FailPreflight, Finalize, ReadBack, Refund, Stop, store, world
  <1>3. PICK j \in JobType : /\ job' = [job EXCEPT ![a] = j] /\ j.authority = job[a].authority
                             /\ j.closing = job[a].closing
    <2>1. job' = job \/ Forget(a)
      BY DEF Recheck, Reconcile, Begin, FailPreflight, Finalize, ReadBack, Refund, Stop
    <2>2. CASE job' = job
      BY <2>2, Here
    <2> QED
      BY <2>1, <2>2, Forgets
  <1>4. \E q : /\ q \notin Reading /\ pc' = [pc EXCEPT ![a] = q]
               /\ pc[a] \notin Closing \/ q \in Closing
    <2>1. CASE Refund(a) \/ Stop(a)
      BY <2>1 DEF Refund, Stop, Goto, Reading, Closing
    <2>2. CASE Reconcile(a)
      <3> DEFINE r == RecordIn(comments)
                 q == IF r = None THEN "release"
                      ELSE IF OwnsPending(a, r) THEN "granted" ELSE "ended"
      <3>1. q \notin Reading /\ pc[a] \notin Closing
        BY <2>2 DEF Reading, Closing, Reconcile, At
      <3>2. pc' = [pc EXCEPT ![a] = q]
        BY <2>2 DEF Reconcile, Goto
      <3> HIDE DEF q
      <3> QED
        BY <3>1, <3>2
    <2>3. CASE Finalize(a)
      <3>1. pc[a] \notin Closing
        BY <2>3 DEF Finalize, At, Closing
      <3>2. \E q \in {"readback", "cleanup"} : pc' = [pc EXCEPT ![a] = q]
        BY <2>3 DEF Finalize, Goto
      <3> QED
        BY <3>1, <3>2 DEF Reading
    <2>4. CASE ReadBack(a)
      <3> DEFINE q == IF OwnsPending(a, RecordIn(comments)) THEN "working" ELSE "cleanup"
      <3>1. q \notin Reading /\ pc[a] \notin Closing
        BY <2>4 DEF Reading, Closing, ReadBack, At
      <3>2. pc' = [pc EXCEPT ![a] = q]
        BY <2>4 DEF ReadBack, Goto
      <3> HIDE DEF q
      <3> QED
        BY <3>1, <3>2
    <2>5. CASE Recheck(a)
      <3>1. pc[a] \notin Closing
        BY <2>5 DEF Recheck, At, Closing
      <3>2. \E q \in {"granted", "ended", "reconcile"} : pc' = [pc EXCEPT ![a] = q]
        BY <2>5 DEF Recheck, Goto
      <3> QED
        BY <3>1, <3>2 DEF Reading
    <2>6. CASE Begin(a) \/ FailPreflight(a)
      BY <2>6 DEF Begin, FailPreflight, At, Goto, Reading, Closing
    <2> QED
      BY <2>1, <2>2, <2>3, <2>4, <2>5, <2>6
  <1> QED
    BY <1>1, <1>2, <1>3, <1>4, SerialPasses

(* A completion reads the record it will write on.                         *)
LEMMA SerialComplete ==
    ASSUME Serial, Inv, SerialInv, NEW a \in Attempts, Complete(a)
    PROVE  SerialInv'
  <1>1. Idle(a) /\ UNCHANGED <<comments, fallback, now>>
    BY DEF Complete, Alone, Idle, store, world
  <1>4. job[a].closing => pc[a] = "close" /\ RecordIn(comments).status = "pending"
    BY DEF Complete, SerialInv, UpToDate, Closing
  <1>2. CASE /\ Owns(a, RecordIn(comments)) /\ Set(a, "mine", RecordIn(comments))
             /\ Goto(a, "record")
    <2>1. PICK j \in JobType : /\ job' = [job EXCEPT ![a] = j] /\ j.authority = job[a].authority
                               /\ j.mine = RecordIn(comments) /\ j.closing = job[a].closing
      BY <1>2, PriorOK, SetMine
    <2>2. UpToDate(comments, fallback, a, "record", j, now)
      BY <1>2, <1>4, <2>1 DEF UpToDate, Owns, Closing
    <2> QED
      BY <1>1, <1>2, <2>1, <2>2, SerialQuiet DEF Goto
  <1>3. CASE job' = job /\ Goto(a, "ended")
    <2>1. job' = [job EXCEPT ![a] = job[a]] /\ job[a] \in JobType
      BY <1>3, Here
    <2>2. UpToDate(comments, fallback, a, "ended", job[a], now)
      BY DEF UpToDate, Closing
    <2> QED
      BY <1>1, <1>3, <2>1, <2>2, SerialQuiet DEF Goto
  <1> QED
    BY <1>2, <1>3 DEF Complete

(* A repeated completion reports the exit that was reported before.        *)
LEMMA ReportedAgain ==
    ASSUME Inv, NEW a \in Attempts, pc[a] = "record", NEW o \in Reported(a),
           job[a].closing => job[a].mine.status # "completed"
    PROVE  job[a].mine.status \in Terminal => o.success = (job[a].mine.status = "completed")
  <1>1. CASE ~job[a].closing
    BY <1>1 DEF Reported
  <1>2. CASE job[a].closing
    <2>1. o = PreflightFailed /\ job[a].mine.status # "completed"
      BY <1>2 DEF Reported
    <2>2. o.success = FALSE
      BY <2>1 DEF PreflightFailed
    <2> QED
      BY <2>1, <2>2, Zenon
  <1> QED
    BY <1>1, <1>2, Here, JobFields

(* The receipt closes the newest reservation, which is its own.            *)
LEMMA SerialRecord ==
    ASSUME ~Late, Inv, SerialInv, NEW a \in Attempts, Record(a)
    PROVE  SerialInv'
  <1>1. pc[a] = "record" /\ UNCHANGED <<fallback, now>> /\ Forget(a)
    BY DEF Record, At, world
  <1>2. Idle(a) /\ pc[a] \notin Inactive
    BY <1>1, OthersIdle DEF Inactive
  <1>3. PICK j \in JobType : /\ job' = [job EXCEPT ![a] = j] /\ j.authority = job[a].authority
                             /\ j.closing = job[a].closing
    BY <1>1, Forgets
  <1> DEFINE r == RecordIn(comments)
  <1>4. /\ job[a].mine = r /\ r # None /\ r.owner = a /\ r \in RecordType
        /\ job[a].closing => r.status # "completed"
    BY <1>1, PriorOK DEF SerialInv, UpToDate
  <1>5. PICK o \in Reported(a) :
          LET e == Entry("receipt", Completion(r, o, now))
              p == ReceiptPlace(a)
          IN  /\ Put(e, p) \/ PutUnanswered(e, p)
              /\ \E q \in {"refund", "cleanup", "recorded"} :
                    Goto(a, q) /\ (job[a].closing => q # "recorded")
    <2>1. PICK o \in Reported(a) :
            LET e == Entry("receipt", Completion(job[a].mine, o, now)) IN
               \/ /\ Put(e, ReceiptPlace(a))
                  /\ Goto(a, IF job[a].closing THEN "refund" ELSE "recorded")
               \/ /\ PutUnanswered(e, ReceiptPlace(a))
                  /\ Goto(a, IF job[a].closing THEN "cleanup" ELSE "recorded")
      BY Zenon DEF Record
    <2> HIDE DEF r
    <2>2. CASE job[a].closing
      BY <1>4, <2>1, <2>2
    <2>3. CASE ~job[a].closing
      BY <1>4, <2>1, <2>3
    <2> QED
      BY <2>2, <2>3
  <1> DEFINE c == Completion(r, o, now)
             e == Entry("receipt", c)
             p == ReceiptPlace(a)
             d == Stored(comments, e, p)
  <1>6. now \in Int /\ OutcomeOK(o) /\ Good(comments) /\ Counted(comments) /\ AllWait(comments, job)
    BY ReportedOK DEF Inv, TypeInv, StoreOK, SerialInv
  <1>7. r.status \in Terminal => o.success = (r.status = "completed")
    BY <1>1, <1>4, ReportedAgain
  <1>8. c \in RecordType /\ c.owner = a /\ c.status \in Terminal
    BY <1>4, <1>6, CompletionOK
  <1> HIDE DEF c
  <1>9. GoodEntry(e) /\ e.kind = "receipt" /\ e.record.owner = a
    BY <1>8 DEF GoodEntry, EntryType, Entry
  <1>10. PICK q \in {"refund", "cleanup", "recorded"} :
           pc' = [pc EXCEPT ![a] = q] /\ (job[a].closing => q # "recorded")
    BY <1>5 DEF Goto
  <1>11. comments' = d \/ comments' = comments
    BY <1>5 DEF Put, PutUnanswered, c
  <1>12. CASE comments' = comments
    <2>1. UpToDate(comments, fallback, a, q, j, now)
      BY <1>3, <1>10 DEF UpToDate, Closing
    <2> QED
      BY <1>1, <1>2, <1>3, <1>10, <1>12, <2>1, SerialQuiet
  <1>13. CASE comments' = d
    <2>1. PICK n : Newest(comments, n) /\ comments[n].record.owner = a
      <3>1. Reservations(comments) # {} /\ comments \in Comments
        BY <1>4, <1>6 DEF RecordIn, Good
      <3>2. PICK n, k : Newest(comments, n) /\ Last(comments, n, k) /\ r = comments[k].record
        BY <3>1, RecordFrom
      <3>3. comments[k].record.owner = comments[n].record.owner
        BY <3>2 DEF Last, ReceiptsFor
      <3> QED
        BY <1>4, <3>2, <3>3
    <2>2. ReceiptGoes(comments, e.record.owner, p)
      BY <1>6, <1>9, ReceiptGoesThere
    <2>3. Counted(d)
      <3> HIDE DEF p, r, e
      <3>1. e = Entry("receipt", Completion(RecordIn(comments), o, now))
        BY DEF e, c, r
      <3>2. /\ RecordIn(comments) \in RecordType
            /\ RecordIn(comments).status \in Terminal
                 => o.success = (RecordIn(comments).status = "completed")
            /\ e.record.owner = comments[n].record.owner
        BY <1>4, <1>7, <1>9, <2>1 DEF r
      <3> QED
        BY <1>6, <1>9, <2>1, <2>2, <3>1, <3>2, ReceiptCounted
    <2> HIDE DEF e, p, r
    <2>4. d \in Comments /\ Grown(comments, d, n) /\ Reservations(d) = Reservations(comments)
      BY <1>6, <1>9, <2>1, <2>2, ReceiptStored
    <2> HIDE DEF d
    <2>5. \A b \in Attempts : job'[b].authority = job[b].authority
      BY <1>3 DEF Inv, TypeInv
    <2>6. ASSUME NEW i \in Reservations(comments)
          PROVE  WaitsAt(d, i, job'[d[i].record.owner].authority)
      <3>1. comments[i].record.owner \in Attempts /\ comments \in Comments
        BY <1>6, Places DEF Good, GoodEntry
      <3>2. WaitsAt(comments, i, job[comments[i].record.owner].authority)
        BY <1>6 DEF AllWait
      <3>3. n \notin BeforeIn(comments, i)
        <4>1. i <= n /\ i \in Int /\ n \in Int
          BY <2>1, <3>1, Places DEF Newest
        <4> QED
          BY <4>1 DEF BeforeIn
      <3>4. d[i] = comments[i]
        BY <2>4 DEF Grown
      <3>5. WaitsAt(d, i, job[comments[i].record.owner].authority)
        BY <2>4, <3>1, <3>2, <3>3, WaitsKept
      <3> QED
        BY <2>5, <3>1, <3>4, <3>5
    <2>7. AllWait(d, job')
      BY <2>4, <2>6 DEF AllWait
    <2>8. UpToDate(d, fallback, a, q, j, now)
      BY <1>3, <1>10 DEF UpToDate, Closing
    <2> QED
      BY <1>1, <1>2, <1>3, <1>10, <1>13, <2>3, <2>7, <2>8, SerialGoes
  <1> QED
    BY <1>11, <1>12, <1>13

(* Every step.                                                             *)
LEMMA SerialStep ==
    ASSUME Serial, ~Late, Inv, SerialInv, [Next]_vars
    PROVE  SerialInv'
  <1>1. ASSUME NEW a \in Attempts,
               \/ Start(a) \/ Read(a) \/ Prepare(a) \/ Reread(a) \/ Reserve(a)
               \/ Recheck(a) \/ Reconcile(a) \/ Begin(a) \/ FailPreflight(a)
               \/ Finalize(a) \/ ReadBack(a) \/ Cleanup(a) \/ Refund(a)
               \/ Complete(a) \/ Record(a) \/ Stop(a)
        PROVE  SerialInv'
    BY <1>1, SerialStart, SerialRead, SerialPrepare, SerialReserve, SerialCleanup, SerialPlain,
       SerialComplete, SerialRecord
  <1>2. ASSUME NEW a \in Attempts, Reap(a) PROVE SerialInv'
    <2>1. UNCHANGED <<comments, fallback, pc, job, now>>
      BY <1>2 DEF Reap, store, world
    <2> QED
      BY <2>1, SerialStands DEF Inv, TypeInv
  <1>3. ~\E w \in wire : Arrive(w)
    BY DEF Inv
  <1>4. CASE Tick \/ MoveHead \/ UNCHANGED vars
    <2>1. UNCHANGED <<comments, fallback, pc, job>>
      BY <1>4 DEF Tick, MoveHead, vars, store, world
    <2>2. now' \in Nat /\ now' >= now
      BY <1>4 DEF Tick, MoveHead, vars, world, Inv, TypeInv
    <2> QED
      BY <2>1, <2>2, SerialStands
  <1> QED
    BY <1>1, <1>2, <1>3, <1>4 DEF Next

(* The beginning.                                                          *)
LEMMA SerialInit == Init => SerialInv
  <1> SUFFICES ASSUME Init PROVE SerialInv
    OBVIOUS
  <1>1. Reservations(comments) = {}
    BY DEF Init, Reservations
  <1>2. Counted(comments) /\ AllWait(comments, job)
    BY <1>1 DEF Counted, Newest, AllWait
  <1>3. \A a \in Attempts : pc[a] = "new" /\ job[a].closing = FALSE
    BY DEF Init
  <1> QED
    BY <1>2, <1>3 DEF SerialInv, UpToDate, Inactive

(* RetryWaits for attempts that share a concurrency group, when no comment *)
(* is stored after later reads: once Limit + 1 completions in a row on a   *)
(* head brought nothing, or left the task list unfinished, the next        *)
(* reservation on that head comes no sooner than Cooldown after the last,  *)
(* whatever attempts failed, were stopped or lost an answer in between.    *)
THEOREM RetryWaitsAlways == Spec => [](Serial /\ ~Late => RetryWaits)
  <1>1. ASSUME Serial /\ ~Late PROVE Spec => []SerialInv
    <2>1. Inv /\ SerialInv /\ [Next]_vars => SerialInv'
      BY <1>1, SerialStep
    <2> QED
      BY <2>1, SerialInit, DispatchInvariance, PTL DEF Spec
  <1>2. SerialInv => RetryWaits
    BY WaitsShown DEF SerialInv
  <1>3. CASE Serial /\ ~Late
    <2>1. Spec => []RetryWaits
      BY <1>1, <1>2, <1>3, PTL
    <2> QED
      BY <2>1, PTL
  <1>4. CASE ~(Serial /\ ~Late)
    <2>1. Serial /\ ~Late => RetryWaits
      BY <1>4
    <2> QED
      BY <2>1, PTL
  <1> QED
    BY <1>3, <1>4

=============================================================================
