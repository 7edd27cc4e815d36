-------------------------- MODULE AuthorityRecords --------------------------
(***************************************************************************)
(* The data of keepalive_authority_state.js: the challenge ledger of one   *)
(* pull request, the receipts and claims it holds, the predicates that     *)
(* guard its writes, and the record that each write puts in its place.     *)
(* Everything here is a pure function of its arguments; the requests that  *)
(* read and write these records are in AuthorityLedger.                    *)
(*                                                                         *)
(* A generation is a random 256-bit value in the code and a never reused   *)
(* natural number here.  A challenge window (due_at, expires_at) always    *)
(* has the same length, so expires_at stands for both.  A receipt is the   *)
(* pair of its owner attempt and the claim its digest commits to: an       *)
(* attempt prepares once, so its id, provider and time are functions of    *)
(* the owner.  None is the null and the undefined of the code.             *)
(***************************************************************************)
EXTENDS Integers, FiniteSets

CONSTANTS
    Attempts,      \* workflow attempts (repository:run_id:run_attempt)
    Heads,         \* commit SHAs the pull request's head takes
    Fingerprints,  \* fingerprints of authority boundaries
    None,          \* null or undefined
    Window,        \* length of a challenge window (24 hours in the code)
    LineageLimit   \* RECOVERED_LINEAGE_LIMIT

ASSUME WindowAssumption == Window \in Nat \ {0}
ASSUME LineageLimitAssumption == LineageLimit \in Nat \ {0, 1}

Statuses == {"available", "prepared", "consumed", "confirmed"}

ClaimType ==
    [generation : Nat, fingerprint : Fingerprints, expires : Int, head : Heads]

ReceiptType == [owner : Attempts, claim : ClaimType]

ReleasedType == [receipt : ReceiptType, lineage : SUBSET Nat]

RecoveredType == [receipt : ReceiptType, lineage : SUBSET Nat]

(* A record is never null.                                                 *)
ASSUME NoneAssumption ==
    None \notin ClaimType \cup ReceiptType \cup ReleasedType \cup RecoveredType

(* validState: the shape of a ledger that may be written or read.          *)
LedgerType ==
    [status : Statuses, revision : Nat, generation : Nat,
     fingerprint : Fingerprints, head : Heads, expires : Int,
     receipt : ReceiptType \cup {None}, claim : ClaimType \cup {None},
     released : ReleasedType \cup {None},
     recovered : RecoveredType \cup {None}]

(* The ledger file does not exist yet (a read answers 404).                *)
Absent ==
    [status |-> "absent", revision |-> 0, generation |-> 0,
     fingerprint |-> None, head |-> None, expires |-> 0,
     receipt |-> None, claim |-> None, released |-> None, recovered |-> None]

-----------------------------------------------------------------------------
(* Predicates                                                              *)

(* The part of a ledger that the sweep signs and an attempt presents.      *)
ClaimOf(l) ==
    [generation |-> l.generation, fingerprint |-> l.fingerprint,
     expires |-> l.expires, head |-> l.head]

Receipt(a, claim) == [owner |-> a, claim |-> claim]

Expired(l, at) == at >= l.expires

ClaimMatchesState(claim, l, at) ==
    /\ l.status = "available"
    /\ claim = ClaimOf(l)
    /\ l.expires - Window <= at
    /\ ~Expired(l, at)

Owns(a, refund) == refund # None /\ refund.receipt.owner = a

(* expectedGenerationMatches; the generation 0 is no expectation.          *)
ExpectedGenerationMatches(l, expected, head) ==
    \/ expected = 0
    \/ l.status # "absent" /\ l.generation = expected
    \/ /\ l.status = "available" /\ l.head = head
       /\ \/ /\ l.released # None
             /\ expected \in l.released.lineage
                  \cup {l.released.receipt.claim.generation}
          \/ /\ l.recovered # None
             /\ expected \in l.recovered.lineage
                  \cup {l.recovered.receipt.claim.generation}

(* Mutant of PreparedFor: the status is not looked at.                     *)
HoldsReceiptOf(l, a, claim) ==
    /\ l.head = claim.head
    /\ l.generation = claim.generation
    /\ l.receipt = Receipt(a, claim)

(* A preparation of attempt a with this claim, as finalize and release     *)
(* look for it.                                                            *)
PreparedFor(l, a, claim) ==
    /\ l.status = "prepared"
    /\ l.head = claim.head
    /\ l.generation = claim.generation
    /\ l.receipt = Receipt(a, claim)

(* The settled form of the same preparation.                               *)
ReleasedFor(l, a, claim) ==
    /\ l.status = "available"
    /\ l.head = claim.head
    /\ l.released # None
    /\ l.released.receipt = Receipt(a, claim)

-----------------------------------------------------------------------------
(* The record each conditional write puts in the place of l                *)

Lineage(refund, l) ==
    refund.lineage \cup {refund.receipt.claim.generation, l.generation}

(* beginChallenge: a new generation; the refund of a release on the same   *)
(* head is carried over, that of a reopening is not.                       *)
Issued(l, b, g) ==
    [status |-> "available", revision |-> l.revision + 1, generation |-> g,
     fingerprint |-> b.fingerprint, head |-> b.head, expires |-> b.expires,
     receipt |-> None, claim |-> None,
     released |-> IF l.head = b.head /\ l.status = "available" /\ l.released # None
                  THEN [l.released EXCEPT !.lineage = Lineage(l.released, l)]
                  ELSE None,
     recovered |-> None]

Prepared(l, receipt) ==
    [l EXCEPT !.status = "prepared", !.receipt = receipt,
              !.claim = receipt.claim, !.released = None, !.recovered = None,
              !.revision = @ + 1]

Consumed(l, claim) ==
    [l EXCEPT !.status = "consumed", !.claim = claim, !.revision = @ + 1]

Confirmed(l) == [l EXCEPT !.status = "confirmed", !.revision = @ + 1]

(* The receipt is taken off the ledger.                                    *)
Freed(l) ==
    [l EXCEPT !.status = "available", !.receipt = None, !.claim = None,
              !.revision = @ + 1]

(* A new window under a new generation.                                    *)
Renewed(l, g, at) == [l EXCEPT !.generation = g, !.expires = at + Window]

(* A release keeps the generation of a live window and replaces that of an *)
(* expired one.                                                            *)
Released(l, g, at) ==
    LET free == [Freed(l) EXCEPT !.released =
                   [receipt |-> l.receipt, lineage |-> {l.generation}]]
    IN  IF Expired(l, at) THEN Renewed(free, g, at) ELSE free

ReleasedRefreshed(l, g, at) ==
    [Renewed(l, g, at) EXCEPT
       !.released = [l.released EXCEPT !.lineage = Lineage(l.released, l)],
       !.revision = @ + 1]

(* Mutant of Reopened: the generation is kept.                             *)
ReopenedAsIs(l, g, at) ==
    [Renewed(Freed(l), l.generation, at) EXCEPT
       !.recovered = [receipt |-> l.receipt, lineage |-> {l.generation}]]

Reopened(l, g, at) ==
    [Renewed(Freed(l), g, at) EXCEPT
       !.recovered = [receipt |-> l.receipt, lineage |-> {l.generation}]]

(* The ledger's generations grow with every write that rotates them, so    *)
(* the last n of a lineage are its n largest.                              *)
MostRecent(n, generations) ==
    {g \in generations : Cardinality({h \in generations : h > g}) < n}

(* nextRecoveredLineage: the original generation and the most recent       *)
(* others, LineageLimit in all.                                            *)
NextRecoveredLineage(l) ==
    LET original == l.recovered.receipt.claim.generation
    IN  {original} \cup
          MostRecent(LineageLimit - 1, Lineage(l.recovered, l) \ {original})

RecoveredRefreshed(l, g, at) ==
    [Renewed(l, g, at) EXCEPT
       !.recovered = [l.recovered EXCEPT !.lineage = NextRecoveredLineage(l)],
       !.revision = @ + 1]
=============================================================================
