------------------------- MODULE SingleUseAuthority -------------------------
(***************************************************************************)
(* What keepalive_authority_state.js promises: at any time at most one     *)
(* generation is on offer, one attempt may reserve it, a reservation is    *)
(* spent or returned, and what has been spent is never offered again.      *)
(* There are no requests, clocks or failures here; AuthorityLedger is      *)
(* shown to implement this specification.                                  *)
(***************************************************************************)
EXTENDS Naturals

CONSTANTS Attempts, None

VARIABLES
    phase,        \* of the current generation
    generation,   \* the current generation; 0 before the first
    holder,       \* the attempt that reserved it, or None
    spent         \* history: generations that were spent, with their owners

vars == <<phase, generation, holder, spent>>

Phases == {"none", "open", "reserved", "spent", "settled"}

(* A reservation may be there from the start: the one of an older writer.  *)
Init ==
    /\ \/ phase = "none" /\ generation = 0 /\ holder = None
       \/ phase = "reserved" /\ generation = 1 /\ holder \in Attempts
    /\ spent = {}

Unspent(g) == \A s \in spent : s.generation # g

(* A new generation takes the place of the current one, whatever its phase.*)
Offer ==
    /\ phase' = "open" /\ holder' = None
    /\ generation' \in Nat \ {generation}
    /\ \A s \in spent : s.generation # generation'
    /\ UNCHANGED spent

Reserve(a) ==
    /\ phase = "open" /\ Unspent(generation)
    /\ phase' = "reserved" /\ holder' = a
    /\ UNCHANGED <<generation, spent>>

Refund ==
    /\ phase = "reserved"
    /\ phase' = "open" /\ holder' = None
    /\ UNCHANGED <<generation, spent>>

Spend ==
    /\ phase = "reserved" /\ Unspent(generation)
    /\ phase' = "spent"
    /\ spent' = spent \cup {[generation |-> generation, owner |-> holder]}
    /\ UNCHANGED <<generation, holder>>

Settle ==
    /\ phase = "spent"
    /\ phase' = "settled"
    /\ UNCHANGED <<generation, holder, spent>>

Next ==
    \/ Offer \/ Refund \/ Spend \/ Settle
    \/ \E a \in Attempts : Reserve(a)

Spec == Init /\ [][Next]_vars
=============================================================================
