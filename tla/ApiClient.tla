------------------------------ MODULE ApiClient ------------------------------
(***************************************************************************)
(* One process's calls to GitHub.  A registry in memory holds what the     *)
(* process believes each token has left; other processes use the same      *)
(* tokens, and the registry learns of it from answers and from a refresh   *)
(* every five minutes.  A call is made with the token chosen last, moves   *)
(* to another token when its own is exhausted, and is repeated after       *)
(* passing errors.  An error may hide a request that GitHub carried out.   *)
(***************************************************************************)
EXTENDS Naturals, FiniteSets

CONSTANTS
    Tokens,     \* the registered tokens
    Apps,       \* those of GitHub Apps, minted when first chosen
    Reserved,   \* those whose task is exclusive to them
    Limit,      \* calls a token has in each window
    Enough,     \* calls a token must have left to be chosen (minRemaining)
    Retries,    \* retries of a call through the token registry (5 in the code)
    MaxFaults,  \* bound on errors and failures that are not exhaustion
    MaxSpent,   \* bound on calls of other processes
    MaxCalls    \* bound on the calls of the process

VARIABLES
    budget,     \* what each token has left at GitHub
    registry,   \* what the process knows of each token, and whether it looked lately
    call,       \* the client and its call in progress
    spending    \* faults, other processes' calls and resets, and the calls made

apiVars == <<budget, registry, call, spending>>

Given == "given"     \* the client the workflow was given, of no registered token
Clients == Tokens \cup {Given}
\* A call goes through the token registry, through the retry by category, or
\* through the plain requester; a write may be declared repeatable.
Ways == {"registry", "category", "fetch"}
Methods == {"read", "write", "repeatable"}
NoCall == [phase |-> "none", token |-> Given, own |-> FALSE, way |-> "registry", method |-> "read",
           tries |-> 0, applied |-> 0, blurred |-> 0, refused |-> {}, error |-> "none", noted |-> FALSE]

Init ==
    /\ budget \in {b \in [Clients -> 0..Limit] : b[Given] = Limit}
    /\ registry = [known |-> [t \in Tokens |-> Limit], drift |-> [t \in Tokens |-> Limit],
                   minted |-> {}, fresh |-> FALSE]
    /\ call = NoCall
    /\ spending = [faults |-> 0, others |-> 0, resets |-> 0, calls |-> 0]

Fault(n) == spending.faults + n <= MaxFaults /\ spending' = [spending EXCEPT !.faults = @ + n]

----------------------------------------------------------------------------
\* refreshAllRateLimits: each token is looked up; a look that fails keeps what
\* was known, and without the client library every token gets a few calls.
\* drift: how far the registry may now be above what GitHub has.
Refreshed(failed) ==
    [registry EXCEPT !.known = [t \in Tokens |-> IF t \in failed THEN @[t] ELSE budget[t]],
                     !.drift = [t \in Tokens |-> IF t \in failed THEN Limit ELSE 0],
                     !.minted = @ \cup (Apps \ failed), !.fresh = TRUE]
Guessed == [registry EXCEPT !.known = [t \in Tokens |-> Enough],
                            !.drift = [t \in Tokens |-> Limit], !.fresh = TRUE]

\* Mutant of HasEnough: what is left is not considered.
HasAny(r, t) == r.known[t] >= 0
\* getOptimalToken among tokens other than the excluded: the token reserved
\* for the task when it has enough left, else any that has; score and
\* preference order them.  An App that cannot be minted is passed over, and
\* without its reserved token an exclusive task gets none.
HasEnough(r, t) == r.known[t] >= Enough
Choices(r, own, excluded) ==
    LET eligible == {t \in Tokens \ excluded : HasEnough(r, t)}
    IN IF own /\ eligible \cap Reserved # {} THEN eligible \cap Reserved ELSE eligible
\* The client that results, Given for none: some choices cannot be minted.
Chosen(r, own, excluded, unminted) ==
    LET left == Choices(r, own, excluded) \ (unminted \ r.minted)
    IN IF left = {} THEN {Given} ELSE left
Minted(r, t) == [r EXCEPT !.minted = @ \cup ({t} \cap Apps)]

\* Choosing t refreshes a registry that is five minutes old.
Mishaps == {m \in [failed : {{}} \cup {{t} : t \in Tokens}, guess : BOOLEAN, unminted : SUBSET Apps] :
               registry.fresh => m.failed = {} /\ ~m.guess}
Choose(own, excluded, t) ==
    \E m \in Mishaps :
        LET r == IF registry.fresh THEN registry ELSE IF m.guess THEN Guessed ELSE Refreshed(m.failed)
        IN /\ Fault(Cardinality(m.failed) + Cardinality(m.unminted) + (IF m.guess THEN 1 ELSE 0))
           /\ t \in Chosen(r, own, excluded, m.unminted)
           /\ registry' = Minted(r, t)

\* createTokenAwareRetry: the registry is filled and a client is chosen for
\* the task; without a choice the given client stays.
CreateClient ==
    /\ call.phase = "none"
    /\ \E own \in BOOLEAN, t \in Clients :
          Choose(own, {}, t) /\ call' = [call EXCEPT !.phase = "ready", !.token = t, !.own = own]
    /\ UNCHANGED budget

Start ==
    /\ call.phase \in {"ready", "failed"} /\ spending.calls < MaxCalls
    /\ \E way \in Ways, method \in Methods :
          /\ method = "repeatable" => way = "registry"
          /\ call' = [NoCall EXCEPT !.phase = "send", !.token = call.token, !.own = call.own,
                                    !.way = way, !.method = method]
    /\ spending' = [spending EXCEPT !.calls = @ + 1]
    /\ UNCHANGED <<budget, registry>>

----------------------------------------------------------------------------
\* withRetry: the answer's headers say what the token has left, exactly; an
\* answer without them counts as one call.  Only the registry's way counts.
Left == budget[call.token]
Counted == call.way = "registry" /\ call.token \in Tokens
Account(left, told) ==
    registry' = IF ~Counted THEN [registry EXCEPT !.drift = [t \in Tokens |->
                                       IF t = call.token /\ Left > 0 THEN @[t] + 1 ELSE @[t]]]
                ELSE IF told THEN [registry EXCEPT !.known[call.token] = left, !.drift[call.token] = 0]
                ELSE [registry EXCEPT !.known[call.token] = IF @ = 0 THEN 0 ELSE @ - 1]

Spend == budget' = [budget EXCEPT ![call.token] = @ - 1]
Error(kind, applied, blurred, refused) ==
    call' = [call EXCEPT !.phase = "caught", !.error = kind, !.applied = @ + applied,
                         !.blurred = @ + blurred, !.refused = @ \cup refused]

Answer ==
    /\ call.phase = "send" /\ Left > 0
    /\ Spend /\ \E told \in BOOLEAN : Account(Left - 1, told)
    /\ call' = [call EXCEPT !.phase = "ready", !.applied = @ + 1]
    /\ UNCHANGED spending
\* The token is exhausted: nothing was done.
Refuse ==
    /\ call.phase = "send" /\ Left = 0
    /\ \E told \in BOOLEAN : /\ Account(0, told)
                             /\ Error("primary", 0, 0, IF told /\ call.way = "registry" THEN {call.token} ELSE {})
    /\ UNCHANGED <<budget, spending>>
\* Abuse detection: nothing was done.
Throttle ==
    /\ call.phase = "send" /\ Fault(1)
    /\ Account(Left, FALSE) /\ Error("secondary", 0, 0, {})
    /\ UNCHANGED budget
\* A gateway error, or an answer that did not arrive (the requester's timeout
\* too): the request may have been carried out.
Lose ==
    /\ call.phase = "send" /\ Left > 0 /\ Fault(1)
    /\ Spend /\ Account(Left - 1, FALSE)
    /\ \E applied \in 0..1 : Error("transient", applied, 0, {})
\* Any error whose headers say that nothing is left reads as exhaustion.
LoseExhausted ==
    /\ call.phase = "send" /\ Left = 1 /\ call.way = "registry" /\ Fault(1)
    /\ Spend /\ Account(0, TRUE)
    /\ \E applied \in 0..1 : Error("primary", applied, applied, {call.token})
\* Permissions, validation, a missing resource.
Reject ==
    /\ call.phase = "send" /\ Left > 0 /\ Fault(1)
    /\ Spend /\ Account(Left - 1, TRUE) /\ Error("fatal", 0, 0, {})

----------------------------------------------------------------------------
Fail(noted) == call' = [call EXCEPT !.phase = "failed", !.noted = noted]
Again == call' = [call EXCEPT !.phase = "send", !.tries = @ + 1]
\* Mutant of Repeatable: passing errors are retried whatever the method.
RepeatableAlways == call.error \in {"transient", "secondary"}
Repeatable == \/ call.error = "secondary"
              \/ call.error = "transient" /\ call.method # "write"
\* resolveMaxRetries and the requester's own limits; every limit is passing
\* for the retry by category, whose writes are repeated after a loss too.
RetryLimit ==
    CASE call.way = "registry" -> Retries
      [] call.way = "fetch" -> IF call.method = "read" THEN 2 ELSE 0
      [] OTHER -> IF call.method = "read" THEN 3 ELSE 2

\* An exhausted token is exchanged without a delay; with no other, the call
\* fails with an incident.  An exchange after the last try is not used.
SwitchToken ==
    /\ call.phase = "caught" /\ call.way = "registry" /\ call.error = "primary"
    /\ \E t \in Clients :
          /\ Choose(call.own, {call.token} \cap Tokens, t)
          /\ call' = IF t = Given THEN [call EXCEPT !.phase = "failed", !.noted = TRUE]
                     ELSE [call EXCEPT !.token = t, !.tries = @ + 1,
                                       !.refused = IF registry.fresh THEN @ ELSE {},
                                       !.phase = IF call.tries = Retries THEN "failed" ELSE "send"]
    /\ UNCHANGED budget
RetryCall ==
    /\ call.phase = "caught" /\ call.way = "registry" /\ call.error # "primary"
    /\ IF ~Repeatable THEN Fail(FALSE)
       ELSE IF call.tries = RetryLimit THEN Fail(call.error = "secondary") ELSE Again
    /\ UNCHANGED <<budget, registry, spending>>
\* withGithubApiRetry
RetryByCategory ==
    /\ call.phase = "caught" /\ call.way # "registry"
    /\ IF call.error = "fatal" \/ call.tries >= RetryLimit THEN Fail(FALSE) ELSE Again
    /\ UNCHANGED <<budget, registry, spending>>

\* Other processes, the hourly window and the five minutes.
OthersSpend(t) ==
    /\ spending.others < MaxSpent /\ budget[t] > 0
    /\ budget' = [budget EXCEPT ![t] = @ - 1]
    /\ registry' = IF t \in Tokens THEN [registry EXCEPT !.drift[t] = @ + 1] ELSE registry
    /\ spending' = [spending EXCEPT !.others = @ + 1]
    /\ UNCHANGED call
Reset(t) ==
    /\ spending.resets = 0 /\ budget' = [budget EXCEPT ![t] = Limit]
    /\ spending' = [spending EXCEPT !.resets = 1]
    /\ UNCHANGED <<registry, call>>
GrowStale ==
    /\ registry.fresh /\ registry' = [registry EXCEPT !.fresh = FALSE]
    /\ UNCHANGED <<budget, call, spending>>

Next == \/ CreateClient \/ Start
        \/ Answer \/ Refuse \/ Throttle \/ Lose \/ LoseExhausted \/ Reject
        \/ SwitchToken \/ RetryCall \/ RetryByCategory
        \/ \E t \in Clients : OthersSpend(t) \/ Reset(t)
        \/ GrowStale

----------------------------------------------------------------------------
\* A write is carried out at most once, however its answers were lost, unless
\* an error said in the same breath that the token was exhausted, or the retry
\* by category was used.
WrittenOnce ==
    call.way # "category" /\ call.method = "write" => call.applied <= 1 + call.blurred

\* Limits are respected and known.  While a registry is fresh a call never
\* returns to a token whose answer said that it has nothing left; the registry
\* believes in more calls than GitHub has left only by what others spent since
\* it last looked, or when it could not look; and a call that fails because of
\* a limit leaves an incident, unless its token was exchanged after the last try.
LimitsRespected ==
    /\ call.phase = "send" => call.token \notin call.refused
    /\ \A t \in Tokens : registry.known[t] <= budget[t] + registry.drift[t]
    /\ call.phase = "failed" /\ call.way = "registry" /\ call.error \in {"primary", "secondary"}
         => call.noted \/ (call.error = "primary" /\ call.tries > Retries)
=============================================================================
