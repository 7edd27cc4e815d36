---------------------------- MODULE MCServices ------------------------------
(* Services that do not share state, checked side by side: a behaviour      *)
(* follows one of them.  The cells hold the variables of that one.          *)
EXTENDS Naturals, FiniteSets

CONSTANTS                            \* what is followed, and bounds
    Credentials, AppTokens, ReservedTokens,     \* the tokens of the client
    CallLimit, EnoughCalls, CallRetries,        \* its limits, and the calls it
    OthersCalls, Calls,                         \* and others make
    Executions, Aliases, Pilots, Disturbances,  \* corrections of a finding
    Judgements,    \* runs of the verifier that lead to a closing job
    Events,        \* what happens around the verifier meanwhile
    GateRuns,      \* runs of the Gate
    Tests, Edits,  \* runs on a fork, and edits of its labels and reviews
    Revisions,     \* changes around the body of a pull request
    Faults         \* failed and lost requests

ASSUME ServicesAssumption ==
    /\ "given" \notin Credentials /\ AppTokens \subseteq Credentials
    /\ CallLimit \in Nat /\ EnoughCalls \in 1..CallLimit /\ Events \in Nat

VARIABLES
    part,                            \* what is followed
    c1, c2, c3, c4, c5, c6, c7, c8   \* its variables, in the order of its module

cells == <<c1, c2, c3, c4, c5, c6, c7, c8>>

Client == INSTANCE ApiClient
    WITH Tokens <- Credentials, Apps <- AppTokens, Reserved <- ReservedTokens, Limit <- CallLimit,
         Enough <- EnoughCalls, Retries <- CallRetries, MaxFaults <- Faults, MaxSpent <- OthersCalls,
         MaxCalls <- Calls,
         budget <- c1, registry <- c2, call <- c3, spending <- c4
Corrections == INSTANCE CorrectionEffects
    WITH Attempts <- Executions, Requests <- Aliases, MaxPilots <- Pilots, MaxFaults <- Faults,
         MaxChanges <- Disturbances,
         attempt <- c1, journal <- c2, native <- c3, pilots <- c4, world <- c5
Fork == INSTANCE ForkStatus
    WITH MaxTests <- Tests, MaxEdits <- Edits, MaxFaults <- Faults,
         fork <- c1, checks <- c2, status <- c3, queue <- c4, spent <- c5
Body == INSTANCE PullRequestBody
    WITH MaxChanges <- Revisions, MaxFaults <- Faults,
         pr <- c1, body <- c2, issue <- c3, talk <- c4, checks <- c5, hub <- c6, round <- c7, past <- c8
Verification == INSTANCE VerificationRuns
    WITH MaxEvents <- Events, MaxFaults <- Faults,
         world <- c1, rows <- c2, runs <- c3, past <- c4
Closure == INSTANCE SourceClosure
    WITH MaxRuns <- Judgements, MaxEvents <- Events, MaxFaults <- Faults,
         issue <- c1, ci <- c2, runs <- c3, past <- c4
Comments == INSTANCE GateComments
    WITH MaxRuns <- GateRuns, MaxFaults <- Faults,
         comments <- c1, run <- c2, wire <- c3, past <- c4

afterFour == <<c5, c6, c7, c8>>
afterFive == <<c6, c7, c8>>

Init == \/ part = "client" /\ Client!Init
           /\ c5 = 0 /\ c6 = 0 /\ c7 = 0 /\ c8 = 0
        \/ part = "corrections" /\ Corrections!Init
           /\ c6 = 0 /\ c7 = 0 /\ c8 = 0
        \/ part = "fork" /\ Fork!Init
           /\ c6 = 0 /\ c7 = 0 /\ c8 = 0
        \/ part = "body" /\ Body!Init
        \/ part = "verification" /\ Verification!Init
           /\ c5 = 0 /\ c6 = 0 /\ c7 = 0 /\ c8 = 0
        \/ part = "closure" /\ Closure!Init
           /\ c5 = 0 /\ c6 = 0 /\ c7 = 0 /\ c8 = 0
        \/ part = "comments" /\ Comments!Init
           /\ c5 = 0 /\ c6 = 0 /\ c7 = 0 /\ c8 = 0
Next == \/ part = "client" /\ Client!Next /\ UNCHANGED <<part, afterFour>>
        \/ part = "corrections" /\ Corrections!Next /\ UNCHANGED <<part, afterFive>>
        \/ part = "fork" /\ Fork!Next /\ UNCHANGED <<part, afterFive>>
        \/ part = "body" /\ Body!Next /\ UNCHANGED part
        \/ part = "verification" /\ Verification!Next /\ UNCHANGED <<part, afterFour>>
        \/ part = "closure" /\ Closure!Next /\ UNCHANGED <<part, afterFour>>
        \/ part = "comments" /\ Comments!Next /\ UNCHANGED <<part, afterFour>>
Spec == Init /\ [][Next]_<<part, cells>>

WrittenOnce == part = "client" => Client!WrittenOnce
LimitsRespected == part = "client" => Client!LimitsRespected
CorrectedOnce == part = "corrections" => Corrections!CorrectedOnce
GreenTrue == part = "fork" => Fork!GreenTrue
BodySettles == part = "body" => Body!BodySettles
EvaluatedOnce == part = "verification" => Verification!EvaluatedOnce
ClosedAsJudged == part = "closure" => Closure!ClosedAsJudged
CommentsTrue == part = "comments" => Comments!CommentsTrue
VerdictsInOrder == [][part = "fork" => Fork!InOrder]_cells
=============================================================================
