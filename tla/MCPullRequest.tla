--------------------------- MODULE MCPullRequest ----------------------------
(* The handlers around one pull request, checked side by side: a behaviour  *)
(* follows one of them.  The cells hold the variables of that one.          *)
EXTENDS Naturals, Sequences, FiniteSets

CONSTANTS                                \* what is followed, and bounds
    Commits, PostWorks, Writes,          \* commits, runs after a round, other writers of its comment
    Orchestrators, Caps, Edits,          \* runs of the orchestrator, caps, edits of the pull request
    Instructions, Deliveries, Started, Tries,
    AgentOrder, RouteExports, SwitchCooldown,   \* the agents, their ranking, rounds between switches
    AgentRounds, AgentFaults, AgentChanges,
    Permissions, KeepaliveRuns, Changes, \* permissions that may be missing, rounds, changes around them
    Faults                               \* failed and lost requests

ASSUME HandlersAssumption ==
    /\ IsFiniteSet(Orchestrators) /\ Caps \subseteq Nat /\ 0 \notin Deliveries
    /\ AgentOrder \in Seq(STRING)
    /\ \A w \in RouteExports : w.ranking \in Seq(STRING)

VARIABLES
    part,                            \* what is followed
    c1, c2, c3, c4, c5, c6, c7, c8   \* its variables, in the order of its module

cells == <<c1, c2, c3, c4, c5, c6, c7, c8>>

\* An instance: two agents, and an export that ranks both and reserves the first.
TwoAgents == <<"codex", "claude">>
ClaudeFirst == {[evidence |-> TRUE, ranking |-> <<"claude", "codex">>, reserve |-> {"codex"}, ok |-> {"claude"},
                 challenger |-> "codex"]}

Sync == INSTANCE BranchSync
    WITH MaxHead <- Commits, MaxRuns <- PostWorks, MaxFaults <- Faults, MaxWrites <- Writes,
         branch <- c1, note <- c2, job <- c3, runs <- c4, seen <- c5
Gate == INSTANCE OrchestratorGate
    WITH Runs <- Orchestrators, Caps <- Caps, MaxEdits <- Edits, MaxFaults <- Faults,
         pull <- c1, run <- c2, drafted <- c3, past <- c4
Instruction == INSTANCE InstructionDispatch
    WITH Instructions <- Instructions, Events <- Deliveries, MaxRuns <- Started, MaxTries <- Tries, MaxFaults <- Faults,
         posted <- c1, reactions <- c2, event <- c3, started <- c4, served <- c5, worker <- c6, branch <- c7, faults <- c8
Agents == INSTANCE Delegation
    WITH Order <- AgentOrder, Exports <- RouteExports, Cooldown <- SwitchCooldown,
         MaxRounds <- AgentRounds, MaxFaults <- AgentFaults, MaxChanges <- AgentChanges,
         record <- c1, marks <- c2, memo <- c3, turn <- c4, belt <- c5, supply <- c6
Attention == INSTANCE KeepaliveAttention
    WITH Boundaries <- Permissions, MaxRuns <- KeepaliveRuns, MaxFaults <- Faults, MaxChanges <- Changes,
         authority <- c1, note <- c2, request <- c3, round <- c4, pr <- c5, tally <- c6
Belt == INSTANCE BeltClaimsProofs
    WITH Window <- 1, MaxTime <- 2, MaxEvents <- 2, MaxFaults <- 1,
         issue <- c1, pr <- c2, worker <- c3, sweep <- c4, jobs <- c5, past <- c6

afterFour == <<c5, c6, c7, c8>>
afterFive == <<c6, c7, c8>>
afterSix == <<c7, c8>>

\* agents follows the pull request, belt the issue that auto-pilot works on.
Init == \/ part = "sync" /\ Sync!Init
           /\ c6 = 0 /\ c7 = 0 /\ c8 = 0
        \/ part = "gate" /\ Gate!Init
           /\ c5 = 0 /\ c6 = 0 /\ c7 = 0 /\ c8 = 0
        \/ part = "instruction" /\ Instruction!Init
        \/ part = "agents" /\ Agents!Init /\ c5.state = "human"
           /\ c7 = 0 /\ c8 = 0
        \/ part = "belt" /\ Agents!Init /\ c5.state = "stalled" /\ ~c2.auto /\ c2.route = {}
           /\ c7 = 0 /\ c8 = 0
        \/ part = "attention" /\ Attention!Init
           /\ c7 = 0 /\ c8 = 0
        \/ part = "conveyor" /\ Belt!Init
           /\ c7 = 0 /\ c8 = 0
Next == \/ part = "sync" /\ Sync!Next /\ UNCHANGED <<part, afterFive>>
        \/ part = "gate" /\ Gate!Next /\ UNCHANGED <<part, afterFour>>
        \/ part = "instruction" /\ Instruction!Next /\ UNCHANGED part
        \/ part \in {"agents", "belt"} /\ Agents!Next /\ UNCHANGED <<part, afterSix>>
        \/ part = "attention" /\ Attention!Next /\ UNCHANGED <<part, afterSix>>
        \/ part = "conveyor" /\ Belt!Next /\ UNCHANGED <<part, afterSix>>
Spec == Init /\ [][Next]_<<part, cells>>

AskedOnce == part = "sync" => Sync!AskedOnce
OthersKept == part = "sync" => Sync!OthersKept
WithinLimits == part = "gate" => Gate!WithinLimits
InstructedOnce == part = "instruction" => Instruction!InstructedOnce
ChoiceStands == part = "agents" => Agents!ChoiceStands
CallExplained == part = "attention" => Attention!CallExplained
LeaseUsedOnce == part = "attention" => Attention!LeaseUsedOnce
ActsAsLastSeen == part = "conveyor" => Belt!ActsAsLastSeen
=============================================================================
