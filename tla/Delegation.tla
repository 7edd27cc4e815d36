----------------------------- MODULE Delegation -----------------------------
(***************************************************************************)
(* Which agent works on a pull request next.  Each evaluation of the loop  *)
(* reads the latest completion of every agent from comments, and chooses   *)
(* by labels, by what the state comment remembers, by an exported ranking  *)
(* and by what stands against an agent: a rate limit that has not expired, *)
(* a failed startup, or that it was tried.  Auto-pilot, which opens the    *)
(* pull request, goes from agent to agent before it calls a person.        *)
(***************************************************************************)
EXTENDS Naturals, Sequences, FiniteSets

CONSTANTS
    Order,       \* the agents as the registry lists them; the first is the default
    Exports,     \* what the ranking export may say
    Cooldown,    \* rounds between switches
    MaxRounds, MaxFaults, MaxChanges   \* bounds

VARIABLES
    record,      \* of each agent, the record of its latest reservation
    marks,       \* the labels of the pull request
    memo,        \* what the state comment remembers
    turn,        \* the round under way
    belt,        \* the issue auto-pilot works on
    supply       \* agents that can run, time, faults and changes

delegationVars == <<record, marks, memo, turn, belt, supply>>

Agents == {Order[i] : i \in DOMAIN Order}
Default == Order[1]
Nobody == "nobody"
FirstOf(S) == CHOOSE x \in S : \A y \in S :
                 (CHOOSE i \in DOMAIN Order : Order[i] = x) <= (CHOOSE i \in DOMAIN Order : Order[i] = y)
Static(S) == IF Default \in S THEN Default ELSE FirstOf(S)
\* loadRouteWeights: an export that is missing, late or malformed is none.
NoExport == [evidence |-> FALSE, ranking |-> <<>>, reserve |-> {}, ok |-> Agents, challenger |-> Nobody]
Idle == [phase |-> "idle", agent |-> Nobody, from |-> Nobody, fallback |-> Nobody,
         auto |-> FALSE, switch |-> FALSE, chosen |-> FALSE, result |-> "none"]

Init ==
    /\ record = [a \in Agents |-> [reason |-> "none", at |-> 0, old |-> FALSE]]
    /\ marks \in [auto : BOOLEAN, route : {{}} \cup {{a} : a \in Agents}, tried : {{}}, limited : {FALSE}]
    /\ memo = [current |-> Nobody, iteration |-> 0, switched |-> 0, history |-> <<>>]
    /\ turn = Idle
    /\ belt \in [route : {{Default}}, tried : {{}}, state : {"stalled", "human"}]
    /\ supply = [able |-> Agents, clock |-> 0, faults |-> 0, changes |-> 0]

Fault(wrong) == /\ wrong => supply.faults < MaxFaults
                /\ supply' = [supply EXCEPT !.faults = IF wrong THEN @ + 1 ELSE @]

----------------------------------------------------------------------------
\* loadLatestCompletion: the newest of the ended records.  While a younger
\* reservation is pending nothing is read; progress of any agent makes older
\* limits void.
Ended == {a \in Agents : record[a].reason \notin {"none", "pending"}}
Latest == CHOOSE a \in Ended : \A b \in Ended : record[b].at <= record[a].at
Legible == /\ Ended # {}
           /\ \A a \in Agents : record[a].reason = "pending" => record[a].at <= record[Latest].at
Limits == {a \in Agents : /\ record[a].reason = "limited"
                          /\ \A b \in Agents : record[b].reason = "progressed" => record[b].at < record[a].at}
\* recentInstallFailures
Failures == {a \in Agents : record[a].reason = "install" /\ ~record[a].old}
Blocked == {a \in Limits : ~record[a].old} \cup Failures
Expired == {a \in Limits : record[a].old}
Unread == [agent |-> Nobody, reason |-> "none", limits |-> {}, failures |-> {}]
Read == [agent |-> Latest, reason |-> IF record[Latest].reason = "limited" /\ record[Latest].old
                                      THEN "expired" ELSE record[Latest].reason,
         limits |-> Limits \ Expired, failures |-> Failures]

\* calculateEffectiveness and detectStall, over the last three rounds.
Recent == LET n == Len(memo.history) IN SubSeq(memo.history, IF n > 3 THEN n - 2 ELSE 1, n)
In(results) == \E i \in DOMAIN Recent : Recent[i] \in results
Effective == In({"task"}) \/ (In({"commit", "green"}) /\ In({"pass", "green"}))
Stalled == LET n == Len(memo.history) IN
           n >= 2 /\ {memo.history[n], memo.history[n - 1]} \subseteq {"pass", "none", "failed"}

\* selectAgentFromRouteWeights: never a reserved agent.
Weighted(w, S, explore) ==
    LET fit == S \ w.reserve
        ranked == {i \in DOMAIN w.ranking : w.ranking[i] \in fit}
    IN IF ~w.evidence THEN Nobody
       ELSE IF explore /\ w.challenger \in fit THEN w.challenger
       ELSE IF ranked = {} THEN Nobody ELSE w.ranking[CHOOSE i \in ranked : \A j \in ranked : i <= j]

Explicit == IF Cardinality(marks.route) = 1 THEN CHOOSE a \in marks.route : TRUE ELSE Nobody
Base == IF Explicit = Nobody THEN Default ELSE Explicit
Current(c) == IF ~marks.auto /\ Explicit # Nobody THEN Explicit
              ELSE IF memo.current # Nobody THEN memo.current
              ELSE IF c.reason \in {"limited", "expired"} THEN c.agent
              ELSE IF Base \in c.failures THEN Base ELSE Nobody
\* Mutant of Available: only the agent of the latest record is held back.
AvailableLatest(w, c, current) ==
    {a \in supply.able : /\ a = c.agent => a \notin c.limits \cup c.failures
                         /\ (current # Nobody /\ current \notin c.failures) \/ a \in w.ok}
\* The pools only count before an agent was chosen.
Available(w, c, current) ==
    {a \in supply.able \ (c.limits \cup c.failures) :
        (current # Nobody /\ current \notin c.failures) \/ a \in w.ok}

\* decideNextAgent
Stay(a) == [agent |-> a, switch |-> FALSE, why |-> "chosen"]
Turn(a) == [agent |-> a, switch |-> TRUE, why |-> "chosen"]
Nothing(why) == [agent |-> Nobody, switch |-> FALSE, why |-> why]
Initial(w, S, explore) ==
    LET weighted == Weighted(w, S, explore) IN
    IF Explicit \in S THEN Explicit ELSE IF weighted # Nobody THEN weighted ELSE Static(S)
Rotate(w, current, S, limited, explore) ==
    LET others == {a \in S \ {current} : limited => a \in w.ok}
        weighted == Weighted(w, others, explore /\ ~limited)
        plain == IF w.evidence THEN others \ w.reserve ELSE others
    IN IF weighted # Nobody THEN Turn(weighted) ELSE IF plain # {} THEN Turn(FirstOf(plain))
       ELSE IF limited THEN Nothing("limits") ELSE Stay(current)
Decision(w, c, tried, explore) ==
    LET current == Current(c)
        limited == c.reason = "limited" /\ c.agent = current
        S == Available(w, c, current)
    IN IF Cardinality(marks.route) > 1 THEN Nothing("labels")
       ELSE IF S = {} THEN Nothing(IF current \in c.failures THEN "installs" ELSE IF limited THEN "limits" ELSE "none")
       ELSE IF c.reason = "expired" /\ c.agent \in S THEN [Stay(c.agent) EXCEPT !.switch = current # c.agent]
       ELSE IF current = Nobody THEN Stay(Initial(w, S, explore))
       ELSE IF ~limited /\ current \notin S THEN Turn(Static(S))
       ELSE IF ~limited /\ (Effective \/ memo.iteration < memo.switched + Cooldown \/ ~Stalled) THEN Stay(current)
       ELSE Rotate(w, current, S \ tried, limited, explore)

----------------------------------------------------------------------------
\* evaluateKeepaliveLoop.  The labels say whether keepalive is on and which
\* agent it starts from; agent:auto wins over an agent beside it.
Routed == marks.auto \/ Cardinality(marks.route) = 1
RouteAgent == IF marks.auto THEN Default ELSE Explicit
\* A completion that was read settles the labels about it, unless a call fails.
Drained(c) == c.reason = "progressed" \/ (Expired # {} /\ c.limits = {})
Settled(c) ==
    [marks EXCEPT !.tried = IF c.reason = "progressed" THEN {} ELSE @ \ Expired,
                  !.limited = IF Drained(c) THEN @ /\ c.limits # {} ELSE @ \/ c.reason = "limited"]
Failing(c) == RouteAgent \in c.failures \/ (marks.auto /\ memo.current \in c.failures)
Sent(agent) == [Idle EXCEPT !.phase = "send", !.agent = agent, !.auto = marks.auto]
Stopped == [Idle EXCEPT !.phase = "closing", !.auto = marks.auto, !.result = "stopped"]
Choice(d, c) ==
    IF d.switch
    THEN [Sent(d.agent) EXCEPT !.phase = "relabel", !.from = Current(c), !.switch = TRUE, !.chosen = c # Unread,
             !.fallback = IF c.reason \in {"limited", "expired"} \/ Failing(c) \/ Current(c) \in c.failures
                          THEN Nobody ELSE RouteAgent]
    ELSE IF d.agent # Nobody THEN [Sent(d.agent) EXCEPT !.chosen = c # Unread]
    ELSE IF d.why = "none" THEN Sent(RouteAgent) ELSE Stopped
Evaluate(w, explore) ==
    /\ turn.phase = "idle" /\ Routed /\ supply.clock < MaxRounds
    /\ \E read, settles \in BOOLEAN :
          LET c == IF read /\ Legible THEN Read ELSE Unread
              kept == IF settles /\ c # Unread THEN Settled(c) ELSE marks
          IN /\ Legible \/ (read /\ settles)
             /\ Fault(~read \/ ~settles)
             /\ marks' = kept
             /\ turn' = IF marks.auto \/ Failing(c) THEN Choice(Decision(w, c, kept.tried, explore), c)
                        ELSE Sent(RouteAgent)
    /\ UNCHANGED <<record, memo, belt>>
\* The three label calls of a switch; the first that fails ends it.
Relabel ==
    /\ turn.phase = "relabel"
    /\ \E calls \in 0..3 :
          /\ Fault(calls < 3)
          /\ marks' = [marks EXCEPT !.auto = @ \/ calls > 0,
                                    !.tried = IF calls > 0 THEN @ \cup {turn.from} ELSE @,
                                    !.route = (IF calls > 1 THEN @ \ {turn.from} ELSE @)
                                              \cup (IF calls > 2 THEN {turn.agent} ELSE {})]
          /\ turn' = IF calls = 3 THEN [turn EXCEPT !.phase = "send", !.auto = TRUE]
                     ELSE IF turn.fallback # Nobody THEN [Sent(turn.fallback) EXCEPT !.auto = TRUE]
                     ELSE [Stopped EXCEPT !.auto = TRUE]
    /\ UNCHANGED <<record, memo, belt>>
\* The runner reserves, works and completes its record.
Send ==
    /\ turn.phase = "send"
    /\ supply' = [supply EXCEPT !.clock = @ + 1]
    /\ record' = [record EXCEPT ![turn.agent] = [reason |-> "pending", at |-> supply.clock + 1, old |-> FALSE]]
    /\ turn' = [turn EXCEPT !.phase = "running"]
    /\ UNCHANGED <<marks, memo, belt>>
Finish(reason, result) ==
    /\ turn.phase = "running"
    /\ turn.agent \notin supply.able => reason = "install"
    /\ record' = [record EXCEPT ![turn.agent].reason = reason]
    /\ turn' = [turn EXCEPT !.phase = "closing", !.result = result]
    /\ UNCHANGED <<marks, memo, belt, supply>>
Crash ==
    /\ turn.phase = "running" /\ Fault(TRUE)
    /\ turn' = [turn EXCEPT !.phase = "closing", !.result = "failed"]
    /\ UNCHANGED <<record, marks, memo, belt>>
\* updateKeepaliveLoopSummary: what is remembered of the agent.  A round that
\* stopped names no agent, and the default one is written.
Remembered ==
    LET worked == turn.result # "stopped"
        next == memo.iteration + (IF turn.result \notin {"failed", "stopped"} THEN 1 ELSE 0)
    IN IF ~turn.auto /\ memo.current = Nobody THEN [memo EXCEPT !.iteration = next]
       ELSE [current |-> IF worked THEN turn.agent ELSE Default, iteration |-> next,
             switched |-> IF turn.switch THEN next ELSE memo.switched,
             history |-> IF worked THEN Append(memo.history, turn.result) ELSE memo.history]
Close ==
    /\ turn.phase = "closing"
    /\ \E saved \in BOOLEAN : Fault(~saved) /\ memo' = IF saved THEN Remembered ELSE memo
    /\ turn' = Idle
    /\ UNCHANGED <<record, marks, belt>>

----------------------------------------------------------------------------
\* tryBeltStallRotation; any failed removal of a label is passed over, and
\* any other failed call leaves the issue to a person.
Held == IF belt.route = {} THEN {Default} ELSE belt.route
Rotation(current) ==
    LET remaining == supply.able \ (belt.tried \cup {current}) IN
    /\ belt.state = "stalled"
    /\ IF remaining = {} THEN belt' = [belt EXCEPT !.state = "human"] /\ Fault(FALSE)
       ELSE \E removed, added, dispatched \in BOOLEAN :
               LET rest == IF removed THEN belt.route \ {current} ELSE belt.route IN
               /\ (added \/ ~dispatched) /\ Fault(~removed \/ ~dispatched)
               /\ belt' = [route |-> IF added THEN rest \cup {FirstOf(remaining)} ELSE rest,
                           tried |-> IF added THEN belt.tried \cup {current} ELSE belt.tried,
                           state |-> IF dispatched THEN "working" ELSE "human"]
    /\ UNCHANGED <<record, marks, memo, turn>>
Stall == /\ belt.state = "working" /\ belt' = [belt EXCEPT !.state = "stalled"]
         /\ UNCHANGED <<record, marks, memo, turn, supply>>

\* The world: limits end, people set labels, an agent's secret comes or goes.
Expire(a) == /\ record[a].reason \in {"limited", "install"} /\ ~record[a].old
             /\ record' = [record EXCEPT ![a].old = TRUE]
             /\ UNCHANGED <<marks, memo, turn, belt, supply>>
Change(able, relabelled) ==
    /\ supply.changes < MaxChanges
    /\ supply' = [supply EXCEPT !.able = able, !.changes = @ + 1]
    /\ marks' = relabelled
    /\ UNCHANGED <<record, memo, turn, belt>>

Next ==
    \/ \E w \in Exports \cup {NoExport}, explore \in BOOLEAN : Evaluate(w, explore)
    \/ Relabel \/ Send \/ Crash \/ Close
    \/ \E result \in {"task", "green", "commit"} : Finish("progressed", result)
    \/ \E result \in {"pass", "none"} : Finish("quiet", result)
    \/ \E reason \in {"limited", "install"} : Finish(reason, "failed")
    \/ \E current \in Held : Rotation(current)
    \/ Stall
    \/ \E a \in Agents : Expire(a)
    \/ \E a \in Agents : Change(IF a \in supply.able THEN supply.able \ {a} ELSE supply.able \cup {a}, marks)
    \/ \E a \in Agents, auto \in BOOLEAN : Change(supply.able, [marks EXCEPT !.auto = auto, !.route = {a}])

----------------------------------------------------------------------------
\* An agent the policy chose has no limit and no failed startup that still
\* stands, whichever way it was chosen: first, kept, turned to, or back from
\* a limit that ended.
ChoiceStands == turn.phase \in {"relabel", "send"} /\ turn.chosen => turn.agent \notin Blocked
=============================================================================
