--------------------------------- MODULE Agent ---------------------------------
(***************************************************************************)
(* The decision agent and its memory.  A trade that ended is reflected on  *)
(* and remembered; a comparison asks the agent twice for every market      *)
(* state of the past, without and with the memories it retrieved; the      *)
(* agent asks DeepSeek while its budgets last and holds otherwise.         *)
(*                                                                         *)
(* Comparisons that share an agent interleave at every await.  What was    *)
(* decided is left out, only what it cost counts.  A limit of 0 is none.   *)
(***************************************************************************)
EXTENDS Integers, FiniteSets, Files

CONSTANTS
  ClosedTrades,     \* the trades, each with its exit_ts
  ClosingTimes,     \* closed_at_ms of reflect(), 0 when the caller leaves it out
  StateTimes,       \* timestamps of the market states
  Nearest,          \* k of the similarity search
  Costs,            \* what an answer may cost
  ExperimentLimit, MonthlyLimit,
  MaxRetries,       \* DeepSeekConfig.max_retries
  Comparisons       \* those who share the agent

ASSUME AgentAssumption ==
  /\ {ExperimentLimit, MonthlyLimit, MaxRetries, Nearest} \subseteq Nat
  /\ Costs \subseteq Nat /\ Costs # {}
  /\ ClosingTimes \subseteq Nat /\ StateTimes \subseteq Nat
  /\ \A t \in ClosedTrades : t.exit_ts \in Nat

VARIABLES
  memories,  \* the rows of memory_items
  budget,    \* BudgetState: consumed_usd of experiment and month
  asking     \* each comparison: the state, its memories, the arm, the attempt

agentVars == <<memories, budget, asking>>

-----------------------------------------------------------------------------
(* Memories.                                                               *)

\* A Reflection and its id, from entry and exit of the trade and closed_at_ms.
Reflection(trade, closedAt) == [trade |-> trade, outcome_closed_at_ms |-> closedAt]

\* assert_no_leakage: known before the decision, strictly.
KnownBefore(memory, timestamp) == memory.outcome_closed_at_ms < timestamp

NotGiven == -1   \* decision_timestamp_ms, an optional argument

\* MemoryWriter.persist refuses a reflection from before the trade's exit, and one
\* that a decision given with it could not have known.
Closed_unchecked(reflection) == TRUE
Closed(reflection) == reflection.outcome_closed_at_ms >= reflection.trade.exit_ts
PersistReflection(reflection, decisionTime) ==
  /\ Closed(reflection)
  /\ decisionTime # NotGiven => KnownBefore(reflection, decisionTime)
  /\ memories' = memories \cup {reflection}
  /\ UNCHANGED <<budget, asking>>

\* search_similar: the nearest among those known before the time asked for.
Similar(timestamp) ==
  LET known == { m \in memories : KnownBefore(m, timestamp) }
  IN { found \in SUBSET known :
         Cardinality(found) = (IF Nearest < Cardinality(known) THEN Nearest
                               ELSE Cardinality(known)) }

-----------------------------------------------------------------------------
(* MemoryComparison.run.                                                   *)

\* The retriever is the caller's and may ask the search for another time.  If what
\* it finds leaks, the comparison goes on without memories.
Retrieve(c, timestamp, found) ==
  /\ asking[c] = Idle
  /\ asking' = [asking EXCEPT ![c] =
       [stage |-> "ask", ts |-> timestamp, attempt |-> 0, arm |-> "without_memory",
        memories |-> IF \A m \in found : KnownBefore(m, timestamp) THEN found ELSE {}]]
  /\ UNCHANGED <<memories, budget>>

\* An arm is decided: without memories first, then with them, then the next state.
Decided(c) ==
  asking' = [asking EXCEPT ![c] =
    IF @.arm = "with_memory" THEN Idle
    ELSE [@ EXCEPT !.stage = "ask", !.attempt = 0, !.arm = "with_memory"]]

-----------------------------------------------------------------------------
(* DecisionAgent.decide.                                                   *)

Stage(c, stage) == asking[c] # Idle /\ asking[c].stage = stage

Spent(consumed, limit) == limit > 0 /\ consumed >= limit
Blocked_by_month_only == Spent(budget.monthly, MonthlyLimit)
Blocked ==
  Spent(budget.experiment, ExperimentLimit) \/ Spent(budget.monthly, MonthlyLimit)

BudgetExhausted(c) ==
  /\ Stage(c, "ask") /\ Blocked
  /\ Decided(c)
  /\ UNCHANGED <<memories, budget>>

PromptMissing(c) ==
  /\ Stage(c, "ask") /\ ~Blocked
  /\ Decided(c)
  /\ UNCHANGED <<memories, budget>>

CallModel(c) ==
  /\ Stage(c, "ask") /\ ~Blocked
  /\ asking' = [asking EXCEPT ![c].stage = "wait"]
  /\ UNCHANGED <<memories, budget>>

\* CostMonitor.record, in both budgets.
RecordCost(cost) ==
  budget' = [experiment |-> budget.experiment + cost, monthly |-> budget.monthly + cost]

\* 429 and 5xx are tried again, up to max_retries times.
RetryModel(c) ==
  /\ Stage(c, "wait") /\ asking[c].attempt < MaxRetries
  /\ asking' = [asking EXCEPT ![c].attempt = @ + 1]
  /\ UNCHANGED <<memories, budget>>

\* A status that is final, a connection that breaks, an answer that is no decision:
\* recorded with cost 0, whatever DeepSeek charges for it.
HoldForError(c) ==
  /\ Stage(c, "wait")
  /\ RecordCost(0)
  /\ Decided(c)
  /\ UNCHANGED memories

Answered(c, cost) ==
  /\ Stage(c, "wait")
  /\ RecordCost(cost)
  /\ Decided(c)
  /\ UNCHANGED memories

\* The process ends; the next CostMonitor starts at zero.
AgentRestarts ==
  /\ budget' = [experiment |-> 0, monthly |-> 0]
  /\ asking' = [c \in Comparisons |-> Idle]
  /\ UNCHANGED memories

-----------------------------------------------------------------------------

AgentInit ==
  /\ memories = {}
  /\ budget = [experiment |-> 0, monthly |-> 0]
  /\ asking = [c \in Comparisons |-> Idle]

AgentNext ==
  \/ \E trade \in ClosedTrades, closedAt \in ClosingTimes,
        decisionTime \in StateTimes \cup {NotGiven} :
       PersistReflection(Reflection(trade, closedAt), decisionTime)
  \/ \E c \in Comparisons :
       \/ \E timestamp, asked \in StateTimes :
            \E found \in Similar(asked) : Retrieve(c, timestamp, found)
       \/ BudgetExhausted(c) \/ PromptMissing(c) \/ CallModel(c)
       \/ RetryModel(c) \/ HoldForError(c)
       \/ \E cost \in Costs : Answered(c, cost)
  \/ AgentRestarts

AgentSpec == AgentInit /\ [][AgentNext]_agentVars

-----------------------------------------------------------------------------
(* Properties.                                                             *)

\* No decision about a moment of the past is taken with knowledge of a trade that
\* had not ended by then, whoever wrote the memory, with whatever closing time, and
\* whatever time the retriever asked for (PRD section 34).
NoLeakage ==
  \A c \in Comparisons :
    asking[c] # Idle => \A m \in asking[c].memories : m.trade.exit_ts < asking[c].ts

\* The budgets are checked before a call and charged after it: those who share an
\* agent overspend, but together by less than one answer each, the answers still
\* awaited included.
SpendingBounded ==
  LET most == CHOOSE cost \in Costs : \A other \in Costs : other <= cost
      waiting == Cardinality({ c \in Comparisons : Stage(c, "wait") })
      bounded(consumed, limit) ==
        limit > 0 => consumed + waiting * most < limit + Cardinality(Comparisons) * most
  IN /\ bounded(budget.experiment, ExperimentLimit)
     /\ bounded(budget.monthly, MonthlyLimit)
=============================================================================
