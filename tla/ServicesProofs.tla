---------------------------- MODULE ServicesProofs -----------------------------
(***************************************************************************)
(* What holds of those who decide and of what is ordered: the decision     *)
(* agent and its memory, for every set of trades, closing times, states,   *)
(* costs and comparisons; orders, for every set of requests and any number *)
(* of attempts; strategies, trackers and regimes, for every data set,      *)
(* every period and every length of a streak.                              *)
(***************************************************************************)
EXTENDS Agent, Orders, Strategies, FiniteSetTheorems, WellFoundedInduction, TLAPS

-----------------------------------------------------------------------------
(* The agent's memory.                                                     *)

Memories == [trade : ClosedTrades, outcome_closed_at_ms : ClosingTimes]

\* What MemoryComparison.run keeps of a comparison that is under way.
Asking ==
  [stage : {"ask", "wait"}, ts : StateTimes, attempt : Nat,
   arm : {"without_memory", "with_memory"}, memories : SUBSET Memories]

\* A memory was written when its trade had ended; what a comparison works with was
\* known before the state it asks about.
MemoriesKnown ==
  /\ memories \subseteq Memories
  /\ \A m \in memories : Closed(m)
  /\ asking \in [Comparisons -> Asking \cup {Idle}]
  /\ \A c \in Comparisons : asking[c] # Idle =>
       \A m \in asking[c].memories : Closed(m) /\ KnownBefore(m, asking[c].ts)

\* A comparison that asks is told apart from one that rests by its stage.
LEMMA AskingIsNotIdle == \A a \in Asking : a # Idle
  BY DEF Asking, Idle

\* The decision of an arm leaves the comparison's state and memories alone.
LEMMA DecidedKeeps ==
  ASSUME NEW c \in Comparisons, MemoriesKnown, asking[c] # Idle, Decided(c)
  PROVE  /\ asking' \in [Comparisons -> Asking \cup {Idle}]
         /\ \A d \in Comparisons : asking'[d] # Idle =>
              /\ asking[d] # Idle
              /\ asking'[d].memories = asking[d].memories
              /\ asking'[d].ts = asking[d].ts
<1>1. asking[c] \in Asking
  BY DEF MemoriesKnown
<1>2. CASE asking[c].arm = "with_memory"
  BY <1>2 DEF Decided, MemoriesKnown
<1>3. CASE asking[c].arm # "with_memory"
  <2> DEFINE next == [asking[c] EXCEPT !.stage = "ask", !.attempt = 0,
                                       !.arm = "with_memory"]
  <2>1. asking' = [asking EXCEPT ![c] = next]
    BY <1>3 DEF Decided
  <2>2. next \in Asking /\ next.memories = asking[c].memories /\ next.ts = asking[c].ts
    BY <1>1 DEF Asking
  <2> HIDE DEF next
  <2>3. QED
    BY <2>1, <2>2 DEF MemoriesKnown
<1>4. QED
  BY <1>2, <1>3

\* Steps that add no memory keep the invariant if they keep what is asked.
LEMMA KeptIsKnown ==
  ASSUME MemoriesKnown, memories' = memories,
         asking' \in [Comparisons -> Asking \cup {Idle}],
         \A d \in Comparisons : asking'[d] # Idle =>
           /\ asking[d] # Idle
           /\ asking'[d].memories = asking[d].memories
           /\ asking'[d].ts = asking[d].ts
  PROVE  MemoriesKnown'
  BY DEF MemoriesKnown, Closed, KnownBefore

\* No memory exists at the start.
LEMMA InitKnown == AgentInit => MemoriesKnown
  BY DEF AgentInit, MemoriesKnown

\* A reflection is stored.
LEMMA PersistKnown ==
  ASSUME NEW trade \in ClosedTrades, NEW closedAt \in ClosingTimes, NEW time,
         MemoriesKnown, PersistReflection(Reflection(trade, closedAt), time)
  PROVE  MemoriesKnown'
<1> DEFINE written == Reflection(trade, closedAt)
<1>1. written \in Memories
  BY DEF Reflection, Memories
<1>2. Closed(written) /\ memories' = memories \cup {written} /\ UNCHANGED asking
  BY DEF PersistReflection
<1> HIDE DEF written
<1>3. QED
  BY <1>1, <1>2 DEF MemoriesKnown, Closed, KnownBefore

\* A retrieval stores nothing.
LEMMA RetrieveKnown ==
  ASSUME NEW c \in Comparisons, NEW timestamp \in StateTimes,
         NEW found \in SUBSET memories, MemoriesKnown, Retrieve(c, timestamp, found)
  PROVE  MemoriesKnown'
<1> DEFINE kept == IF \A m \in found : KnownBefore(m, timestamp) THEN found ELSE {}
           next == [stage |-> "ask", ts |-> timestamp, attempt |-> 0,
                    arm |-> "without_memory", memories |-> kept]
<1>1. kept \subseteq memories /\ \A m \in kept : KnownBefore(m, timestamp)
  OBVIOUS
<1>2. memories' = memories /\ asking' = [asking EXCEPT ![c] = next]
  BY DEF Retrieve
<1> HIDE DEF kept
<1>3. next \in Asking /\ next.memories = kept /\ next.ts = timestamp
  BY <1>1 DEF Asking, MemoriesKnown, Memories
<1> HIDE DEF next
<1>4. QED
  BY <1>1, <1>2, <1>3 DEF MemoriesKnown, Closed, KnownBefore

\* What every action of the agent keeps.
LEMMA StepKnown == MemoriesKnown /\ [AgentNext]_agentVars => MemoriesKnown'
<1> SUFFICES ASSUME MemoriesKnown, [AgentNext]_agentVars PROVE MemoriesKnown'
  OBVIOUS
<1>1. CASE \E trade \in ClosedTrades, closedAt \in ClosingTimes,
              time \in StateTimes \cup {NotGiven} :
             PersistReflection(Reflection(trade, closedAt), time)
  BY <1>1, PersistKnown
<1>2. ASSUME NEW c \in Comparisons, NEW timestamp \in StateTimes,
             NEW asked \in StateTimes, NEW found \in Similar(asked),
             Retrieve(c, timestamp, found)
      PROVE  MemoriesKnown'
  <2>1. found \in SUBSET memories
    BY DEF Similar
  <2>2. QED
    BY <1>2, <2>1, RetrieveKnown
<1>3. ASSUME NEW c \in Comparisons,
             BudgetExhausted(c) \/ PromptMissing(c) \/ HoldForError(c)
               \/ \E cost \in Costs : Answered(c, cost)
      PROVE  MemoriesKnown'
  <2>1. asking[c] # Idle /\ Decided(c) /\ memories' = memories
    BY <1>3 DEF BudgetExhausted, PromptMissing, HoldForError, Answered, Stage
  <2>2. QED
    BY <2>1, DecidedKeeps, KeptIsKnown
<1>4. ASSUME NEW c \in Comparisons, CallModel(c) \/ RetryModel(c)
      PROVE  MemoriesKnown'
  <2>1. asking[c] # Idle /\ asking[c] \in Asking /\ memories' = memories
    BY <1>4 DEF CallModel, RetryModel, Stage, MemoriesKnown
  <2> DEFINE called == [asking[c] EXCEPT !.stage = "wait"]
             again == [asking[c] EXCEPT !.attempt = @ + 1]
  <2>2. \A next \in {called, again} :
          next \in Asking /\ next.memories = asking[c].memories /\ next.ts = asking[c].ts
    BY <2>1 DEF Asking
  <2>3. asking' = [asking EXCEPT ![c] = called] \/ asking' = [asking EXCEPT ![c] = again]
    BY <1>4 DEF CallModel, RetryModel
  <2> HIDE DEF called, again
  <2>4. /\ asking' \in [Comparisons -> Asking \cup {Idle}]
        /\ \A d \in Comparisons : asking'[d] # Idle =>
             /\ asking[d] # Idle
             /\ asking'[d].memories = asking[d].memories
             /\ asking'[d].ts = asking[d].ts
    BY <2>1, <2>2, <2>3 DEF MemoriesKnown
  <2>5. QED
    BY <2>1, <2>4, KeptIsKnown
<1>5. CASE AgentRestarts
  BY <1>5 DEF AgentRestarts, MemoriesKnown, Closed, KnownBefore
<1>6. CASE UNCHANGED agentVars
  BY <1>6 DEF agentVars, MemoriesKnown, Closed, KnownBefore
<1>7. QED
  BY <1>1, <1>2, <1>3, <1>4, <1>5, <1>6 DEF AgentNext

\* No decision about the past is taken with knowledge of a trade that had not
\* ended by then, whoever calls MemoryWriter, the search and MemoryComparison.
THEOREM KnowledgeIsOfThePast == AgentSpec => []NoLeakage
<1>1. MemoriesKnown => NoLeakage
  <2> SUFFICES ASSUME MemoriesKnown, NEW c \in Comparisons, asking[c] # Idle,
                      NEW m \in asking[c].memories
               PROVE  m.trade.exit_ts < asking[c].ts
    BY DEF NoLeakage
  <2>1. asking[c] \in Asking /\ m \in Memories
    BY DEF MemoriesKnown, Asking, Memories
  <2>2. /\ m.trade.exit_ts \in Nat /\ m.outcome_closed_at_ms \in Nat
        /\ asking[c].ts \in Nat
    BY <2>1, AgentAssumption DEF Asking, Memories
  <2>3. m.trade.exit_ts <= m.outcome_closed_at_ms /\ m.outcome_closed_at_ms < asking[c].ts
    BY <2>2 DEF MemoriesKnown, Closed, KnownBefore
  <2>4. QED
    BY <2>2, <2>3
<1>2. QED
  BY <1>1, InitKnown, StepKnown, PTL DEF AgentSpec

-----------------------------------------------------------------------------
(* The agent's budgets.                                                    *)

\* An answer costs at most that much: what the model's context and DeepSeek's prices
\* allow, for the client itself sets no limit.
DearestAnswer == \E most \in Costs : \A other \in Costs : other <= most
Dearest == CHOOSE cost \in Costs : \A other \in Costs : other <= cost
Waiting == { c \in Comparisons : Stage(c, "wait") }

Bounded(consumed, limit) ==
  limit > 0 =>
    consumed + Cardinality(Waiting) * Dearest < limit + Cardinality(Comparisons) * Dearest

\* Types with the bound, which is inductive as it stands.
SpendingInv ==
  /\ MemoriesKnown
  /\ budget \in [experiment : Nat, monthly : Nat]
  /\ Bounded(budget.experiment, ExperimentLimit) /\ Bounded(budget.monthly, MonthlyLimit)

\* No answer costs more than the dearest.
LEMMA DearestIsDearest ==
  ASSUME DearestAnswer
  PROVE  Dearest \in Nat /\ \A cost \in Costs : cost \in Nat /\ cost <= Dearest
BY AgentAssumption DEF DearestAnswer, Dearest

\* More calls cost at least as much as fewer.
LEMMA MoreCalls ==
  ASSUME NEW i \in Nat, NEW j \in Nat, NEW m \in Nat, i <= j
  PROVE  i * m <= j * m /\ i * m \in Nat /\ j * m \in Nat
<1>1. PICK k \in Nat : j = i + k
  <2>1. j - i \in Nat /\ j = i + (j - i)
    OBVIOUS
  <2>2. QED
    BY <2>1
<1>2. j * m = i * m + k * m /\ i * m \in Nat /\ k * m \in Nat
  BY <1>1
<1>3. QED
  BY <1>2

\* A step after which no more comparisons wait and as much is consumed, or one
\* fewer waits and its answer is paid, keeps a budget's bound.
LEMMA PaidKeeps ==
  ASSUME NEW consumed \in Nat, NEW cost \in Nat, NEW limit \in Nat,
         NEW before \in Nat, NEW after \in Nat, NEW all \in Nat, NEW most \in Nat,
         limit > 0 => consumed + before * most < limit + all * most,
         cost <= most, after + 1 <= before \/ (after <= before /\ cost = 0)
  PROVE  limit > 0 => consumed + cost + after * most < limit + all * most
<1>1. /\ before * most \in Nat /\ after * most \in Nat /\ all * most \in Nat
      /\ (after + 1) * most = after * most + most
  OBVIOUS
<1>2. after + 1 <= before => after * most + most <= before * most
  BY <1>1, MoreCalls
<1>3. after <= before => after * most <= before * most
  BY MoreCalls
<1>4. QED
  BY <1>1, <1>2, <1>3

\* A step of one comparison after which it does not wait leaves the others waiting,
\* and one fewer if it did.
LEMMA FewerWait ==
  ASSUME IsFiniteSet(Comparisons), NEW c \in Comparisons,
         \A d \in Comparisons : d # c => asking'[d] = asking[d],
         asking'[c] = Idle \/ asking'[c].stage # "wait"
  PROVE  /\ Cardinality(Waiting) \in Nat /\ Cardinality(Waiting)' \in Nat
         /\ Cardinality(Waiting)' <= Cardinality(Waiting)
         /\ Stage(c, "wait") => Cardinality(Waiting)' + 1 <= Cardinality(Waiting)
<1>1. PICK now, then : now = Waiting /\ then = Waiting'
  OBVIOUS
<1>2. now = { d \in Comparisons : Stage(d, "wait") }
  BY <1>1 DEF Waiting
<1>3. then = { d \in Comparisons : asking'[d] # Idle /\ asking'[d].stage = "wait" }
  BY <1>1 DEF Waiting, Stage
<1>4. then \subseteq now \ {c} /\ then \subseteq now /\ now \subseteq Comparisons
  BY <1>2, <1>3 DEF Stage
<1>5. IsFiniteSet(now) /\ Cardinality(now) \in Nat
  BY <1>4, FS_Subset, FS_CardinalityType
<1>6. Cardinality(then) \in Nat /\ Cardinality(then) <= Cardinality(now)
  BY <1>4, <1>5, FS_Subset, FS_CardinalityType
<1>7. ASSUME Stage(c, "wait") PROVE Cardinality(then) + 1 <= Cardinality(now)
  <2>1. c \in now
    BY <1>2, <1>7
  <2>2. IsFiniteSet(now \ {c}) /\ Cardinality(now \ {c}) = Cardinality(now) - 1
    BY <1>5, <2>1, FS_RemoveElement
  <2>3. Cardinality(then) <= Cardinality(now \ {c})
    BY <1>4, <2>2, FS_Subset
  <2>4. QED
    BY <1>5, <1>6, <2>2, <2>3
<1>8. Cardinality(Waiting)' = Cardinality(then)
  BY <1>1
<1>9. QED
  BY <1>1, <1>5, <1>6, <1>7, <1>8

\* The bound after a step that is paid for.
LEMMA BoundedAfter ==
  ASSUME SpendingInv, DearestAnswer, IsFiniteSet(Comparisons), NEW cost \in Nat,
         budget' = [experiment |-> budget.experiment + cost,
                    monthly |-> budget.monthly + cost],
         Cardinality(Waiting) \in Nat, Cardinality(Waiting)' \in Nat,
         cost <= Dearest,
         \/ Cardinality(Waiting)' + 1 <= Cardinality(Waiting)
         \/ Cardinality(Waiting)' <= Cardinality(Waiting) /\ cost = 0
  PROVE  /\ budget' \in [experiment : Nat, monthly : Nat]
         /\ Bounded(budget.experiment, ExperimentLimit)'
         /\ Bounded(budget.monthly, MonthlyLimit)'
<1>1. PICK before, after, all, most :
        /\ before = Cardinality(Waiting) /\ after = Cardinality(Waiting)'
        /\ all = Cardinality(Comparisons) /\ most = Dearest
  OBVIOUS
<1>2. /\ before \in Nat /\ after \in Nat /\ all \in Nat /\ most \in Nat
      /\ ExperimentLimit \in Nat /\ MonthlyLimit \in Nat
      /\ cost <= most /\ (after + 1 <= before \/ (after <= before /\ cost = 0))
  BY <1>1, DearestIsDearest, FS_CardinalityType, AgentAssumption DEF AgentAssumption
<1>3. PICK e \in Nat, m \in Nat : budget = [experiment |-> e, monthly |-> m]
  BY DEF SpendingInv
<1>4. /\ ExperimentLimit > 0 => e + before * most < ExperimentLimit + all * most
      /\ MonthlyLimit > 0 => m + before * most < MonthlyLimit + all * most
  BY <1>1, <1>3 DEF SpendingInv, Bounded
<1>5. /\ ExperimentLimit > 0 => e + cost + after * most < ExperimentLimit + all * most
      /\ MonthlyLimit > 0 => m + cost + after * most < MonthlyLimit + all * most
  BY <1>2, <1>4, PaidKeeps
<1>6. budget'.experiment = e + cost /\ budget'.monthly = m + cost
  BY <1>3
<1>7. Dearest' = Dearest
  BY DEF Dearest
<1>8. QED
  BY <1>1, <1>3, <1>5, <1>6, <1>7 DEF Bounded

\* Every step of a comparison keeps the spending below its limit and one answer each.
LEMMA SpendingKept ==
  ASSUME SpendingInv, DearestAnswer, IsFiniteSet(Comparisons), AgentNext
  PROVE  SpendingInv'
<1>1. MemoriesKnown' /\ asking \in [Comparisons -> Asking \cup {Idle}]
  BY StepKnown DEF SpendingInv, MemoriesKnown
<1>2. /\ Dearest \in Nat /\ \A cost \in Costs : cost \in Nat /\ cost <= Dearest
      /\ ExperimentLimit \in Nat /\ MonthlyLimit \in Nat
      /\ Cardinality(Comparisons) \in Nat
  BY DearestIsDearest, FS_CardinalityType, AgentAssumption DEF AgentAssumption
<1>3. budget.experiment \in Nat /\ budget.monthly \in Nat
      /\ budget = [experiment |-> budget.experiment + 0, monthly |-> budget.monthly + 0]
  BY DEF SpendingInv
<1>4. IsFiniteSet(Waiting) /\ Cardinality(Waiting) \in Nat
  <2>1. Waiting \in SUBSET Comparisons
    BY DEF Waiting
  <2>2. QED
    BY <2>1, FS_Subset, FS_CardinalityType
<1>5. ASSUME NEW c \in Comparisons, Decided(c), asking[c] # Idle
      PROVE  /\ \A d \in Comparisons : d # c => asking'[d] = asking[d]
             /\ asking'[c] = Idle \/ asking'[c].stage # "wait"
  <2>1. CASE asking[c].arm = "with_memory"
    BY <1>1, <1>5, <2>1 DEF Decided
  <2>2. CASE asking[c].arm # "with_memory"
    <3>1. PICK next : /\ next = [asking[c] EXCEPT !.stage = "ask", !.attempt = 0,
                                                  !.arm = "with_memory"]
                      /\ asking' = [asking EXCEPT ![c] = next]
      BY <1>5, <2>2 DEF Decided
    <3>2. next.stage = "ask"
      BY <1>1, <1>5, <3>1 DEF Asking
    <3>3. QED
      BY <1>1, <3>1, <3>2
  <2>3. QED
    BY <2>1, <2>2
<1>6. ASSUME UNCHANGED <<budget, asking>> PROVE SpendingInv'
  <2>1. Waiting' = Waiting /\ Dearest' = Dearest
    BY <1>6 DEF Waiting, Stage, Dearest
  <2>2. QED
    BY <1>1, <1>6, <2>1 DEF SpendingInv, Bounded
<1>7. ASSUME NEW c \in Comparisons,
             \/ \E timestamp \in StateTimes, asked \in StateTimes :
                  \E found \in Similar(asked) : Retrieve(c, timestamp, found)
             \/ BudgetExhausted(c) \/ PromptMissing(c)
      PROVE  SpendingInv'
  <2>1. budget' = budget
    BY <1>7 DEF Retrieve, BudgetExhausted, PromptMissing
  <2>2. /\ \A d \in Comparisons : d # c => asking'[d] = asking[d]
        /\ asking'[c] = Idle \/ asking'[c].stage # "wait"
    <3>1. CASE BudgetExhausted(c) \/ PromptMissing(c)
      BY <1>5, <3>1 DEF BudgetExhausted, PromptMissing, Stage
    <3>2. CASE \E timestamp \in StateTimes, asked \in StateTimes :
                  \E found \in Similar(asked) : Retrieve(c, timestamp, found)
      <4>1. PICK timestamp \in StateTimes, asked \in StateTimes :
              \E found \in Similar(asked) : Retrieve(c, timestamp, found)
        BY <3>2
      <4>2. PICK found : Retrieve(c, timestamp, found)
        BY <4>1
      <4>3. asking'[c].stage = "ask" /\ \A d \in Comparisons : d # c => asking'[d] = asking[d]
        BY <1>1, <4>2 DEF Retrieve
      <4>4. QED
        BY <4>3
    <3>3. QED
      BY <1>7, <3>1, <3>2
  <2>3. QED
    BY <1>1, <1>2, <1>3, <2>1, <2>2, FewerWait, BoundedAfter DEF SpendingInv
<1>8. ASSUME NEW c \in Comparisons, HoldForError(c) \/ \E cost \in Costs : Answered(c, cost)
      PROVE  SpendingInv'
  <2>1. PICK cost \in Nat : /\ cost <= Dearest
                            /\ budget' = [experiment |-> budget.experiment + cost,
                                          monthly |-> budget.monthly + cost]
    BY <1>2, <1>8 DEF HoldForError, Answered, RecordCost
  <2>2. Stage(c, "wait") /\ Decided(c)
    BY <1>8 DEF HoldForError, Answered
  <2>3. /\ \A d \in Comparisons : d # c => asking'[d] = asking[d]
        /\ asking'[c] = Idle \/ asking'[c].stage # "wait"
    BY <1>5, <2>2 DEF Stage
  <2>4. QED
    BY <1>1, <2>1, <2>2, <2>3, FewerWait, BoundedAfter DEF SpendingInv
<1>9. ASSUME NEW c \in Comparisons, CallModel(c)
      PROVE  SpendingInv'
  <2>1. PICK after, all, most : /\ after = Cardinality(Waiting)'
                                /\ all = Cardinality(Comparisons) /\ most = Dearest
    OBVIOUS
  <2>2. after \in Nat /\ after <= all
    <3>1. (Waiting \in SUBSET Comparisons)'
      BY DEF Waiting
    <3>2. QED
      BY <2>1, <3>1, FS_Subset, FS_CardinalityType
  <2>3. after * most <= all * most /\ after * most \in Nat /\ all * most \in Nat
    BY <1>2, <2>1, <2>2, MoreCalls
  <2>4. /\ ExperimentLimit > 0 => budget.experiment < ExperimentLimit
        /\ MonthlyLimit > 0 => budget.monthly < MonthlyLimit
        /\ budget' = budget
    BY <1>2, <1>3, <1>9 DEF CallModel, Blocked, Spent
  <2>5. /\ ExperimentLimit > 0 => budget.experiment + after * most < ExperimentLimit + all * most
        /\ MonthlyLimit > 0 => budget.monthly + after * most < MonthlyLimit + all * most
    BY <1>2, <1>3, <2>3, <2>4
  <2>6. Dearest' = Dearest
    BY DEF Dearest
  <2>7. QED
    BY <1>1, <2>1, <2>4, <2>5, <2>6 DEF SpendingInv, Bounded
<1>10. ASSUME NEW c \in Comparisons, RetryModel(c)
       PROVE  SpendingInv'
  <2>1. PICK next : asking' = [asking EXCEPT ![c] = next] /\ next.stage = asking[c].stage
                      /\ next \in Asking
    <3>1. asking[c] \in Asking
      BY <1>1, <1>10 DEF RetryModel, Stage
    <3>2. PICK next : next = [asking[c] EXCEPT !.attempt = asking[c].attempt + 1]
      OBVIOUS
    <3>3. next \in Asking /\ next.stage = asking[c].stage
      BY <3>1, <3>2 DEF Asking
    <3>4. asking' = [asking EXCEPT ![c] = next]
      BY <1>10, <3>2 DEF RetryModel
    <3>5. QED
      BY <3>3, <3>4
  <2>2. asking[c] # Idle /\ next # Idle /\ budget' = budget
    BY <1>10, <2>1, AskingIsNotIdle DEF RetryModel, Stage
  <2>3. \A d \in Comparisons : Stage(d, "wait")' <=> Stage(d, "wait")
    BY <1>1, <2>1, <2>2 DEF Stage
  <2>4. Waiting' = Waiting /\ Dearest' = Dearest
    BY <2>3 DEF Waiting, Dearest
  <2>5. QED
    BY <1>1, <2>2, <2>4 DEF SpendingInv, Bounded
<1>11. CASE AgentRestarts
  <2>1. Waiting' = {} /\ Dearest' = Dearest
    BY <1>11 DEF AgentRestarts, Waiting, Stage, Dearest
  <2>2. budget' = [experiment |-> 0, monthly |-> 0] /\ Cardinality(Waiting)' = 0
    BY <1>11, <2>1, FS_EmptySet DEF AgentRestarts
  <2>3. /\ 0 * Dearest = 0
        /\ \A limit \in Nat : limit > 0 => 0 + 0 < limit + Cardinality(Comparisons) * Dearest
    <3>1. Cardinality(Comparisons) * Dearest \in Nat
      BY <1>2, MoreCalls
    <3>2. QED
      BY <1>2, <3>1
  <2>4. QED
    BY <1>1, <1>2, <2>1, <2>2, <2>3 DEF SpendingInv, Bounded
<1>12. QED
  BY <1>6, <1>7, <1>8, <1>9, <1>10, <1>11 DEF AgentNext, PersistReflection

\* However comparisons that share an agent interleave, they overspend each budget
\* by less than one answer each, the answers still awaited included.
THEOREM OverspentByOneAnswerEach ==
  ASSUME DearestAnswer, IsFiniteSet(Comparisons)
  PROVE  AgentSpec => []SpendingBounded
<1>1. AgentInit => SpendingInv
  <2> SUFFICES ASSUME AgentInit PROVE SpendingInv
    OBVIOUS
  <2>1. Waiting = {}
    BY DEF AgentInit, Waiting, Stage
  <2>2. Cardinality(Waiting) = 0 /\ budget = [experiment |-> 0, monthly |-> 0]
    BY <2>1, FS_EmptySet DEF AgentInit
  <2>3. /\ Dearest \in Nat /\ Cardinality(Comparisons) \in Nat
        /\ ExperimentLimit \in Nat /\ MonthlyLimit \in Nat
    BY DearestIsDearest, FS_CardinalityType, AgentAssumption DEF AgentAssumption
  <2>4. /\ 0 * Dearest = 0
        /\ \A limit \in Nat : limit > 0 => 0 + 0 < limit + Cardinality(Comparisons) * Dearest
    <3>1. Cardinality(Comparisons) * Dearest \in Nat
      BY <2>3, MoreCalls
    <3>2. QED
      BY <2>3, <3>1
  <2>5. QED
    BY <2>2, <2>3, <2>4, InitKnown DEF SpendingInv, Bounded
<1>2. SpendingInv /\ [AgentNext]_agentVars => SpendingInv'
  <2>1. CASE AgentNext
    BY <2>1, SpendingKept
  <2>2. ASSUME SpendingInv, UNCHANGED agentVars PROVE SpendingInv'
    <3>1. Waiting' = Waiting /\ Dearest' = Dearest
      BY <2>2 DEF agentVars, Waiting, Stage, Dearest
    <3>2. MemoriesKnown'
      BY <2>2, StepKnown DEF SpendingInv
    <3>3. QED
      BY <2>2, <3>1, <3>2 DEF SpendingInv, Bounded, agentVars
  <2>3. QED
    BY <2>1, <2>2
<1>3. SpendingInv => SpendingBounded
  BY DEF SpendingInv, SpendingBounded, Bounded, Dearest, Waiting
<1>4. QED
  BY <1>1, <1>2, <1>3, PTL DEF AgentSpec

-----------------------------------------------------------------------------
(* Orders.                                                                 *)

Status == {"New", "PartiallyFilled"} \cup Terminal
Order == [request : Requests, link : Requests \X {0}, status : Status]
Path == {"create", "cancel"}

\* An order and a request on its way carry the link of their OrderRequest.
LinksKept ==
  /\ exchange \subseteq Order /\ listing \subseteq Order
  /\ \A o \in exchange : o.link = <<o.request, 0>>
  /\ \A m \in network : m.request \in Requests /\ m.link = <<m.request, 0>>

\* The exchange has one order of a request.
OnePerRequest == \A o, p \in exchange : o.request = p.request => o = p

\* A closed order never changes, so what was listed as closed is closed, and what
\* the local book took over from there is.
ClosedStays ==
  /\ \A o \in listing : o.status \in Terminal => o \in exchange
  /\ tracked \in [Requests -> Status \cup {"untracked"}]
  /\ \A r \in Requests : tracked[r] \in Terminal =>
       \E o \in exchange : o.request = r /\ o.status = tracked[r]

\* The report of a reconciliation.
ReportTrue ==
  reconciled # Absent /\ reconciled.is_consistent =>
    \A o \in reconciled.open : reconciled.book[o.request] = o.status

OrdersInv == LinksKept /\ OnePerRequest /\ ClosedStays /\ ReportTrue

\* A step that changes neither the exchange nor what is listed, tracked or
\* reported, and sends only with the request's own link.
Sends ==
  /\ UNCHANGED <<exchange, listing, tracked, reconciled>>
  /\ \A m \in network' : m \in network \/ (m.request \in Requests /\ m.link = <<m.request, 0>>)

\* Sending, repeating and giving up a request add no order.
LEMMA SendsKeep == OrdersInv /\ Sends => OrdersInv'
  BY DEF OrdersInv, Sends, LinksKept, OnePerRequest, ClosedStays, ReportTrue

\* No request and no order exist at the start.
LEMMA InitHolds == OrdersInit => OrdersInv
  BY DEF OrdersInit, OrdersInv, LinksKept, OnePerRequest, ClosedStays, ReportTrue,
         Status, Terminal

\* What the client's retry loop does with a request is sending.
LEMMA ClientSends ==
  ASSUME NEW r \in Requests,
         (\E path \in Path : Post(path, r)) \/ SendAgain(r) \/ GiveUp(r)
  PROVE  Sends
  BY DEF Post, SendAgain, GiveUp, Sends, Message, Link

\* An answer is read.
LEMMA UnwrapKeeps ==
  ASSUME NEW r \in Requests, OrdersInv, Unwrap(r)
  PROVE  OrdersInv'
<1>1. tracked' = tracked \/ tracked' = [tracked EXCEPT ![r] = "New"]
  BY DEF Unwrap
<1>2. UNCHANGED <<exchange, network, listing, reconciled>>
  BY DEF Unwrap
<1>3. ClosedStays'
  BY <1>1, <1>2 DEF OrdersInv, ClosedStays, Status, Terminal
<1>4. QED
  BY <1>2, <1>3 DEF OrdersInv, LinksKept, OnePerRequest, ReportTrue

\* The open and recent orders are listed.
LEMMA ListKeeps ==
  ASSUME NEW recent \in SUBSET { o \in exchange : o.status \in Terminal },
         OrdersInv, OpenOrders(recent)
  PROVE  OrdersInv'
  BY DEF OpenOrders, OrdersInv, LinksKept, OnePerRequest, ClosedStays, ReportTrue

\* A listed order updates the local one.
LEMMA UpdateKeeps ==
  ASSUME NEW o \in listing, OrdersInv, Update(o)
  PROVE  OrdersInv'
<1>1. o \in Order /\ (o.status \in Terminal => o \in exchange)
  BY DEF OrdersInv, LinksKept, ClosedStays
<1>2. /\ tracked' = [tracked EXCEPT ![o.request] = o.status]
      /\ UNCHANGED <<exchange, network, listing, reconciled>>
  BY DEF Update
<1>3. ClosedStays'
  <2>1. tracked' \in [Requests -> Status \cup {"untracked"}]
    BY <1>1, <1>2 DEF OrdersInv, ClosedStays, Order
  <2>2. ASSUME NEW r \in Requests, tracked'[r] \in Terminal
        PROVE  \E p \in exchange : p.request = r /\ p.status = tracked'[r]
    <3>1. CASE r = o.request
      BY <1>1, <1>2, <2>2, <3>1 DEF OrdersInv, ClosedStays
    <3>2. CASE r # o.request
      BY <1>2, <2>2, <3>2 DEF OrdersInv, ClosedStays
    <3>3. QED
      BY <3>1, <3>2
  <2>3. QED
    BY <1>2, <2>1, <2>2 DEF OrdersInv, ClosedStays
<1>4. QED
  BY <1>2, <1>3 DEF OrdersInv, LinksKept, OnePerRequest, ReportTrue

\* A reconciliation ends.
LEMMA ReconcileKeeps ==
  ASSUME OrdersInv, Reconcile
  PROVE  OrdersInv'
<1> DEFINE local == { r \in Requests : tracked[r] \notin Terminal \cup {"untracked"} }
           open == { o \in listing : o.status \notin Terminal }
           unknown_remote == { o \in listing : o.request \notin local }
           status_diffs == { o \in open : o.request \in local /\ tracked[o.request] # o.status }
<1>1. /\ reconciled'.open = open /\ reconciled'.book = tracked
      /\ reconciled'.is_consistent => unknown_remote \cup status_diffs = {}
      /\ UNCHANGED <<exchange, network, listing, tracked>>
  BY DEF Reconcile
<1>2. ASSUME unknown_remote \cup status_diffs = {}, NEW o \in open
      PROVE  tracked[o.request] = o.status
  BY <1>2
<1>3. ReportTrue'
  BY <1>1, <1>2 DEF ReportTrue
<1>4. QED
  BY <1>1, <1>3 DEF OrdersInv, LinksKept, OnePerRequest, ClosedStays

\* Replacing an open order, or adding one that is new, keeps the rest.
LEMMA ExchangeKeeps ==
  ASSUME OrdersInv, NEW gone \in SUBSET exchange, NEW order \in Order,
         \A o \in gone : o.status \notin Terminal,
         order.link = <<order.request, 0>>,
         exchange' = (exchange \ gone) \cup {order},
         \A o \in exchange : o.request = order.request => o \in gone,
         network' \subseteq network, UNCHANGED <<tracked, listing, reconciled>>
  PROVE  OrdersInv'
<1>1. LinksKept'
  BY DEF OrdersInv, LinksKept
<1>2. OnePerRequest'
  BY DEF OrdersInv, OnePerRequest
<1>3. ClosedStays'
  BY DEF OrdersInv, ClosedStays
<1>4. QED
  BY <1>1, <1>2, <1>3 DEF OrdersInv, ReportTrue

\* The exchange fills or rejects an order.
LEMMA TradeKeeps ==
  ASSUME NEW o \in exchange, NEW status \in {"PartiallyFilled", "Filled", "Rejected"},
         OrdersInv, Trade(o, status)
  PROVE  OrdersInv'
<1>1. o \in Order /\ o.link = <<o.request, 0>> /\ status \in Status
  BY DEF OrdersInv, LinksKept, Status, Terminal
<1> DEFINE next == [o EXCEPT !.status = status]
<1>2. next \in Order /\ next.link = o.link /\ next.request = o.request
  BY <1>1 DEF Order
<1>3. /\ exchange' = (exchange \ {o}) \cup {next} /\ o.status \notin Terminal
      /\ UNCHANGED <<network, tracked, listing, reconciled>>
  BY DEF Trade
<1> HIDE DEF next
<1>4. \A p \in exchange : p.request = next.request => p \in {o}
  BY <1>2 DEF OrdersInv, OnePerRequest
<1>5. QED
  BY <1>1, <1>2, <1>3, <1>4, ExchangeKeeps

\* The exchange takes a request: at most one order of it exists.
LEMMA ArriveKeeps ==
  ASSUME NEW m \in network, OrdersInv, Arrive(m)
  PROVE  OrdersInv'
<1>1. /\ m.request \in Requests /\ m.link = <<m.request, 0>>
      /\ network' \subseteq network /\ UNCHANGED <<tracked, listing, reconciled>>
  BY DEF Arrive, OrdersInv, LinksKept
<1>2. CASE Accept(m)
  <2> DEFINE new == [request |-> m.request, link |-> m.link, status |-> "New"]
             gone == {}
  <2>1. /\ new \in Order /\ new.link = <<new.request, 0>>
        /\ exchange' = (exchange \ gone) \cup {new}
    BY <1>1, <1>2 DEF Accept, Order, Status
  <2>2. \A o \in exchange : o.request = new.request => o \in gone
    BY <1>1, <1>2 DEF Accept, OrdersInv, LinksKept
  <2>3. gone \in SUBSET exchange /\ \A o \in gone : o.status \notin Terminal
    OBVIOUS
  <2> HIDE DEF new, gone
  <2>4. QED
    BY <1>1, <2>1, <2>2, <2>3, ExchangeKeeps
<1>3. CASE CancelOrder(m)
  <2>1. PICK o \in exchange :
          /\ o.status \notin Terminal
          /\ exchange' = (exchange \ {o}) \cup {[o EXCEPT !.status = "Cancelled"]}
    BY <1>3 DEF CancelOrder
  <2>2. o \in Order /\ o.link = <<o.request, 0>>
    BY DEF OrdersInv, LinksKept
  <2> DEFINE next == [o EXCEPT !.status = "Cancelled"]
  <2>3. next \in Order /\ next.link = o.link /\ next.request = o.request
    BY <2>2 DEF Order, Status, Terminal
  <2>4. exchange' = (exchange \ {o}) \cup {next}
    BY <2>1
  <2> HIDE DEF next
  <2>5. \A p \in exchange : p.request = next.request => p \in {o}
    BY <2>3 DEF OrdersInv, OnePerRequest
  <2>6. QED
    BY ZenonT(60), <1>1, <2>1, <2>2, <2>3, <2>4, <2>5, ExchangeKeeps
<1>4. CASE Refuse(m)
  BY <1>1, <1>4, SendsKeep DEF Refuse, Sends
<1>5. QED
  BY <1>2, <1>3, <1>4 DEF Arrive

\* Every step keeps the invariant.
LEMMA StepKeeps == OrdersInv /\ [OrdersNext]_orderVars => OrdersInv'
<1> SUFFICES ASSUME OrdersInv, [OrdersNext]_orderVars PROVE OrdersInv'
  OBVIOUS
<1>1. ASSUME NEW r \in Requests,
             (\E path \in Path : Post(path, r)) \/ SendAgain(r) \/ GiveUp(r) \/ Unwrap(r)
      PROVE  OrdersInv'
  BY <1>1, ClientSends, SendsKeep, UnwrapKeeps
<1>2. CASE \E recent \in SUBSET { o \in exchange : o.status \in Terminal } : OpenOrders(recent)
  BY <1>2, ListKeeps
<1>3. CASE \E o \in listing : Update(o)
  BY <1>3, UpdateKeeps
<1>4. CASE Reconcile
  BY <1>4, ReconcileKeeps
<1>5. CASE \E m \in network : Arrive(m)
  BY <1>5, ArriveKeeps
<1>6. CASE \E o \in exchange, status \in {"PartiallyFilled", "Filled", "Rejected"} :
             Trade(o, status)
  BY <1>6, TradeKeeps
<1>7. CASE UNCHANGED orderVars
  BY <1>7, SendsKeep DEF orderVars, Sends
<1>8. QED
  BY <1>1, <1>2, <1>3, <1>4, <1>5, <1>6, <1>7 DEF OrdersNext, Path

\* However often requests are sent, lost and sent again, by the client and by its
\* callers, and however late they and the listings arrive: one order per request, a
\* local book that is right about what is over, and reports that hide no live order.
THEOREM OneOrderPerRequest == OrdersSpec => []OrderedOnce
<1>1. OrdersInv => OrderedOnce
  BY DEF OrdersInv, OnePerRequest, ClosedStays, ReportTrue, OrderedOnce
<1>2. QED
  BY <1>1, InitHolds, StepKeeps, PTL DEF OrdersSpec

-----------------------------------------------------------------------------
(* Strategies.  First sums, by which series and trackers begin.             *)

\* A set of natural numbers has a least element.
LEMMA LeastNatural ==
  ASSUME NEW T, T \subseteq Nat, T # {}
  PROVE  \E m \in T : \A k \in T : m <= k
<1> DEFINE R == {ss \in Nat \X Nat : ss[1] < ss[2]}
<1>1. IsWellFoundedOn(R, Nat)
  BY NatLessThanWellFounded DEF OpToRel
<1> HIDE DEF R
<1>2. PICK m \in T : \A k \in T : ~(<<k, m>> \in R)
  BY <1>1, WFMin
<1>3. ASSUME NEW k \in T PROVE m <= k
  <2>1. m \in Nat /\ k \in Nat
    OBVIOUS
  <2>2. ~(k < m)
    BY <1>2, <2>1 DEF R
  <2>3. QED
    BY <2>1, <2>2
<1>4. QED
  BY <1>3

\* The library sums over a set by taking one element after the other: it maps every
\* subset to its sum.
Some(s) == CHOOSE x \in s : TRUE
Sums(v, S, it) ==
  it = [ s \in SUBSET S |-> IF s = {} THEN 0 ELSE v[Some(s)] + it[s \ {Some(s)}] ]

\* Total is such a sum.
LEMMA TotalIsSums ==
  ASSUME NEW v, NEW a, NEW b
  PROVE  Total(v, a, b) = (CHOOSE it : Sums(v, a..b, it))[a..b]
BY DEF Total, SumFunctionOnSet, FoldFunctionOnSet, MapThenFoldSet, Sums, Some

\* What is taken out of a set belongs to it and leaves a smaller set.
LEMMA OneLess ==
  ASSUME NEW S, IsFiniteSet(S), NEW s \in SUBSET S, s # {}
  PROVE  /\ Some(s) \in s /\ s \ {Some(s)} \in SUBSET S
         /\ Cardinality(s) \in Nat /\ Cardinality(s) <= Cardinality(S)
         /\ Cardinality(s \ {Some(s)}) \in Nat
         /\ Cardinality(s \ {Some(s)}) = Cardinality(s) - 1
<1>1. Some(s) \in s
  BY DEF Some
<1>2. IsFiniteSet(s) /\ Cardinality(s) <= Cardinality(S)
  BY FS_Subset
<1>3. /\ IsFiniteSet(s \ {Some(s)})
      /\ Cardinality(s \ {Some(s)}) = Cardinality(s) - 1
  BY <1>1, <1>2, FS_RemoveElement
<1>4. QED
  BY <1>1, <1>2, <1>3, FS_CardinalityType

\* The sums of the subsets with at most n elements.
Small(S, n) == { s \in SUBSET S : Cardinality(s) <= n }
SmallSums(v, S, n, it) ==
  it = [ s \in Small(S, n) |-> IF s = {} THEN 0 ELSE v[Some(s)] + it[s \ {Some(s)}] ]

\* They exist, for every n.
LEMMA SmallSumsExist ==
  ASSUME NEW S, IsFiniteSet(S), NEW v, NEW n \in Nat
  PROVE  \E it : SmallSums(v, S, n, it)
<1> DEFINE T == { k \in Nat : ~\E it : SmallSums(v, S, k, it) }
<1> SUFFICES ASSUME T # {} PROVE FALSE
  OBVIOUS
<1>1. PICK m \in T : \A k \in T : m <= k
  BY LeastNatural
<1>2. CASE m = 0
  <2> DEFINE it == [ s \in Small(S, 0) |-> 0 ]
  <2>1. \A s \in Small(S, 0) : s = {}
    BY FS_EmptySet, FS_Subset, FS_CardinalityType DEF Small
  <2>2. SmallSums(v, S, 0, it)
    BY <2>1 DEF SmallSums
  <2>3. QED
    BY <1>2, <2>2
<1>3. CASE m # 0
  <2>1. m - 1 \in Nat /\ m - 1 \notin T
    BY <1>1, <1>3
  <2>2. PICK it : SmallSums(v, S, m - 1, it)
    BY <2>1
  <2> DEFINE next == [ s \in Small(S, m) |->
                         IF s = {} THEN 0 ELSE v[Some(s)] + it[s \ {Some(s)}] ]
  <2>3. ASSUME NEW s \in Small(S, m), s # {}
        PROVE  /\ s \ {Some(s)} \in Small(S, m - 1)
               /\ s \ {Some(s)} \in Small(S, m)
    BY <2>1, <2>3, OneLess DEF Small
  <2>4. ASSUME NEW r \in Small(S, m - 1) PROVE r \in Small(S, m) /\ next[r] = it[r]
    <3>1. r \in Small(S, m)
      BY <2>1, FS_Subset, FS_CardinalityType DEF Small
    <3>2. QED
      BY <2>2, <3>1 DEF SmallSums
  <2>5. ASSUME NEW s \in Small(S, m), s # {}
        PROVE  it[s \ {Some(s)}] = next[s \ {Some(s)}]
    BY <2>3, <2>4, <2>5
  <2> HIDE DEF next
  <2>6. next = [ s \in Small(S, m) |->
                   IF s = {} THEN 0 ELSE v[Some(s)] + next[s \ {Some(s)}] ]
    <3>1. next = [ s \in Small(S, m) |->
                   IF s = {} THEN 0 ELSE v[Some(s)] + it[s \ {Some(s)}] ]
      BY DEF next
    <3>2. QED
      BY <2>5, <3>1
  <2>7. SmallSums(v, S, m, next)
    BY <2>6 DEF SmallSums
  <2>8. QED
    BY <2>7
<1>4. QED
  BY <1>2, <1>3

\* So the function over all subsets exists.
LEMMA SumsExist ==
  ASSUME NEW S, IsFiniteSet(S), NEW v
  PROVE  Sums(v, S, CHOOSE it : Sums(v, S, it))
<1>1. Cardinality(S) \in Nat
  BY FS_CardinalityType
<1>2. PICK it : SmallSums(v, S, Cardinality(S), it)
  BY <1>1, SmallSumsExist
<1>3. Small(S, Cardinality(S)) = SUBSET S
  BY FS_Subset DEF Small
<1>4. Sums(v, S, it)
  BY <1>2, <1>3 DEF SmallSums, Sums
<1>5. QED
  BY <1>4

\* Two functions that agree on a set have the same sums.
LEMMA SumsAgree ==
  ASSUME NEW S, IsFiniteSet(S), NEW v, NEW w, \A x \in S : v[x] = w[x],
         NEW it, Sums(v, S, it), NEW jt, Sums(w, S, jt),
         NEW s \in SUBSET S
  PROVE  it[s] = jt[s]
<1> DEFINE T == { k \in Nat : \E r \in SUBSET S : Cardinality(r) = k /\ it[r] # jt[r] }
<1>1. \A r \in SUBSET S : Cardinality(r) \in Nat
  BY FS_Subset, FS_CardinalityType
<1> SUFFICES ASSUME T # {} PROVE FALSE
  BY <1>1
<1>2. PICK m \in T : \A k \in T : m <= k
  BY LeastNatural
<1>3. PICK r \in SUBSET S : Cardinality(r) = m /\ it[r] # jt[r]
  OBVIOUS
<1>4. it[r] = (IF r = {} THEN 0 ELSE v[Some(r)] + it[r \ {Some(r)}])
  BY DEF Sums
<1>5. jt[r] = (IF r = {} THEN 0 ELSE w[Some(r)] + jt[r \ {Some(r)}])
  BY DEF Sums
<1>6. r # {}
  BY <1>3, <1>4, <1>5
<1>7. /\ Some(r) \in S /\ r \ {Some(r)} \in SUBSET S
      /\ Cardinality(r \ {Some(r)}) = m - 1 /\ m - 1 \in Nat
  <2>1. /\ Some(r) \in r /\ r \ {Some(r)} \in SUBSET S
        /\ Cardinality(r \ {Some(r)}) \in Nat
        /\ Cardinality(r \ {Some(r)}) = Cardinality(r) - 1
    BY <1>6, OneLess
  <2>2. QED
    BY <1>3, <2>1
<1>8. m - 1 \notin T
  BY <1>2, <1>7
<1>9. it[r \ {Some(r)}] = jt[r \ {Some(r)}]
  BY <1>7, <1>8
<1>10. v[Some(r)] = w[Some(r)]
  BY <1>7
<1>11. QED
  BY <1>3, <1>4, <1>5, <1>6, <1>9, <1>10

\* The sum of natural numbers is one.
LEMMA SumsNatural ==
  ASSUME NEW S, IsFiniteSet(S), NEW v, \A x \in S : v[x] \in Nat,
         NEW it, Sums(v, S, it), NEW s \in SUBSET S
  PROVE  it[s] \in Nat
<1> DEFINE T == { k \in Nat : \E r \in SUBSET S : Cardinality(r) = k /\ it[r] \notin Nat }
<1>1. \A r \in SUBSET S : Cardinality(r) \in Nat
  BY FS_Subset, FS_CardinalityType
<1> SUFFICES ASSUME T # {} PROVE FALSE
  BY <1>1
<1>2. PICK m \in T : \A k \in T : m <= k
  BY LeastNatural
<1>3. PICK r \in SUBSET S : Cardinality(r) = m /\ it[r] \notin Nat
  OBVIOUS
<1>4. it[r] = (IF r = {} THEN 0 ELSE v[Some(r)] + it[r \ {Some(r)}])
  BY DEF Sums
<1>5. r # {}
  BY <1>3, <1>4
<1>6. /\ Some(r) \in S /\ r \ {Some(r)} \in SUBSET S
      /\ Cardinality(r \ {Some(r)}) = m - 1 /\ m - 1 \in Nat
  <2>1. /\ Some(r) \in r /\ r \ {Some(r)} \in SUBSET S
        /\ Cardinality(r \ {Some(r)}) \in Nat
        /\ Cardinality(r \ {Some(r)}) = Cardinality(r) - 1
    BY <1>5, OneLess
  <2>2. QED
    BY <1>3, <2>1
<1>7. m - 1 \notin T
  BY <1>2, <1>6
<1>8. it[r \ {Some(r)}] \in Nat
  BY <1>6, <1>7
<1>9. v[Some(r)] \in Nat
  BY <1>6
<1>10. QED
  BY <1>3, <1>4, <1>5, <1>8, <1>9

\* A total depends on the values between its ends only.
LEMMA TotalsAgree ==
  ASSUME NEW v, NEW w, NEW a \in Int, NEW b \in Int, \A k \in a..b : v[k] = w[k]
  PROVE  Total(v, a, b) = Total(w, a, b)
<1> DEFINE S == a..b
           it == CHOOSE f : Sums(v, S, f)
           jt == CHOOSE f : Sums(w, S, f)
<1>1. IsFiniteSet(S) /\ \A k \in S : v[k] = w[k]
  BY FS_Interval
<1>2. Total(v, a, b) = it[S] /\ Total(w, a, b) = jt[S]
  BY TotalIsSums
<1> HIDE DEF S
<1>3. Sums(v, S, it) /\ Sums(w, S, jt)
  BY <1>1, SumsExist
<1> HIDE DEF it, jt
<1>4. \A s \in SUBSET S : it[s] = jt[s]
  BY <1>1, <1>3, SumsAgree
<1>5. QED
  BY <1>2, <1>4

\* A total of natural numbers is one.
LEMMA TotalNatural ==
  ASSUME NEW v, NEW a \in Int, NEW b \in Int, \A k \in a..b : v[k] \in Nat
  PROVE  Total(v, a, b) \in Nat
<1>1. IsFiniteSet(a..b)
  BY FS_Interval
<1> DEFINE it == CHOOSE f : Sums(v, a..b, f)
<1>2. Sums(v, a..b, it)
  BY <1>1, SumsExist
<1> HIDE DEF it
<1>3. it[a..b] \in Nat
  BY <1>1, <1>2, SumsNatural
<1>4. QED
  BY <1>3, TotalIsSums DEF it

-----------------------------------------------------------------------------
(* Series of a data set and of its beginning.                              *)

\* w has m entries, v has n, and w is the beginning of v.
Prefix(w, m, v, n) ==
  /\ m \in Nat /\ n \in Nat /\ m <= n
  /\ DOMAIN w = 1..m /\ DOMAIN v = 1..n
  /\ \A i \in 1..m : w[i] = v[i]

\* The first n entries of an exponential average.
IsEma(v, p, n, e) ==
  e = [ i \in 1..n |-> IF i < p THEN None
                       ELSE IF i = p THEN Seed(v, p)
                       ELSE Smoothed(e[i - 1], v[i], p) ]

\* They exist, for every n.
LEMMA EmaExists ==
  ASSUME NEW v, NEW p \in Nat \ {0}, NEW n \in Nat
  PROVE  \E e : IsEma(v, p, n, e)
<1> DEFINE T == { k \in Nat : ~\E e : IsEma(v, p, k, e) }
<1> SUFFICES ASSUME T # {} PROVE FALSE
  OBVIOUS
<1>1. PICK m \in T : \A k \in T : m <= k
  BY LeastNatural
<1>2. CASE m = 0
  <2> DEFINE e == [ i \in 1..0 |-> None ]
  <2>1. IsEma(v, p, 0, e)
    BY DEF IsEma
  <2>2. QED
    BY <1>2, <2>1
<1>3. CASE m # 0
  <2>1. m - 1 \in Nat /\ m - 1 \notin T
    BY <1>1, <1>3
  <2>2. PICK e : IsEma(v, p, m - 1, e)
    BY <2>1
  <2> DEFINE next == [ i \in 1..m |-> IF i < p THEN None
                                      ELSE IF i = p THEN Seed(v, p)
                                      ELSE Smoothed(e[i - 1], v[i], p) ]
  <2>3. \A i \in 1..(m - 1) : i \in 1..m /\ next[i] = e[i]
    BY <2>1, <2>2 DEF IsEma
  <2>4. \A i \in 1..m : i < p \/ i = p \/ i - 1 \in 1..(m - 1)
    OBVIOUS
  <2>5. next = [ i \in 1..m |-> IF i < p THEN None
                                ELSE IF i = p THEN Seed(v, p)
                                ELSE Smoothed(next[i - 1], v[i], p) ]
    <3>1. \A i \in 1..m : i < p \/ i = p \/ next[i - 1] = e[i - 1]
      BY <2>3, <2>4
    <3> HIDE DEF next
    <3>2. next = [ i \in 1..m |-> IF i < p THEN None
                                  ELSE IF i = p THEN Seed(v, p)
                                  ELSE Smoothed(e[i - 1], v[i], p) ]
      BY DEF next
    <3>3. QED
      BY <3>1, <3>2
  <2>6. IsEma(v, p, m, next)
    BY <2>5 DEF IsEma
  <2>7. QED
    BY <2>6
<1>4. QED
  BY <1>2, <1>3

\* The average satisfies its equations.
LEMMA EmaEquations ==
  ASSUME NEW v, NEW n \in Nat, DOMAIN v = 1..n, NEW p \in Nat \ {0}
  PROVE  IsEma(v, p, n, Ema(v, p))
<1>1. Ema(v, p) = CHOOSE e : IsEma(v, p, n, e)
  BY DEF Ema, IsEma
<1>2. \E e : IsEma(v, p, n, e)
  BY EmaExists
<1>3. QED
  BY <1>1, <1>2

\* It is causal: the average of a beginning is the beginning of the average.
LEMMA EmaCausal ==
  ASSUME NEW w, NEW m, NEW v, NEW n, Prefix(w, m, v, n), NEW p \in Nat \ {0}
  PROVE  Prefix(Ema(w, p), m, Ema(v, p), n)
<1> DEFINE e == Ema(w, p)
           f == Ema(v, p)
<1>1. m \in Nat /\ n \in Nat /\ m <= n
  BY DEF Prefix
<1>2. IsEma(w, p, m, e) /\ IsEma(v, p, n, f)
  BY <1>1, EmaEquations DEF Prefix
<1> HIDE DEF e, f
<1>3. DOMAIN e = 1..m /\ DOMAIN f = 1..n
  BY <1>2 DEF IsEma
<1>4. \A i \in 1..m : e[i] = f[i]
  <2> DEFINE T == { i \in 1..m : e[i] # f[i] }
  <2> SUFFICES ASSUME T # {} PROVE FALSE
    OBVIOUS
  <2>0. T \subseteq Nat
    BY <1>1
  <2>1. PICK i \in T : \A k \in T : i <= k
    BY <2>0, LeastNatural
  <2>2. i \in 1..m /\ i \in 1..n
    BY <1>1
  <2>3. e[i] = IF i < p THEN None ELSE IF i = p THEN Seed(w, p)
               ELSE Smoothed(e[i - 1], w[i], p)
    BY <1>2, <2>2 DEF IsEma
  <2>4. f[i] = IF i < p THEN None ELSE IF i = p THEN Seed(v, p)
               ELSE Smoothed(f[i - 1], v[i], p)
    BY <1>2, <2>2 DEF IsEma
  <2>5. CASE i < p
    BY <2>3, <2>4, <2>5
  <2>6. CASE i = p
    <3>1. \A k \in 1..p : w[k] = v[k]
      BY <2>2, <2>6 DEF Prefix
    <3>2. Total(w, 1, p) = Total(v, 1, p)
      <4>1. 1 \in Int /\ p \in Int
        OBVIOUS
      <4>2. QED
        BY <3>1, <4>1, TotalsAgree, Zenon
    <3>3. QED
      BY <2>3, <2>4, <2>6, <3>2 DEF Seed
  <2>7. CASE i > p
    <3>1. i - 1 \in 1..m /\ i - 1 \notin T
      BY <1>1, <2>1, <2>2, <2>7
    <3>2. e[i - 1] = f[i - 1] /\ w[i] = v[i]
      BY <2>2, <3>1 DEF Prefix
    <3>3. QED
      BY <2>2, <2>3, <2>4, <2>7, <3>2
  <2>8. QED
    BY <2>2, <2>5, <2>6, <2>7
<1>5. QED
  BY <1>1, <1>3, <1>4 DEF Prefix, e, f

\* The same for Wilder's smoothing.
IsWilder(v, first, p, n, w) ==
  w = [ i \in 1..n |-> IF i < first + p - 1 THEN None
                       ELSE IF i = first + p - 1 THEN Total(v, first, i) \div p
                       ELSE (w[i - 1] * (p - 1) + v[i]) \div p ]

\* Its first n entries exist.
LEMMA WilderExists ==
  ASSUME NEW v, NEW first \in Nat \ {0}, NEW p \in Nat \ {0}, NEW n \in Nat
  PROVE  \E w : IsWilder(v, first, p, n, w)
<1> DEFINE T == { k \in Nat : ~\E w : IsWilder(v, first, p, k, w) }
<1> SUFFICES ASSUME T # {} PROVE FALSE
  OBVIOUS
<1>1. PICK m \in T : \A k \in T : m <= k
  BY LeastNatural
<1>2. CASE m = 0
  <2> DEFINE w == [ i \in 1..0 |-> None ]
  <2>1. IsWilder(v, first, p, 0, w)
    BY DEF IsWilder
  <2>2. QED
    BY <1>2, <2>1
<1>3. CASE m # 0
  <2>1. m - 1 \in Nat /\ m - 1 \notin T
    BY <1>1, <1>3
  <2>2. PICK w : IsWilder(v, first, p, m - 1, w)
    BY <2>1
  <2> DEFINE seeded == first + p - 1
             next == [ i \in 1..m |-> IF i < seeded THEN None
                                      ELSE IF i = seeded THEN Total(v, first, i) \div p
                                      ELSE (w[i - 1] * (p - 1) + v[i]) \div p ]
  <2>3. \A i \in 1..(m - 1) : i \in 1..m /\ next[i] = w[i]
    BY <2>1, <2>2 DEF IsWilder
  <2>4. \A i \in 1..m : i < seeded \/ i = seeded \/ i - 1 \in 1..(m - 1)
    OBVIOUS
  <2>5. next = [ i \in 1..m |-> IF i < seeded THEN None
                                ELSE IF i = seeded THEN Total(v, first, i) \div p
                                ELSE (next[i - 1] * (p - 1) + v[i]) \div p ]
    <3>1. \A i \in 1..m : i < seeded \/ i = seeded \/ next[i - 1] = w[i - 1]
      BY <2>3, <2>4
    <3> HIDE DEF next, seeded
    <3>2. next = [ i \in 1..m |-> IF i < seeded THEN None
                                  ELSE IF i = seeded THEN Total(v, first, i) \div p
                                  ELSE (w[i - 1] * (p - 1) + v[i]) \div p ]
      BY DEF next
    <3>3. QED
      BY <3>1, <3>2
  <2>6. IsWilder(v, first, p, m, next)
    BY <2>5 DEF IsWilder
  <2>7. QED
    BY <2>6
<1>4. QED
  BY <1>2, <1>3

\* The smoothing satisfies its equations.
LEMMA WilderEquations ==
  ASSUME NEW v, NEW n \in Nat, DOMAIN v = 1..n,
         NEW first \in Nat \ {0}, NEW p \in Nat \ {0}
  PROVE  IsWilder(v, first, p, n, Wilder(v, first, p))
<1>1. Wilder(v, first, p) = CHOOSE w : IsWilder(v, first, p, n, w)
  BY DEF Wilder, IsWilder
<1>2. \E w : IsWilder(v, first, p, n, w)
  BY WilderExists
<1>3. QED
  BY <1>1, <1>2

\* It is causal.
LEMMA WilderCausal ==
  ASSUME NEW w, NEW m, NEW v, NEW n, Prefix(w, m, v, n),
         NEW first \in Nat \ {0}, NEW p \in Nat \ {0}
  PROVE  Prefix(Wilder(w, first, p), m, Wilder(v, first, p), n)
<1> DEFINE e == Wilder(w, first, p)
           f == Wilder(v, first, p)
           seeded == first + p - 1
<1>1. m \in Nat /\ n \in Nat /\ m <= n
  BY DEF Prefix
<1>2. IsWilder(w, first, p, m, e) /\ IsWilder(v, first, p, n, f)
  BY <1>1, WilderEquations DEF Prefix
<1> HIDE DEF e, f
<1>3. DOMAIN e = 1..m /\ DOMAIN f = 1..n
  BY <1>2 DEF IsWilder
<1>4. \A i \in 1..m : e[i] = f[i]
  <2> DEFINE T == { i \in 1..m : e[i] # f[i] }
  <2> SUFFICES ASSUME T # {} PROVE FALSE
    OBVIOUS
  <2>0. T \subseteq Nat
    BY <1>1
  <2>1. PICK i \in T : \A k \in T : i <= k
    BY <2>0, LeastNatural
  <2>2. i \in 1..m /\ i \in 1..n
    BY <1>1
  <2>3. e[i] = IF i < seeded THEN None ELSE IF i = seeded THEN Total(w, first, i) \div p
               ELSE (e[i - 1] * (p - 1) + w[i]) \div p
    BY <1>2, <2>2 DEF IsWilder
  <2>4. f[i] = IF i < seeded THEN None ELSE IF i = seeded THEN Total(v, first, i) \div p
               ELSE (f[i - 1] * (p - 1) + v[i]) \div p
    BY <1>2, <2>2 DEF IsWilder
  <2>5. CASE i < seeded
    BY <2>3, <2>4, <2>5
  <2>6. CASE i = seeded
    <3>1. i \in Int /\ \A k \in first..i : w[k] = v[k]
      BY <2>2, <2>6 DEF Prefix
    <3>2. Total(w, first, i) = Total(v, first, i)
      BY <3>1, TotalsAgree
    <3>3. QED
      BY <2>3, <2>4, <2>6, <3>2
  <2>7. CASE i > seeded
    <3>1. i - 1 \in 1..m /\ i - 1 \notin T
      BY <1>1, <2>1, <2>2, <2>7
    <3>2. e[i - 1] = f[i - 1] /\ w[i] = v[i]
      BY <2>2, <3>1 DEF Prefix
    <3>3. QED
      BY <2>2, <2>3, <2>4, <2>7, <3>2
  <2>8. QED
    BY <2>2, <2>5, <2>6, <2>7
<1>5. QED
  BY <1>1, <1>3, <1>4 DEF Prefix, e, f

-----------------------------------------------------------------------------
(* The decisions of a data set and of its beginning.                       *)

\* The parts of the directional index.
Up(candles, i) == candles[i].high - candles[i - 1].high
Down(candles, i) == candles[i - 1].low - candles[i].low
PlusMoves(candles) ==
  [ i \in DOMAIN candles |->
      IF i > 1 /\ Up(candles, i) > Down(candles, i) /\ Up(candles, i) > 0
      THEN Up(candles, i) ELSE 0 ]
MinusMoves(candles) ==
  [ i \in DOMAIN candles |->
      IF i > 1 /\ Down(candles, i) > Up(candles, i) /\ Down(candles, i) > 0
      THEN Down(candles, i) ELSE 0 ]
Index(candles, p, plus, minus) ==
  [ i \in DOMAIN candles |->
      IF i <= p \/ plus[i] + minus[i] = 0 THEN 0
      ELSE (100 * Abs(plus[i] - minus[i])) \div (plus[i] + minus[i]) ]

\* What Adx is made of.
LEMMA AdxParts ==
  ASSUME NEW candles, NEW p
  PROVE  Adx(candles, p) =
           Wilder(Index(candles, p, Wilder(PlusMoves(candles), 2, p),
                        Wilder(MinusMoves(candles), 2, p)), p + 1, p)
BY DEF Adx, Index, PlusMoves, MinusMoves, Up, Down

\* The directional index is causal.
LEMMA AdxCausal ==
  ASSUME NEW w, NEW m, NEW v, NEW n, Prefix(w, m, v, n), NEW p \in Nat \ {0}
  PROVE  Prefix(Adx(w, p), m, Adx(v, p), n)
<1>1. /\ m \in Nat /\ n \in Nat /\ m <= n /\ DOMAIN w = 1..m /\ DOMAIN v = 1..n
      /\ \A i \in 1..m : w[i] = v[i]
  BY DEF Prefix
<1>2. ASSUME NEW i \in 1..m, i > 1
      PROVE  Up(w, i) = Up(v, i) /\ Down(w, i) = Down(v, i)
  <2>1. w[i] = v[i] /\ w[i - 1] = v[i - 1]
    BY <1>1, <1>2
  <2>2. QED
    BY <2>1 DEF Up, Down
<1>3. Prefix(PlusMoves(w), m, PlusMoves(v), n)
  <2>1. \A i \in 1..m : PlusMoves(w)[i] = PlusMoves(v)[i]
    BY <1>1, <1>2 DEF PlusMoves
  <2>2. DOMAIN PlusMoves(w) = 1..m /\ DOMAIN PlusMoves(v) = 1..n
    BY <1>1 DEF PlusMoves
  <2>3. QED
    BY <1>1, <2>1, <2>2 DEF Prefix
<1>4. Prefix(MinusMoves(w), m, MinusMoves(v), n)
  <2>1. \A i \in 1..m : MinusMoves(w)[i] = MinusMoves(v)[i]
    BY <1>1, <1>2 DEF MinusMoves
  <2>2. DOMAIN MinusMoves(w) = 1..m /\ DOMAIN MinusMoves(v) = 1..n
    BY <1>1 DEF MinusMoves
  <2>3. QED
    BY <1>1, <2>1, <2>2 DEF Prefix
<1> DEFINE plusW == Wilder(PlusMoves(w), 2, p)
           plusV == Wilder(PlusMoves(v), 2, p)
           minusW == Wilder(MinusMoves(w), 2, p)
           minusV == Wilder(MinusMoves(v), 2, p)
           indexW == Index(w, p, plusW, minusW)
           indexV == Index(v, p, plusV, minusV)
<1>5. Prefix(plusW, m, plusV, n) /\ Prefix(minusW, m, minusV, n)
  BY <1>3, <1>4, WilderCausal
<1> HIDE DEF plusW, plusV, minusW, minusV
<1>6. Prefix(indexW, m, indexV, n)
  <2>1. \A i \in 1..m : plusW[i] = plusV[i] /\ minusW[i] = minusV[i]
    BY <1>5 DEF Prefix
  <2>2. \A i \in 1..m : indexW[i] = indexV[i]
    BY <1>1, <2>1 DEF Index
  <2>3. DOMAIN indexW = 1..m /\ DOMAIN indexV = 1..n
    BY <1>1 DEF Index
  <2>4. QED
    BY <1>1, <2>2, <2>3 DEF Prefix
<1> HIDE DEF indexW, indexV
<1>7. Prefix(Wilder(indexW, p + 1, p), m, Wilder(indexV, p + 1, p), n)
  <2>1. p + 1 \in Nat \ {0}
    OBVIOUS
  <2>2. QED
    BY <1>6, <2>1, WilderCausal
<1>8. QED
  BY <1>7, AdxParts DEF indexW, indexV, plusW, plusV, minusW, minusV

\* So are the bands.
LEMMA BandCausal ==
  ASSUME NEW w, NEW m, NEW v, NEW n, Prefix(w, m, v, n), NEW p \in Nat \ {0},
         NEW i \in 1..m
  PROVE  Band(w, p, i) = Band(v, p, i)
<1>1. /\ m \in Nat /\ n \in Nat /\ m <= n /\ DOMAIN w = 1..m /\ DOMAIN v = 1..n
      /\ \A k \in 1..m : w[k] = v[k]
  BY DEF Prefix
<1>2. CASE i < p
  BY <1>1, <1>2 DEF Band
<1>3. CASE i >= p
  <2> DEFINE a == i - p + 1
             squareW == [ k \in DOMAIN w |-> w[k] * w[k] ]
             squareV == [ k \in DOMAIN v |-> v[k] * v[k] ]
  <2>1. a \in Int /\ i \in Int /\ \A k \in a..i : k \in 1..m /\ k \in 1..n
    BY <1>1, <1>3
  <2>2. \A k \in a..i : w[k] = v[k] /\ squareW[k] = squareV[k]
    BY <1>1, <2>1
  <2> HIDE DEF a, squareW, squareV
  <2>3. Total(w, a, i) = Total(v, a, i) /\ Total(squareW, a, i) = Total(squareV, a, i)
    BY <2>1, <2>2, TotalsAgree
  <2>4. w[i] = v[i]
    BY <1>1
  <2>5. QED
    BY <1>3, <2>3, <2>4 DEF Band, a, squareW, squareV
<1>4. QED
  BY <1>1, <1>2, <1>3

\* And the closes of a beginning are the beginning of the closes.
LEMMA ClosesCausal ==
  ASSUME NEW w, NEW m, NEW v, NEW n, Prefix(w, m, v, n)
  PROVE  Prefix(Closes(w), m, Closes(v), n)
BY DEF Prefix, Closes

\* What any strategy decides on a candle of the beginning does not depend on what
\* comes after the beginning.
LEMMA DecisionsCausal ==
  ASSUME NEW w, NEW m, NEW v, NEW n, Prefix(w, m, v, n),
         NEW cw, NEW cv, Prefix(cw, m, cv, n), NEW i \in 1..m, NEW action
  PROVE  Decisions(w, cw, i, action) = Decisions(v, cv, i, action)
<1> USE StrategiesAssumption
<1>1. /\ m \in Nat /\ n \in Nat /\ m <= n /\ DOMAIN w = 1..m /\ DOMAIN v = 1..n
      /\ \A k \in 1..m : w[k] = v[k]
  BY DEF Prefix
<1>2. \A k \in 1..m : /\ Ema(cw, EmaFast)[k] = Ema(cv, EmaFast)[k]
                      /\ Ema(cw, EmaSlow)[k] = Ema(cv, EmaSlow)[k]
  <2>1. /\ Prefix(Ema(cw, EmaFast), m, Ema(cv, EmaFast), n)
        /\ Prefix(Ema(cw, EmaSlow), m, Ema(cv, EmaSlow), n)
    BY EmaCausal
  <2>2. QED
    BY <2>1 DEF Prefix
<1>3. Adx(w, AdxPeriod)[i] = Adx(v, AdxPeriod)[i]
  <2>1. Prefix(Adx(w, AdxPeriod), m, Adx(v, AdxPeriod), n)
    BY AdxCausal
  <2>2. QED
    BY <2>1 DEF Prefix
<1>4. \A k \in 1..m :
        Band(Closes(w), BollingerPeriod, k) = Band(Closes(v), BollingerPeriod, k)
  <2>1. Prefix(Closes(w), m, Closes(v), n)
    BY ClosesCausal
  <2>2. QED
    BY <2>1, BandCausal
<1>5. BtcBullish(cw, i) = BtcBullish(cv, i)
  BY <1>2 DEF BtcBullish
<1>6. BtcRiskOn(cw, i) = BtcRiskOn(cv, i)
  <2>1. CASE i > SlopeLookback
    <3>1. i - SlopeLookback \in 1..m
      BY <1>1, <2>1
    <3>2. QED
      BY <1>2, <1>5, <3>1 DEF BtcRiskOn
  <2>2. CASE ~(i > SlopeLookback)
    BY <2>2 DEF BtcRiskOn
  <2>3. QED
    BY <2>1, <2>2
<1>7. DonchianAction(w, i) = DonchianAction(v, i)
  <2>1. i > EntryLookback => PriorHigh(w, i) = PriorHigh(v, i)
    <3>1. i > EntryLookback => \A k \in (i - EntryLookback)..(i - 1) : w[k] = v[k]
      BY SMTT(40), <1>1
    <3>2. i > EntryLookback => { w[k].high : k \in (i - EntryLookback)..(i - 1) }
                                 = { v[k].high : k \in (i - EntryLookback)..(i - 1) }
      BY <3>1
    <3>3. QED
      BY <3>2 DEF PriorHigh
  <2>2. i > ExitLookback => PriorLow(w, i) = PriorLow(v, i)
    <3>1. i > ExitLookback => \A k \in (i - ExitLookback)..(i - 1) : w[k] = v[k]
      BY SMTT(40), <1>1
    <3>2. i > ExitLookback => { w[k].low : k \in (i - ExitLookback)..(i - 1) }
                                = { v[k].low : k \in (i - ExitLookback)..(i - 1) }
      BY <3>1
    <3>3. QED
      BY <3>2 DEF PriorLow
  <2>3. w[i].close = v[i].close
    BY <1>1
  <2>4. QED
    BY <1>3, <2>1, <2>2, <2>3 DEF DonchianAction
<1>8. BollingerAction(w, i) = BollingerAction(v, i)
  <2>1. ReEntry(Closes(w), i) = ReEntry(Closes(v), i)
    <3>1. i > 1 => i - 1 \in 1..m
      BY <1>1
    <3>2. QED
      BY <1>4, <3>1 DEF ReEntry
  <2>2. LowAdx(w, i) = LowAdx(v, i)
    BY <1>3 DEF LowAdx
  <2>3. QED
    BY <1>4, <2>1, <2>2 DEF BollingerAction
<1>9. QED
  BY <1>5, <1>6, <1>7, <1>8 DEF Decisions

-----------------------------------------------------------------------------
(* No look-ahead.                                                          *)

\* What is recorded of each candle.
Recorded ==
  /\ eth \in Seq(Candles) /\ btc \in Seq(BtcCloses)
  /\ Len(btc) = Len(eth) /\ Len(decided) = Len(eth) /\ decided \in Seq(Range(decided))
  /\ NoLookAhead

\* A sequence is the beginning of what is appended to it.
LEMMA AppendedPrefix ==
  ASSUME NEW S, NEW s \in Seq(S), NEW x \in S
  PROVE  /\ Append(s, x) \in Seq(S) /\ Len(Append(s, x)) = Len(s) + 1
         /\ Append(s, x)[Len(s) + 1] = x
         /\ Prefix(s, Len(s), Append(s, x), Len(s) + 1)
BY DEF Prefix

\* A candle leaves what was decided on the earlier ones true.
LEMMA RecordedStep == Recorded /\ [StrategyNext]_strategyVars => Recorded'
<1> SUFFICES ASSUME Recorded, [StrategyNext]_strategyVars PROVE Recorded'
  OBVIOUS
<1>1. CASE UNCHANGED strategyVars
  BY <1>1 DEF Recorded, NoLookAhead, strategyVars
<1>2. CASE StrategyNext
  <2>1. PICK candle \in Candles, close \in BtcCloses : OnCandle(candle, close)
    BY <1>2 DEF StrategyNext
  <2> DEFINE n == Len(eth)
             action == BaselineAction(fast', slow', rsi')
             now == Decisions(eth', btc', n + 1, action)
  <2>2. /\ eth' = Append(eth, candle) /\ btc' = Append(btc, close)
        /\ decided' = Append(decided, now)
    BY <2>1 DEF OnCandle
  <2>3. /\ eth' \in Seq(Candles) /\ btc' \in Seq(BtcCloses)
        /\ Len(eth') = n + 1 /\ Len(btc') = n + 1
        /\ Prefix(eth, n, eth', n + 1) /\ Prefix(btc, n, btc', n + 1)
    BY <2>2, AppendedPrefix DEF Recorded
  <2> HIDE DEF now
  <2>4. /\ Len(decided') = n + 1 /\ DOMAIN decided' = 1..(n + 1) /\ n \in Nat
        /\ decided'[n + 1] = now /\ \A i \in 1..n : decided'[i] = decided[i]
        /\ decided' \in Seq(Range(decided'))
    <3> DEFINE all == Range(decided) \cup {now}
    <3>1. decided \in Seq(all) /\ now \in all /\ Len(decided) = n
      BY DEF Recorded
    <3> HIDE DEF all
    <3>2. /\ decided' \in Seq(all) /\ Len(decided') = n + 1
          /\ decided'[n + 1] = now /\ \A i \in 1..n : decided'[i] = decided[i]
          /\ DOMAIN decided' = 1..(n + 1) /\ n \in Nat
      BY <2>2, <3>1
    <3>3. decided' \in Seq(Range(decided'))
      BY <3>2 DEF Range
    <3>4. QED
      BY <3>2, <3>3
  <2>5. ASSUME NEW i \in DOMAIN eth'
        PROVE  Decisions(eth', btc', i, decided'[i].baseline) = decided'[i]
    <3>1. i \in 1..(n + 1)
      BY <2>3, <2>5
    <3>2. CASE i = n + 1
      <4>1. now.baseline = action
        BY DEF now, Decisions
      <4>2. QED
        BY <2>4, <3>2, <4>1 DEF now
    <3>3. CASE i \in 1..n
      <4>1. Decisions(eth, btc, i, decided[i].baseline) = decided[i]
        BY <3>3 DEF Recorded, NoLookAhead
      <4>2. Decisions(eth, btc, i, decided[i].baseline)
              = Decisions(eth', btc', i, decided[i].baseline)
        BY <2>3, <3>3, DecisionsCausal
      <4>3. QED
        BY <2>4, <3>3, <4>1, <4>2
    <3>4. QED
      BY <2>4, <3>1, <3>2, <3>3
  <2>6. QED
    BY <2>3, <2>4, <2>5 DEF Recorded, NoLookAhead
<1>3. QED
  BY <1>1, <1>2

\* No strategy decides on a candle what it would not have decided before the later
\* candles were known: on_candle of the preloaded strategies, for every data set,
\* every length and every window.
THEOREM NothingLooksAhead == StrategySpec => []NoLookAhead
<1>1. StrategyInit => Recorded
  BY DEF StrategyInit, Recorded, NoLookAhead, Range
<1>2. Recorded => NoLookAhead
  BY DEF Recorded
<1>3. QED
  BY <1>1, <1>2, RecordedStep, PTL DEF StrategySpec

-----------------------------------------------------------------------------
(* The accounts of the evaluation scripts.                                 *)

\* Among finitely many integers one is the largest.
LEMMA HighestExists ==
  ASSUME NEW f, NEW a \in Nat, NEW b \in Nat, a <= b, \A k \in a..b : f[k] \in Int
  PROVE  \E k \in a..b : \A j \in a..b : f[j] <= f[k]
<1> DEFINE T == { n \in a..b : ~\E k \in a..n : \A j \in a..n : f[j] <= f[k] }
<1> SUFFICES ASSUME T # {} PROVE FALSE
  OBVIOUS
<1>1. T \subseteq Nat
  OBVIOUS
<1>2. PICK m \in T : \A n \in T : m <= n
  BY <1>1, LeastNatural
<1>3. m \in a..b /\ m \in a..m
  BY <1>1
<1>4. m # a
  BY <1>3
<1>5. m - 1 \in a..b /\ m - 1 \notin T
  <2>1. m - 1 \in a..b /\ ~(m <= m - 1)
    BY <1>3, <1>4
  <2> HIDE DEF T
  <2>2. QED
    BY <1>2, <2>1
<1>6. PICK k \in a..(m - 1) : \A j \in a..(m - 1) : f[j] <= f[k]
  BY <1>5
<1>7. f[k] \in Int /\ f[m] \in Int /\ k \in a..m /\ \A j \in a..m : f[j] \in Int
  BY <1>3, <1>6
<1>8. \A j \in a..m : j \in a..(m - 1) \/ j = m
  BY <1>3
<1>9. CASE f[m] <= f[k]
  BY <1>6, <1>7, <1>8, <1>9
<1>10. CASE f[k] < f[m]
  <2>1. ASSUME NEW j \in a..m PROVE f[j] <= f[m]
    <3>1. CASE j = m
      BY <1>7, <3>1
    <3>2. CASE j \in a..(m - 1)
      <4>1. f[j] <= f[k] /\ f[j] \in Int
        BY <1>6, <1>7, <3>2
      <4>2. QED
        BY <1>7, <1>10, <4>1
    <3>3. QED
      BY <1>8, <3>1, <3>2
  <2>2. QED
    BY <1>3, <2>1
<1>11. QED
  BY <1>7, <1>9, <1>10

\* What is above the highest is above each.
LEMMA AboveMax ==
  ASSUME NEW f, NEW a \in Nat, NEW b \in Nat, a <= b, \A k \in a..b : f[k] \in Int,
         NEW x \in Int
  PROVE  x > Max({ f[k] : k \in a..b }) <=> \A k \in a..b : x > f[k]
<1> DEFINE T == { f[k] : k \in a..b }
<1>1. PICK k \in a..b : \A j \in a..b : f[j] <= f[k]
  BY HighestExists
<1>2. f[k] \in T /\ \A y \in T : f[k] >= y
  BY <1>1
<1>3. Max(T) \in T /\ \A y \in T : Max(T) >= y
  BY <1>2 DEF Max
<1>4. T \subseteq Int
  OBVIOUS
<1>5. ASSUME x > Max(T) PROVE \A j \in a..b : x > f[j]
  <2>1. ASSUME NEW j \in a..b PROVE x > f[j]
    <3>1. f[j] \in T /\ f[j] \in Int /\ Max(T) >= f[j] /\ Max(T) \in Int
      BY <1>3, <1>4
    <3>2. QED
      BY <1>5, <3>1
  <2>2. QED
    BY <2>1
<1>6. ASSUME \A j \in a..b : x > f[j] PROVE x > Max(T)
  BY <1>3, <1>6
<1>7. QED
  BY <1>5, <1>6

\* With the prices of candles: a breakout is a close above every high before it.
LEMMA AbovePriorHigh ==
  ASSUME eth \in Seq(Candles), NEW i \in (EntryLookback + 1)..Len(eth)
  PROVE  eth[i].close > PriorHigh(eth, i)
           <=> \A k \in (i - EntryLookback)..(i - 1) : eth[i].close > eth[k].high
<1> DEFINE a == i - EntryLookback
           high == [ k \in a..(i - 1) |-> eth[k].high ]
<1>1. /\ EntryLookback \in Nat \ {0}
      /\ Candles \subseteq [high : Nat, low : Nat, close : Nat]
  BY StrategiesAssumption
<1>2. a \in Nat /\ i - 1 \in Nat /\ a <= i - 1 /\ i \in 1..Len(eth)
  BY <1>1
<1>3. \A k \in a..(i - 1) : k \in 1..Len(eth) /\ eth[k] \in Candles
  BY <1>1, <1>2
<1>4. ASSUME NEW k \in a..(i - 1) PROVE high[k] = eth[k].high /\ high[k] \in Int
  <2>1. eth[k] \in [high : Nat, low : Nat, close : Nat]
    BY <1>1, <1>3
  <2>2. eth[k].high \in Nat
    BY <2>1
  <2>3. QED
    BY <2>2
<1>5. eth[i].close \in Int
  <2>1. eth[i] \in Candles
    BY <1>2
  <2>2. QED
    BY <1>1, <2>1
<1>6. PriorHigh(eth, i) = Max({ high[k] : k \in a..(i - 1) })
  BY DEF PriorHigh
<1> HIDE DEF high, a
<1>7. eth[i].close > Max({ high[k] : k \in a..(i - 1) })
        <=> \A k \in a..(i - 1) : eth[i].close > high[k]
  BY <1>2, <1>4, <1>5, AboveMax
<1>8. QED
  BY <1>4, <1>6, <1>7 DEF a

\* A filter's word on a BUY of the baseline.
LEMMA Consent ==
  ASSUME Recorded, NEW i \in DOMAIN decided
  PROVE  LET d == decided[i] IN
         /\ i \in 1..Len(eth)
         /\ d.context = IF d.baseline = "BUY" /\ ~BtcBullish(btc, i) THEN "HOLD" ELSE d.baseline
         /\ d.regime = IF d.baseline = "BUY" /\ ~BtcRiskOn(btc, i) THEN "HOLD" ELSE d.baseline
         /\ d.donchian = DonchianAction(eth, i)
         /\ d.bollinger = BollingerAction(eth, i)
<1>1. i \in 1..Len(eth) /\ i \in DOMAIN eth
  BY DEF Recorded
<1>2. Decisions(eth, btc, i, decided[i].baseline) = decided[i]
  BY <1>1 DEF Recorded, NoLookAhead
<1> DEFINE action == decided[i].baseline
<1> HIDE DEF action
<1>3. decided[i] = Decisions(eth, btc, i, action)
  BY <1>2 DEF action
<1>4. /\ decided[i].context = Filtered(action, BtcBullish(btc, i))
      /\ decided[i].regime = Filtered(action, BtcRiskOn(btc, i))
      /\ decided[i].donchian = DonchianAction(eth, i)
      /\ decided[i].bollinger = BollingerAction(eth, i)
  BY <1>3 DEF Decisions
<1>5. QED
  BY <1>1, <1>4 DEF Filtered, action

\* What was decided as the candles came is what the scripts count afterwards.
LEMMA RecordedAgrees == Recorded => DiagnosticsAgree
<1> SUFFICES ASSUME Recorded PROVE DiagnosticsAgree
  OBVIOUS
<1>1. eth \in Seq(Candles) /\ DOMAIN decided = 1..Len(eth) /\ Len(eth) \in Nat
  BY DEF Recorded
<1>2. /\ EntryLookback \in Nat \ {0} /\ BollingerPeriod \in Nat \ {0}
  BY StrategiesAssumption
<1>3. Buys("donchian") = ConfirmedBreakouts
  <2>1. ASSUME NEW i \in 1..Len(eth)
        PROVE  DonchianAction(eth, i) = "BUY" <=> i \in ConfirmedBreakouts
    <3>1. CASE i > EntryLookback
      <4>1. i \in (EntryLookback + 1)..Len(eth)
        BY <1>1, <1>2, <3>1
      <4>2. eth[i].close > PriorHigh(eth, i)
              <=> \A k \in (i - EntryLookback)..(i - 1) : eth[i].close > eth[k].high
        BY <1>1, <4>1, AbovePriorHigh
      <4>3. QED
        BY <3>1, <4>1, <4>2 DEF DonchianAction, ConfirmedBreakouts
    <3>2. CASE ~(i > EntryLookback)
      BY <1>1, <1>2, <3>2 DEF DonchianAction, ConfirmedBreakouts
    <3>3. QED
      BY <3>1, <3>2
  <2>2. \A i \in DOMAIN decided : decided[i].donchian = DonchianAction(eth, i)
    BY Consent
  <2>3. ConfirmedBreakouts \subseteq 1..Len(eth)
    BY <1>1, <1>2 DEF ConfirmedBreakouts
  <2>4. QED
    BY <1>1, <2>1, <2>2, <2>3 DEF Buys
<1>4. Buys("bollinger") = ConfirmedReEntries \ SimultaneousSetups
  <2>1. ASSUME NEW i \in 1..Len(eth)
        PROVE  BollingerAction(eth, i) = "BUY"
                 <=> i \in ConfirmedReEntries \ SimultaneousSetups
    BY <1>1 DEF BollingerAction, ConfirmedReEntries, SimultaneousSetups, ReEntry
  <2>2. \A i \in DOMAIN decided : decided[i].bollinger = BollingerAction(eth, i)
    BY Consent
  <2>3. ConfirmedReEntries \subseteq 1..Len(eth)
    BY <1>1 DEF ConfirmedReEntries
  <2>4. QED
    BY <1>1, <2>1, <2>2, <2>3 DEF Buys
<1>5. ASSUME NEW filter \in {"context", "regime"}
      PROVE  /\ Buys(filter) = Buys("baseline") \ BlockedBuys(filter)
             /\ \A i \in DOMAIN decided :
                  decided[i][filter] # decided[i].baseline => i \in BlockedBuys(filter)
  <2>1. CASE filter = "context"
    BY <2>1, Consent DEF Buys, BlockedBuys
  <2>2. CASE filter = "regime"
    BY <2>2, Consent DEF Buys, BlockedBuys
  <2>3. QED
    BY <2>1, <2>2
<1>6. BlockedBuys("context") \subseteq BlockedBuys("regime")
  BY Consent DEF BlockedBuys, Buys, BtcRiskOn
<1>7. QED
  BY <1>3, <1>4, <1>5, <1>6 DEF DiagnosticsAgree

\* What the evaluation scripts count from the series is what the strategies decided
\* candle by candle, for every data set: breakout and mean-reversion diagnostics and
\* the attribution of the BTC filters.
THEOREM ScriptsCountDecisions == StrategySpec => []DiagnosticsAgree
<1>1. StrategyInit => Recorded
  BY DEF StrategyInit, Recorded, NoLookAhead, Range
<1>2. QED
  BY <1>1, RecordedAgrees, RecordedStep, PTL DEF StrategySpec

-----------------------------------------------------------------------------
(* The confirmation of a regime.                                           *)

\* A streak begins at k; nothing changes from a to b.
Starts(o, k) == o[k] # "none" /\ (k > 1 => o[k - 1] # o[k])
Same(o, a, b) == \A j \in a..b : o[j] = o[a]

\* The streaks that lasted, and those that did not.
ConfirmedAt(o) ==
  { k \in 1..Len(o) : /\ k + ConfirmationCandles - 1 <= Len(o)
                      /\ Starts(o, k) /\ Same(o, k, k + ConfirmationCandles - 1) }
EndsEarly(o, k, last) ==
  Same(o, k, last) /\ o[last + 1] # o[k] /\ last - k + 1 < ConfirmationCandles
RejectedAt(o) ==
  { k \in 1..Len(o) : Starts(o, k) /\ \E last \in k..(Len(o) - 1) : EndsEarly(o, k, last) }

EvidenceOf(o) == { o[k] : k \in ConfirmedAt(o) }

\* What the tracker c keeps of the regimes o: the last one, since when it has held,
\* and what was confirmed and rejected.
Begun(c, o) == Len(o) - c.count + 1
Tracks(c, o) ==
  /\ c.pending = IF Len(o) = 0 THEN "none" ELSE o[Len(o)]
  /\ IF c.pending = "none" THEN c.count = 0
     ELSE /\ c.count \in 1..Len(o)
          /\ Starts(o, Begun(c, o)) /\ Same(o, Begun(c, o), Len(o))
Tells(c, o) ==
  /\ c = [pending |-> c.pending, count |-> c.count, evidence |-> c.evidence,
          rejected |-> c.rejected]
  /\ Tracks(c, o)
  /\ c.evidence = EvidenceOf(o)
  /\ c.rejected = Cardinality(RejectedAt(o))

\* Only one streak reaches the end.
LEMMA OneLastStreak ==
  ASSUME NEW o, NEW n \in Nat, NEW i \in 1..n, NEW k \in 1..n,
         Starts(o, i), Same(o, i, n), Starts(o, k), Same(o, k, n)
  PROVE  i = k
<1>1. ASSUME NEW a \in 1..n, NEW b \in 1..n, a < b, Same(o, a, n), Starts(o, b)
      PROVE  FALSE
  <2>1. b - 1 \in a..n /\ b \in a..n /\ b > 1
    BY <1>1
  <2>2. o[b - 1] = o[a] /\ o[b] = o[a]
    BY <1>1, <2>1 DEF Same
  <2>3. QED
    BY <1>1, <2>1, <2>2 DEF Starts
<1>2. ~(i < k) /\ ~(k < i)
  BY <1>1
<1>3. QED
  BY <1>2

\* One more regime: since when it holds.
LEMMA TracksStep ==
  ASSUME NEW S, NEW o \in Seq(S), NEW r \in S, NEW c, Tells(c, o)
  PROVE  Tracks(Observe(c, r), Append(o, r))
<1> DEFINE n == Len(o)
           p == Append(o, r)
           d == Observe(c, r)
<1>1. /\ n \in Nat /\ Len(p) = n + 1 /\ p[n + 1] = r
      /\ \A i \in 1..n : p[i] = o[i]
  OBVIOUS
<1>2. CASE r = "none"
  <2>1. d = [c EXCEPT !.pending = "none", !.count = 0, !.rejected = Rejections(c)]
    BY <1>2 DEF Observe
  <2>2. c = [pending |-> c.pending, count |-> c.count, evidence |-> c.evidence,
             rejected |-> c.rejected]
    BY DEF Tells
  <2>3. d.pending = "none" /\ d.count = 0
    BY <2>1, <2>2
  <2>4. QED
    BY <1>1, <1>2, <2>3 DEF Tracks
<1>3. CASE r # "none" /\ r = c.pending
  <2>1. d.pending = r /\ d.count = c.count + 1
    BY <1>3 DEF Observe
  <2>2. /\ n # 0 /\ o[n] = r /\ c.count \in 1..n
        /\ Starts(o, Begun(c, o)) /\ Same(o, Begun(c, o), n)
    BY <1>3 DEF Tells, Tracks
  <2>3. Begun(d, p) = Begun(c, o) /\ Begun(c, o) \in 1..n
    BY SMTT(40), <1>1, <2>1, <2>2 DEF Begun
  <2> DEFINE k == Begun(c, o)
  <2> HIDE DEF k, p, d
  <2>4. Starts(p, k)
    BY <1>1, <2>2, <2>3 DEF Starts, k
  <2>5. ASSUME NEW j \in k..(n + 1) PROVE p[j] = p[k]
    <3>1. n \in k..n /\ k \in 1..n
      BY <1>1, <2>3 DEF k
    <3>2. o[n] = o[k] /\ p[k] = o[k]
      BY <1>1, <2>2, <3>1 DEF Same, k
    <3>3. CASE j = n + 1
      BY <1>1, <2>2, <3>2, <3>3
    <3>4. CASE j \in k..n
      BY <1>1, <2>2, <3>1, <3>2, <3>4 DEF Same, k
    <3>5. QED
      BY <1>1, <3>1, <3>3, <3>4
  <2>6. d.count \in 1..(n + 1)
    BY <1>1, <2>1, <2>2
  <2>7. QED
    BY <1>1, <1>3, <2>1, <2>3, <2>4, <2>5, <2>6 DEF Tracks, Same, k, p, d
<1>4. CASE r # "none" /\ r # c.pending
  <2>1. d.pending = r /\ d.count = 1
    BY <1>4 DEF Observe
  <2>2. Begun(d, p) = n + 1
    BY <1>1, <2>1 DEF Begun
  <2>3. n > 0 => o[n] # r
    BY <1>4 DEF Tells, Tracks
  <2>4. Starts(p, n + 1)
    BY <1>1, <1>4, <2>3 DEF Starts
  <2>5. Same(p, n + 1, n + 1)
    BY <1>1 DEF Same
  <2>6. QED
    BY <1>1, <1>4, <2>1, <2>2, <2>4, <2>5 DEF Tracks
<1>5. QED
  BY <1>2, <1>3, <1>4

\* What the beginning of the regimes says of a streak stays true.
LEMMA StreaksStay ==
  ASSUME NEW S, NEW o \in Seq(S), NEW r \in S, NEW k \in 1..Len(o)
  PROVE  /\ Starts(Append(o, r), k) <=> Starts(o, k)
         /\ \A b \in k..Len(o) : Same(Append(o, r), k, b) <=> Same(o, k, b)
BY DEF Starts, Same

\* One more regime: the streak that reaches its length with it, and no other, is new
\* evidence.
LEMMA EvidenceStep ==
  ASSUME NEW S, NEW o \in Seq(S), NEW r \in S, NEW c, Tells(c, o)
  PROVE  Observe(c, r).evidence = EvidenceOf(Append(o, r))
<1> DEFINE n == Len(o)
           p == Append(o, r)
           d == Observe(c, r)
           C == ConfirmationCandles
<1>0. C \in Nat \ {0}
  BY StrategiesAssumption
<1>1. /\ n \in Nat /\ Len(p) = n + 1 /\ p[n + 1] = r
      /\ \A i \in 1..n : p[i] = o[i]
  OBVIOUS
<1>2. /\ d.pending = r
      /\ r # "none" => /\ d.count \in 1..(n + 1) /\ Begun(d, p) = n + 1 - d.count + 1
                       /\ Starts(p, Begun(d, p)) /\ Same(p, Begun(d, p), n + 1)
  BY <1>1, TracksStep DEF Tracks, Begun
<1>3. d.evidence = c.evidence \cup (IF r # "none" /\ d.count >= C THEN {r} ELSE {})
  <2>1. CASE r = "none"
    <3>1. d = [c EXCEPT !.pending = "none", !.count = 0, !.rejected = Rejections(c)]
      BY <2>1 DEF Observe
    <3>2. c = [pending |-> c.pending, count |-> c.count, evidence |-> c.evidence,
               rejected |-> c.rejected]
      BY DEF Tells
    <3>3. QED
      BY <2>1, <3>1, <3>2
  <2>2. CASE r # "none"
    <3> DEFINE count == IF r = c.pending THEN c.count + 1 ELSE 1
    <3>1. d.count = count
      BY <2>2 DEF Observe
    <3>2. d.evidence = IF count < C THEN c.evidence ELSE c.evidence \cup {r}
      BY <2>2 DEF Observe
    <3> HIDE DEF count, d
    <3>3. QED
      BY <1>0, <1>1, <1>2, <2>2, <3>1, <3>2
  <2>3. QED
    BY <2>1, <2>2
<1>4. c.evidence = { o[k] : k \in ConfirmedAt(o) }
  BY DEF Tells, EvidenceOf
<1> HIDE DEF d, p
<1>5. ASSUME NEW k \in ConfirmedAt(o) PROVE k \in ConfirmedAt(p) /\ p[k] = o[k]
  <2>1. /\ k \in 1..n /\ k + C - 1 \in k..n
        /\ Starts(o, k) /\ Same(o, k, k + C - 1)
    BY <1>0, <1>1, <1>5 DEF ConfirmedAt
  <2>2. Starts(p, k) /\ Same(p, k, k + C - 1)
    BY <2>1, StreaksStay DEF p
  <2>3. QED
    BY <1>0, <1>1, <2>1, <2>2 DEF ConfirmedAt
<1>6. ASSUME r # "none", d.count >= C
      PROVE  \E k \in ConfirmedAt(p) : p[k] = r
  <2> DEFINE k == Begun(d, p)
  <2>1. /\ k \in 1..(n + 1) /\ n + 1 \in k..(n + 1) /\ k + C - 1 <= n + 1
        /\ Starts(p, k) /\ Same(p, k, n + 1)
    BY <1>0, <1>1, <1>2, <1>6
  <2> HIDE DEF k
  <2>2. Same(p, k, k + C - 1) /\ p[n + 1] = p[k]
    BY <1>0, <1>1, <2>1 DEF Same
  <2>3. k \in ConfirmedAt(p)
    BY <1>1, <2>1, <2>2 DEF ConfirmedAt
  <2>4. QED
    BY <1>1, <2>2, <2>3
<1>7. ASSUME NEW k \in ConfirmedAt(p), k \notin ConfirmedAt(o)
      PROVE  p[k] = r /\ r # "none" /\ d.count >= C
  <2>1. /\ k \in 1..(n + 1) /\ k + C - 1 <= n + 1
        /\ Starts(p, k) /\ Same(p, k, k + C - 1)
    BY <1>1, <1>7 DEF ConfirmedAt
  <2>2. k + C - 1 = n + 1
    <3>1. SUFFICES ASSUME k + C - 1 <= n PROVE FALSE
      BY <1>0, <1>1, <2>1
    <3>2. k \in 1..n /\ k + C - 1 \in k..n
      BY <1>0, <1>1, <2>1, <3>1
    <3>3. Starts(o, k) /\ Same(o, k, k + C - 1)
      BY <2>1, <3>2, StreaksStay DEF p
    <3>4. QED
      BY <1>7, <3>1, <3>2, <3>3 DEF ConfirmedAt
  <2>3. Same(p, k, n + 1) /\ n + 1 \in k..(n + 1)
    BY <1>1, <2>1, <2>2
  <2>4. p[k] = r /\ r # "none"
    BY <1>1, <2>1, <2>3 DEF Same, Starts
  <2>5. k = Begun(d, p)
    <3>1. Begun(d, p) \in 1..(n + 1)
      BY <1>1, <1>2, <2>4
    <3>2. QED
      BY <1>1, <1>2, <2>1, <2>3, <2>4, <3>1, OneLastStreak
  <2>6. d.count = C
    BY <1>0, <1>1, <1>2, <2>2, <2>4, <2>5
  <2>7. QED
    BY <1>0, <2>4, <2>6
<1>8. d.evidence = { p[k] : k \in ConfirmedAt(p) }
  BY <1>3, <1>4, <1>5, <1>6, <1>7
<1>9. QED
  BY <1>8 DEF p, d, EvidenceOf

\* There are finitely many rejections.
LEMMA RejectedFinite ==
  ASSUME NEW S, NEW o \in Seq(S)
  PROVE  IsFiniteSet(RejectedAt(o))
<1> DEFINE all == 1..Len(o)
<1>1. IsFiniteSet(all)
  BY FS_Interval
<1>2. RejectedAt(o) \in SUBSET all
  BY DEF RejectedAt
<1> HIDE DEF all
<1>3. QED
  BY <1>1, <1>2, FS_Subset

\* One more regime: the streak it ends too soon, and no other, is rejected.
LEMMA RejectionStep ==
  ASSUME NEW S, NEW o \in Seq(S), NEW r \in S, NEW c, Tells(c, o)
  PROVE  Observe(c, r).rejected = Cardinality(RejectedAt(Append(o, r)))
<1> DEFINE n == Len(o)
           p == Append(o, r)
           d == Observe(c, r)
           C == ConfirmationCandles
           ended == r # c.pending /\ c.pending # "none" /\ c.count < C
           k == Begun(c, o)
<1>0. C \in Nat \ {0}
  BY StrategiesAssumption
<1>1. /\ n \in Nat /\ Len(p) = n + 1 /\ p[n + 1] = r
      /\ \A i \in 1..n : p[i] = o[i]
  OBVIOUS
<1>2. d.rejected = c.rejected + (IF ended THEN 1 ELSE 0)
  <2>0. c.rejected \in Nat
    <3>1. c.rejected = Cardinality(RejectedAt(o))
      BY DEF Tells
    <3>2. QED
      BY <3>1, RejectedFinite, FS_CardinalityType
  <2>1. CASE r = "none"
    <3>1. d = [c EXCEPT !.pending = "none", !.count = 0, !.rejected = Rejections(c)]
      BY <2>1 DEF Observe
    <3>2. c = [pending |-> c.pending, count |-> c.count, evidence |-> c.evidence,
               rejected |-> c.rejected]
      BY DEF Tells
    <3>3. d.rejected = Rejections(c)
      BY <3>1, <3>2
    <3>4. QED
      BY <2>1, <3>3 DEF Rejections
  <2>2. CASE r # "none"
    <3>1. d.rejected = IF r = c.pending THEN c.rejected ELSE Rejections(c)
      BY <2>2 DEF Observe
    <3>2. QED
      BY <2>0, <2>2, <3>1 DEF Rejections
  <2>3. QED
    BY <2>1, <2>2
<1>3. c.rejected = Cardinality(RejectedAt(o)) /\ IsFiniteSet(RejectedAt(o))
  BY RejectedFinite DEF Tells
<1>4. c.pending # "none" =>
        /\ n # 0 /\ c.pending = o[n] /\ c.count \in 1..n /\ k = n - c.count + 1
        /\ k \in 1..n /\ Starts(o, k) /\ Same(o, k, n)
  BY <1>1 DEF Tells, Tracks, Begun
<1> HIDE DEF k, d, p
<1>5. ASSUME NEW i \in RejectedAt(o) PROVE i \in RejectedAt(p)
  <2>1. PICK last \in i..(n - 1) : EndsEarly(o, i, last)
    BY <1>5 DEF RejectedAt
  <2>2. /\ i \in 1..n /\ Starts(o, i) /\ last \in i..n /\ last + 1 \in 1..n
        /\ last \in i..((n + 1) - 1)
    BY <1>1, <1>5, <2>1 DEF RejectedAt
  <2>3. Starts(p, i) /\ EndsEarly(p, i, last)
    BY <1>1, <2>1, <2>2, StreaksStay DEF EndsEarly, p
  <2>4. QED
    BY <1>1, <2>2, <2>3 DEF RejectedAt
<1>6. ASSUME ended PROVE k \in RejectedAt(p) /\ k \notin RejectedAt(o)
  <2>1. /\ n \in k..n /\ k \in 1..n /\ Starts(p, k) /\ Same(p, k, n)
    BY <1>1, <1>4, <1>6, StreaksStay DEF p
  <2>2. p[k] = c.pending
    BY <1>1, <1>4, <1>6, <2>1 DEF Same
  <2>3. EndsEarly(p, k, n)
    BY <1>0, <1>1, <1>4, <1>6, <2>1, <2>2 DEF EndsEarly
  <2>4. k \in RejectedAt(p)
    BY <1>1, <2>1, <2>3 DEF RejectedAt
  <2>5. ASSUME NEW last \in k..(n - 1) PROVE ~EndsEarly(o, k, last)
    <3>1. last + 1 \in k..n
      BY <1>1, <1>4, <1>6, <2>5
    <3>2. o[last + 1] = o[k]
      BY <1>4, <1>6, <3>1 DEF Same
    <3>3. QED
      BY <3>2 DEF EndsEarly
  <2>6. QED
    BY <2>4, <2>5 DEF RejectedAt
<1>7. ASSUME NEW i \in RejectedAt(p), i \notin RejectedAt(o) PROVE ended /\ i = k
  <2>1. i \in 1..(n + 1) /\ Starts(p, i)
    BY <1>1, <1>7 DEF RejectedAt
  <2>2. PICK last \in i..((n + 1) - 1) : EndsEarly(p, i, last)
    BY <1>1, <1>7 DEF RejectedAt
  <2>3. i \in 1..n /\ last \in i..n /\ Starts(o, i) /\ Same(o, i, last) /\ p[i] = o[i]
    <3>1. i \in 1..n /\ last \in i..n
      BY <1>1, <2>1, <2>2
    <3>2. QED
      BY <1>1, <2>1, <2>2, <3>1, StreaksStay DEF EndsEarly, p
  <2>4. last = n
    <3>1. SUFFICES ASSUME last <= n - 1 PROVE FALSE
      BY <1>1, <2>3
    <3>2. last + 1 \in 1..n /\ last \in i..(n - 1)
      BY <1>1, <2>3, <3>1
    <3>3. EndsEarly(o, i, last)
      BY <1>1, <2>2, <2>3, <3>2 DEF EndsEarly
    <3>4. QED
      BY <1>7, <2>3, <3>2, <3>3 DEF RejectedAt
  <2>5. o[n] = o[i] /\ o[i] # "none" /\ r # o[i] /\ n - i + 1 < C
    BY <1>1, <2>2, <2>3, <2>4 DEF EndsEarly, Same, Starts
  <2>6. c.pending = o[n]
    BY <1>1, <2>3 DEF Tells, Tracks
  <2>7. i = k
    BY <1>1, <1>4, <2>3, <2>4, <2>5, <2>6, OneLastStreak
  <2>8. QED
    BY <1>1, <1>4, <2>5, <2>6, <2>7
<1> HIDE DEF ended
<1>8. RejectedAt(p) = IF ended THEN RejectedAt(o) \cup {k} ELSE RejectedAt(o)
  BY <1>5, <1>6, <1>7
<1>9. Cardinality(RejectedAt(p)) = Cardinality(RejectedAt(o)) + (IF ended THEN 1 ELSE 0)
  <2>1. Cardinality(RejectedAt(o)) \in Nat
    BY <1>3, FS_CardinalityType
  <2>2. CASE ended
    BY <1>3, <1>6, <1>8, <2>2, FS_AddElement
  <2>3. CASE ~ended
    BY <1>8, <2>1, <2>3
  <2>4. QED
    BY <2>2, <2>3
<1>10. QED
  BY <1>2, <1>3, <1>9 DEF d, p

\* One more regime: what the tracker tells stays true.
LEMMA TellsStep ==
  ASSUME NEW S, NEW o \in Seq(S), NEW r \in S, NEW c, Tells(c, o)
  PROVE  Tells(Observe(c, r), Append(o, r))
<1> DEFINE p == Append(o, r)
           d == Observe(c, r)
<1>1. Tracks(d, p)
  BY TracksStep
<1>2. d.evidence = EvidenceOf(p)
  BY EvidenceStep
<1>3. d.rejected = Cardinality(RejectedAt(p))
  BY RejectionStep
<1>4. d = [pending |-> d.pending, count |-> d.count, evidence |-> d.evidence,
           rejected |-> d.rejected]
  <2>1. c = [pending |-> c.pending, count |-> c.count, evidence |-> c.evidence,
             rejected |-> c.rejected]
    BY DEF Tells
  <2>2. QED
    BY <2>1 DEF Observe
<1> HIDE DEF d, p
<1>5. Tells(d, p)
  BY <1>1, <1>2, <1>3, <1>4 DEF Tells
<1>6. QED
  BY <1>5 DEF d, p

\* The invariant of the tracker.
Confirms ==
  /\ observed \in Seq(Range(observed))
  /\ Tells(confirmation, observed)

\* A candle keeps it, whatever its regime.
LEMMA ConfirmsStep == Confirms /\ [StrategyNext]_strategyVars => Confirms'
<1> SUFFICES ASSUME Confirms, [StrategyNext]_strategyVars PROVE Confirms'
  OBVIOUS
<1>1. CASE UNCHANGED strategyVars
  <2>1. UNCHANGED <<observed, confirmation>>
    BY <1>1 DEF strategyVars
  <2>2. QED
    BY <2>1 DEF Confirms
<1>2. CASE StrategyNext
  <2>1. PICK candle \in Candles, close \in BtcCloses : OnCandle(candle, close)
    BY <1>2 DEF StrategyNext
  <2> DEFINE r == Regime(eth')
             S == Range(observed) \cup {r}
             o == observed
             c == confirmation
  <2>2. /\ observed' = Append(o, r)
        /\ confirmation' = Observe(c, Last(observed'))
    BY <2>1 DEF OnCandle
  <2> HIDE DEF r
  <2>3. o \in Seq(S) /\ r \in S /\ Tells(c, o)
    BY DEF Confirms
  <2> HIDE DEF S
  <2>4. /\ observed' \in Seq(Range(observed')) /\ Last(observed') = r
    BY <2>2, <2>3 DEF Last, Range
  <2>5. confirmation' = Observe(c, r)
    BY <2>2, <2>4
  <2> HIDE DEF o, c
  <2>6. Tells(Observe(c, r), Append(o, r))
    BY <2>3, TellsStep
  <2>7. QED
    BY <2>2, <2>4, <2>5, <2>6 DEF Confirms, o, c
<1>3. QED
  BY <1>1, <1>2

\* What the tracker tells is what the property asks for.
LEMMA ConfirmsMeansStreak == Confirms => ConfirmedMeansStreak
<1> SUFFICES ASSUME Confirms PROVE ConfirmedMeansStreak
  OBVIOUS
<1> DEFINE C == ConfirmationCandles
           n == Len(observed)
<1>1. C \in Nat \ {0} /\ n \in Nat /\ DOMAIN observed = 1..n
  BY StrategiesAssumption DEF Confirms
<1>2. \A k \in DOMAIN observed : Streak(k, k) <=> Starts(observed, k)
  BY <1>1 DEF Streak, Starts
<1>3. ConfirmedAt(observed) =
        { k \in DOMAIN observed :
            k + C - 1 <= n /\ Streak(k, k)
              /\ \A j \in k..(k + C - 1) : observed[j] = observed[k] }
  BY <1>1, <1>2 DEF ConfirmedAt, Same
<1>4. ASSUME NEW i \in DOMAIN observed, NEW last \in i..(n - 1), Starts(observed, i)
      PROVE  Streak(i, last) <=> Same(observed, i, last)
  BY <1>4 DEF Streak, Starts, Same
<1>5. RejectedAt(observed) =
        { i \in DOMAIN observed :
            Streak(i, i) /\ \E last \in i..(n - 1) :
              Streak(i, last) /\ observed[last + 1] # observed[i] /\ last - i + 1 < C }
  BY <1>1, <1>2, <1>4 DEF RejectedAt, EndsEarly
<1>6. QED
  BY <1>3, <1>5 DEF Confirms, Tells, EvidenceOf, ConfirmedMeansStreak

\* RegimeConfirmationTracker confirms a regime exactly when it held for enough
\* candles in a row and counts every streak that ended sooner, for every sequence of
\* regimes and every length that is asked for.
THEOREM ConfirmationMeansStreak == StrategySpec => []ConfirmedMeansStreak
<1>1. StrategyInit => Confirms
  <2> SUFFICES ASSUME StrategyInit PROVE Confirms
    OBVIOUS
  <2>1. observed = <<>> /\ confirmation = NewConfirmation
    BY DEF StrategyInit
  <2>2. ConfirmedAt(<<>>) = {} /\ RejectedAt(<<>>) = {}
    BY DEF ConfirmedAt, RejectedAt
  <2>3. QED
    BY <2>1, <2>2, FS_EmptySet DEF Confirms, Tells, EvidenceOf, Tracks, NewConfirmation, Range
<1>2. QED
  BY <1>1, ConfirmsMeansStreak, ConfirmsStep, PTL DEF StrategySpec

-----------------------------------------------------------------------------
(* Trackers and series.                                                    *)

\* Whichever element of a set is taken out first, the sum is the same.
LEMMA SumsOfRest ==
  ASSUME NEW S, IsFiniteSet(S), NEW v, \A x \in S : v[x] \in Nat,
         NEW it, Sums(v, S, it), NEW s \in SUBSET S, NEW x \in s
  PROVE  it[s] = v[x] + it[s \ {x}]
<1> DEFINE Bad(r) == \E y \in r : it[r] # v[y] + it[r \ {y}]
           T == { k \in Nat : \E r \in SUBSET S : Cardinality(r) = k /\ Bad(r) }
<1>1. \A r \in SUBSET S : Cardinality(r) \in Nat
  BY FS_Subset, FS_CardinalityType
<1> SUFFICES ASSUME T # {} PROVE FALSE
  BY <1>1
<1>2. PICK m \in T : \A k \in T : m <= k
  BY LeastNatural
<1>3. PICK r \in SUBSET S : Cardinality(r) = m /\ Bad(r)
  OBVIOUS
<1>4. PICK y \in r : it[r] # v[y] + it[r \ {y}]
  BY <1>3
<1> DEFINE z == Some(r)
<1>5. r # {} /\ z \in r
  BY OneLess
<1>6. it[r] = v[z] + it[r \ {z}]
  BY <1>5 DEF Sums
<1>7. y # z
  BY <1>4, <1>6
<1>8. ASSUME NEW u \in r
      PROVE  r \ {u} \in SUBSET S /\ Cardinality(r \ {u}) < m /\ ~Bad(r \ {u})
  <2>1. IsFiniteSet(r)
    BY FS_Subset
  <2>2. Cardinality(r \ {u}) = m - 1 /\ r \ {u} \in SUBSET S
    BY <1>3, <2>1, FS_RemoveElement
  <2>3. Cardinality(r \ {u}) \in Nat /\ Cardinality(r \ {u}) < m
    BY <1>1, <2>2
  <2> HIDE DEF T
  <2>4. Cardinality(r \ {u}) \notin T
    <3>1. m \in Nat
      BY <1>1, <1>3
    <3>2. QED
      BY <1>2, <2>3, <3>1
  <2> HIDE DEF Bad
  <2>5. QED
    BY <2>2, <2>3, <2>4 DEF T
<1> HIDE DEF z
<1>9. it[r \ {z}] = v[y] + it[(r \ {z}) \ {y}]
  BY <1>5, <1>7, <1>8
<1>10. it[r \ {y}] = v[z] + it[(r \ {y}) \ {z}]
  BY <1>5, <1>7, <1>8
<1>11. (r \ {z}) \ {y} = (r \ {y}) \ {z}
  OBVIOUS
<1>12. v[y] \in Nat /\ v[z] \in Nat /\ it[(r \ {y}) \ {z}] \in Nat
  <2>1. (r \ {y}) \ {z} \in SUBSET S /\ y \in S /\ z \in S
    BY <1>5
  <2>2. QED
    BY <2>1, SumsNatural
<1> DEFINE rest == it[(r \ {y}) \ {z}]
           first == v[y]
           other == v[z]
<1>13. /\ it[r] = other + (first + rest)
       /\ v[y] + it[r \ {y}] = first + (other + rest)
  BY <1>6, <1>9, <1>10, <1>11
<1>14. first \in Nat /\ other \in Nat /\ rest \in Nat
  BY <1>12
<1> HIDE DEF rest, first, other
<1>15. other + (first + rest) = first + (other + rest)
  BY <1>14
<1>16. QED
  BY <1>4, <1>13, <1>15

\* The sums of a smaller set are among those of a larger one.
LEMMA SumsRestrict ==
  ASSUME NEW S, NEW R \in SUBSET S, NEW v, NEW it, Sums(v, S, it)
  PROVE  Sums(v, R, [ s \in SUBSET R |-> it[s] ])
<1> DEFINE jt == [ s \in SUBSET R |-> it[s] ]
<1>1. \A s \in SUBSET R : s \in SUBSET S /\ s \ {Some(s)} \in SUBSET R
  OBVIOUS
<1>2. \A s \in SUBSET R :
        jt[s] = IF s = {} THEN 0 ELSE v[Some(s)] + jt[s \ {Some(s)}]
  BY <1>1 DEF Sums
<1>3. jt = [ s \in SUBSET R |-> jt[s] ]
  OBVIOUS
<1> HIDE DEF jt
<1>4. QED
  BY <1>2, <1>3 DEF Sums, jt

\* A total of natural numbers, one by one.
LEMMA TotalOneByOne ==
  ASSUME NEW v, NEW a \in Int, NEW b \in Int, \A k \in a..b : v[k] \in Nat
  PROVE  Total(v, a, b) = IF b < a THEN 0 ELSE Total(v, a, b - 1) + v[b]
<1> DEFINE S == a..b
           R == a..(b - 1)
           it == CHOOSE f : Sums(v, S, f)
           jt == CHOOSE f : Sums(v, R, f)
<1>1. IsFiniteSet(S) /\ IsFiniteSet(R)
  BY FS_Interval
<1>2. Total(v, a, b) = it[S] /\ Total(v, a, b - 1) = jt[R]
  BY TotalIsSums
<1>3. R \in SUBSET S /\ \A k \in S : v[k] \in Nat
  OBVIOUS
<1>4. b < a => S = {}
  OBVIOUS
<1>5. b >= a => b \in S /\ S \ {b} = R
  OBVIOUS
<1> HIDE DEF S, R
<1>6. Sums(v, S, it) /\ Sums(v, R, jt)
  BY <1>1, SumsExist
<1> HIDE DEF it, jt
<1>7. CASE b < a
  BY <1>2, <1>4, <1>6, <1>7 DEF Sums
<1>8. CASE b >= a
  <2>1. it[S] = v[b] + it[R]
    <3>1. S \in SUBSET S
      OBVIOUS
    <3>2. QED
      BY <1>1, <1>3, <1>5, <1>6, <1>8, <3>1, SumsOfRest
  <2>2. it[R] = jt[R]
    <3> DEFINE kt == [ s \in SUBSET R |-> it[s] ]
    <3>1. Sums(v, R, kt) /\ R \in SUBSET R
      BY <1>3, <1>6, SumsRestrict
    <3>2. kt[R] = it[R]
      OBVIOUS
    <3> HIDE DEF kt
    <3>3. \A s \in SUBSET R : kt[s] = jt[s]
      BY <1>1, <1>6, <3>1, SumsAgree
    <3>4. QED
      BY <3>1, <3>2, <3>3
  <2>3. it[R] \in Nat /\ v[b] \in Nat
    BY <1>1, <1>3, <1>5, <1>6, <1>8, SumsNatural
  <2>4. QED
    BY <1>2, <1>8, <2>1, <2>2, <2>3
<1>9. QED
  BY <1>7, <1>8

\* A tracker numbers its seed from one, a series from two.
LEMMA TotalShifted ==
  ASSUME NEW v, NEW w, NEW n \in Nat,
         \A k \in 1..n : v[k] \in Nat /\ w[k + 1] = v[k]
  PROVE  Total(v, 1, n) = Total(w, 2, n + 1)
<1> DEFINE T == { m \in 0..n : Total(v, 1, m) # Total(w, 2, m + 1) }
<1> SUFFICES ASSUME T # {} PROVE FALSE
  OBVIOUS
<1>0. T \subseteq Nat
  OBVIOUS
<1>1. PICK m \in T : \A k \in T : m <= k
  BY <1>0, LeastNatural
<1>2. m \in 0..n
  OBVIOUS
<1>3. \A k \in 2..(m + 1) : w[k] \in Nat
  <2>1. ASSUME NEW k \in 2..(m + 1) PROVE w[k] \in Nat
    <3>1. k - 1 \in 1..n /\ (k - 1) + 1 = k
      BY <1>2
    <3>2. QED
      BY <3>1
  <2>2. QED
    BY <2>1
<1>4. Total(v, 1, m) = IF m < 1 THEN 0 ELSE Total(v, 1, m - 1) + v[m]
  <2>1. \A k \in 1..m : v[k] \in Nat
    BY <1>2
  <2>2. QED
    BY <1>2, <2>1, TotalOneByOne
<1>5. Total(w, 2, m + 1) = IF m + 1 < 2 THEN 0 ELSE Total(w, 2, m + 1 - 1) + w[m + 1]
  BY <1>2, <1>3, TotalOneByOne
<1>6. CASE m = 0
  BY <1>4, <1>5, <1>6
<1>7. CASE m # 0
  <2>1. m - 1 \in 0..n /\ ~(m <= m - 1) /\ m \in 1..n
    BY <1>2, <1>7
  <2> HIDE DEF T
  <2>2. m - 1 \notin T
    BY <1>1, <2>1
  <2>3. Total(v, 1, m - 1) = Total(w, 2, (m - 1) + 1)
    BY <2>1, <2>2 DEF T
  <2>4. w[m + 1] = v[m] /\ (m - 1) + 1 = m /\ m + 1 - 1 = m
    BY <2>1
  <2>5. Total(v, 1, m) = Total(w, 2, m + 1)
    BY <1>4, <1>5, <2>1, <2>3, <2>4
  <2>6. QED
    BY <2>5 DEF T
<1>8. QED
  BY <1>6, <1>7

\* Quotients of natural numbers are natural numbers.
LEMMA QuotientNatural ==
  ASSUME NEW x \in Nat, NEW y \in Nat \ {0}
  PROVE  x \div y \in Nat
OBVIOUS

\* And so are products.
LEMMA ProductNatural ==
  ASSUME NEW x \in Nat, NEW y \in Nat
  PROVE  x * y \in Nat
OBVIOUS

\* Append, entry by entry.
LEMMA AppendedEntries ==
  ASSUME NEW S, NEW s \in Seq(S), NEW x \in S, NEW t \in Seq(S),
         Len(t) = Len(s) + 1, t[Len(s) + 1] = x, \A k \in 1..Len(s) : t[k] = s[k]
  PROVE  Append(s, x) = t
<1> DEFINE a == Append(s, x)
<1>1. /\ a \in Seq(S) /\ Len(a) = Len(t) /\ Len(t) \in Nat
      /\ \A k \in 1..Len(t) : a[k] = t[k]
  OBVIOUS
<1> HIDE DEF a
<1>2. a = [ k \in 1..Len(t) |-> a[k] ] /\ t = [ k \in 1..Len(t) |-> t[k] ]
  BY <1>1
<1>3. QED
  BY <1>1, <1>2 DEF a

\* What an EMA tracker holds after the n values v: all of them, or their average.
EmaTells(t, v, n, p) ==
  /\ t = [buffer |-> t.buffer, prev |-> t.prev, current |-> t.current]
  /\ IF n < p THEN t.current = None /\ t.buffer = v
     ELSE t.current = Ema(v, p)[n] /\ t.current \in Nat

\* One more value.
LEMMA EmaStep ==
  ASSUME NEW t, NEW n \in Nat, NEW v \in Seq(Nat), Len(v) = n, NEW x \in Nat,
         NEW p \in Nat \ {0}, EmaTells(t, v, n, p)
  PROVE  EmaTells(EmaUpdate(t, x, p), Append(v, x), n + 1, p)
<1> DEFINE w == Append(v, x)
           u == EmaUpdate(t, x, p)
           e == Ema(v, p)
           f == Ema(w, p)
<1>1. /\ w \in Seq(Nat) /\ Len(w) = n + 1 /\ DOMAIN w = 1..(n + 1) /\ w[n + 1] = x
      /\ Prefix(v, n, w, n + 1) /\ n + 1 \in Nat
  BY AppendedPrefix
<1>2. t = [buffer |-> t.buffer, prev |-> t.prev, current |-> t.current]
  BY DEF EmaTells
<1>3. u = [buffer |-> u.buffer, prev |-> u.prev, current |-> u.current]
  BY <1>2 DEF EmaUpdate
<1> HIDE DEF w, e, f
<1>4. IsEma(w, p, n + 1, f)
  BY <1>1, EmaEquations DEF f
<1>5. f[n + 1] = IF n + 1 < p THEN None ELSE IF n + 1 = p THEN Seed(w, p)
                 ELSE Smoothed(f[n], x, p)
  BY <1>1, <1>4 DEF IsEma
<1>6. CASE n < p
  <2>1. t.current = None /\ t.buffer = v
    BY <1>6 DEF EmaTells
  <2>2. u = [t EXCEPT !.buffer = w,
                      !.current = IF Len(w) = p THEN Total(w, 1, p) \div p ELSE None]
    BY <2>1 DEF EmaUpdate, w
  <2>3. u.buffer = w /\ u.current = IF n + 1 = p THEN Total(w, 1, p) \div p ELSE None
    BY <1>1, <1>2, <2>2
  <2> HIDE DEF u
  <2>4. CASE n + 1 < p
    BY <1>3, <2>3, <2>4 DEF EmaTells, u, w
  <2>5. CASE n + 1 = p
    <3>1. Total(w, 1, p) \in Nat
      <4>1. 1 \in Int /\ p \in Int /\ \A k \in 1..p : w[k] \in Nat
        BY <1>1, <2>5
      <4>2. QED
        BY <4>1, TotalNatural
    <3>2. u.current \in Nat
      BY <2>3, <2>5, <3>1, QuotientNatural
    <3>3. u.current = f[n + 1]
      BY <1>5, <2>3, <2>5 DEF Seed
    <3>4. QED
      BY <1>3, <2>5, <3>2, <3>3 DEF EmaTells, u, w, f
  <2>6. QED
    BY <1>6, <2>4, <2>5
<1>7. CASE n >= p
  <2>1. t.current = e[n] /\ t.current \in Nat
    BY <1>7 DEF EmaTells, e
  <2>2. u.current = Smoothed(t.current, x, p)
    BY <1>2, <2>1 DEF EmaUpdate, None
  <2>3. Prefix(e, n, f, n + 1)
    BY <1>1, EmaCausal DEF e, f
  <2>4. e[n] = f[n]
    BY <1>7, <2>3 DEF Prefix
  <2>5. u.current = f[n + 1]
    BY <1>5, <1>7, <2>1, <2>2, <2>4
  <2>6. u.current \in Nat
    <3> DEFINE sum == 2 * x + (p - 1) * t.current
    <3>1. (p - 1) * t.current \in Nat
      BY <2>1, ProductNatural
    <3>2. sum \in Nat
      BY <3>1
    <3> HIDE DEF sum
    <3>3. sum \div (p + 1) \in Nat
      BY <3>2, QuotientNatural
    <3>4. QED
      BY <2>2, <3>3 DEF Smoothed, sum
  <2> HIDE DEF u
  <2>7. QED
    BY <1>3, <1>7, <2>5, <2>6 DEF EmaTells, u, w, f
<1>8. QED
  BY <1>6, <1>7

\* What a Wilder tracker holds after the n entries of v, the first of which it does
\* not see: the others, or their smoothing.
MeanTells(m, v, n, p) ==
  /\ m = [seed |-> m.seed, value |-> m.value]
  /\ IF n < p + 1 THEN m.value = None /\ m.seed = [ k \in 1..(n - 1) |-> v[k + 1] ]
     ELSE m.value = Wilder(v, 2, p)[n] /\ m.value \in Nat

\* Before the second entry.
LEMMA MeanStart ==
  ASSUME NEW v, NEW p \in Nat \ {0}
  PROVE  MeanTells(NewMean, v, 1, p)
<1>1. [ k \in 1..(1 - 1) |-> v[k + 1] ] = <<>>
  OBVIOUS
<1>2. QED
  BY <1>1 DEF MeanTells, NewMean

\* In the warm-up both are None.
LEMMA MeanIsSmoothing ==
  ASSUME NEW m, NEW v, NEW n \in Nat \ {0}, DOMAIN v = 1..n, NEW p \in Nat \ {0},
         MeanTells(m, v, n, p)
  PROVE  m.value = Wilder(v, 2, p)[n]
<1>1. IsWilder(v, 2, p, n, Wilder(v, 2, p))
  BY WilderEquations
<1>2. n < 2 + p - 1 => Wilder(v, 2, p)[n] = None
  BY <1>1 DEF IsWilder
<1>3. QED
  BY <1>2 DEF MeanTells

\* One more entry.
LEMMA MeanStep ==
  ASSUME NEW m, NEW n \in Nat \ {0}, NEW v, NEW w, Prefix(v, n, w, n + 1),
         \A k \in 2..(n + 1) : w[k] \in Nat, NEW p \in Nat \ {0}, MeanTells(m, v, n, p)
  PROVE  MeanTells(MeanUpdate(m, w[n + 1], p), w, n + 1, p)
<1> DEFINE x == w[n + 1]
           u == MeanUpdate(m, x, p)
           e == Wilder(v, 2, p)
           f == Wilder(w, 2, p)
<1>1. DOMAIN w = 1..(n + 1) /\ x \in Nat /\ \A k \in 1..n : w[k] = v[k]
  BY DEF Prefix
<1>2. m = [seed |-> m.seed, value |-> m.value]
  BY DEF MeanTells
<1>3. u = [seed |-> u.seed, value |-> u.value]
  BY <1>2 DEF MeanUpdate
<1> HIDE DEF e, f, x
<1>4. IsWilder(w, 2, p, n + 1, f)
  BY <1>1, WilderEquations DEF f
<1>5. f[n + 1] = IF n + 1 < p + 1 THEN None
                 ELSE IF n + 1 = p + 1 THEN Total(w, 2, p + 1) \div p
                 ELSE (f[n] * (p - 1) + x) \div p
  BY <1>4 DEF IsWilder, x
<1>6. CASE n < p + 1
  <2> DEFINE seed == Append(m.seed, x)
             s == [ k \in 1..(n - 1) |-> v[k + 1] ]
  <2>1. m.value = None /\ m.seed = s
    BY <1>6 DEF MeanTells
  <2>2. s \in Seq(Nat) /\ Len(s) = n - 1
    <3>1. \A k \in 1..(n - 1) : v[k + 1] \in Nat
      <4>1. ASSUME NEW k \in 1..(n - 1) PROVE v[k + 1] \in Nat
        <5>1. k + 1 \in 1..n /\ k + 1 \in 2..(n + 1)
          OBVIOUS
        <5>2. v[k + 1] = w[k + 1] /\ w[k + 1] \in Nat
          BY <1>1, <5>1
        <5>3. QED
          BY <5>2
      <4>2. QED
        BY <4>1
    <3>2. QED
      BY <3>1
  <2>3. Len(seed) = n
    BY <2>1, <2>2
  <2>4. seed = [ k \in 1..n |-> w[k + 1] ]
    <3> DEFINE new == [ k \in 1..n |-> w[k + 1] ]
    <3>1. \A k \in 1..n : k + 1 \in 2..(n + 1) /\ w[k + 1] \in Nat
      OBVIOUS
    <3>2. new \in Seq(Nat) /\ Len(new) = n
      BY <3>1
    <3>3. ASSUME NEW k \in 1..(n - 1) PROVE new[k] = s[k]
      <4>1. k \in 1..n /\ k + 1 \in 1..n
        OBVIOUS
      <4>2. QED
        BY <1>1, <4>1
    <3>4. new[n] = x
      BY DEF x
    <3> HIDE DEF new, s
    <3>5. Append(s, x) = new
      BY <1>1, <2>2, <3>2, <3>3, <3>4, AppendedEntries
    <3>6. QED
      BY <2>1, <3>5 DEF new
  <2>5. u.seed = seed /\ u.value = IF n = p THEN Total(seed, 1, p) \div p ELSE None
    BY <2>1, <2>3 DEF MeanUpdate
  <2> HIDE DEF u, seed, s
  <2>6. CASE n < p
    <3>1. n + 1 < p + 1 /\ (n + 1) - 1 = n
      BY <2>6
    <3>2. QED
      BY <1>3, <2>4, <2>5, <2>6, <3>1 DEF MeanTells, u, x
  <2>7. CASE n = p
    <3>1. Total(seed, 1, p) = Total(w, 2, p + 1) /\ Total(seed, 1, p) \in Nat
      <4>1. ASSUME NEW k \in 1..p PROVE seed[k] \in Nat /\ w[k + 1] = seed[k]
        <5>1. k + 1 \in 2..(n + 1) /\ k \in 1..n
          BY <2>7
        <5>2. QED
          BY <2>4, <5>1
      <4>2. 1 \in Int /\ p \in Int /\ p \in Nat
        OBVIOUS
      <4>3. Total(seed, 1, p) = Total(w, 2, p + 1)
        BY <4>1, <4>2, TotalShifted
      <4>4. Total(seed, 1, p) \in Nat
        BY <4>1, <4>2, TotalNatural
      <4>5. QED
        BY <4>3, <4>4
    <3>2. u.value \in Nat
      BY <2>5, <2>7, <3>1, QuotientNatural
    <3>3. u.value = f[n + 1]
      BY <1>5, <2>5, <2>7, <3>1
    <3>4. QED
      BY <1>3, <2>7, <3>2, <3>3 DEF MeanTells, u, x, f
  <2>8. QED
    BY <1>6, <2>6, <2>7
<1>7. CASE n >= p + 1
  <2>1. m.value = e[n] /\ m.value \in Nat
    BY <1>7 DEF MeanTells, e
  <2>2. u.value = (m.value * (p - 1) + x) \div p
    BY <1>2, <2>1 DEF MeanUpdate, None
  <2>3. e[n] = f[n]
    <3>1. Prefix(e, n, f, n + 1)
      <4>1. 2 \in Nat \ {0}
        OBVIOUS
      <4>2. QED
        BY <4>1, WilderCausal DEF e, f
    <3>2. QED
      BY <1>7, <3>1 DEF Prefix
  <2>4. u.value = f[n + 1]
    BY <1>5, <1>7, <2>1, <2>2, <2>3
  <2>5. u.value \in Nat
    <3> DEFINE sum == m.value * (p - 1) + x
    <3>1. m.value * (p - 1) \in Nat
      BY <2>1, ProductNatural
    <3>2. sum \in Nat
      BY <1>1, <3>1
    <3> HIDE DEF sum
    <3>3. sum \div p \in Nat
      BY <3>2, QuotientNatural
    <3>4. QED
      BY <2>2, <3>3 DEF sum
  <2> HIDE DEF u
  <2>6. QED
    BY <1>3, <1>7, <2>4, <2>5 DEF MeanTells, u, x, f
<1>8. QED
  BY <1>6, <1>7

\* The changes that Rsi smooths.
Change(values, i) == IF i = 1 THEN 0 ELSE values[i] - values[i - 1]
Gains(values) == [ i \in DOMAIN values |-> Gain(Change(values, i)) ]
Losses(values) == [ i \in DOMAIN values |-> Gain(-Change(values, i)) ]

\* They are natural numbers, causal, and what the tracker computes from two closes.
LEMMA GainsStep ==
  ASSUME NEW n \in Nat \ {0}, NEW v \in Seq(Nat), Len(v) = n, NEW x \in Nat
  PROVE  LET w == Append(v, x) IN
         /\ Prefix(Gains(v), n, Gains(w), n + 1) /\ Prefix(Losses(v), n, Losses(w), n + 1)
         /\ Gains(w)[n + 1] = Gain(x - v[n]) /\ Losses(w)[n + 1] = Gain(v[n] - x)
         /\ \A k \in 2..(n + 1) : Gains(w)[k] \in Nat /\ Losses(w)[k] \in Nat
<1> DEFINE w == Append(v, x)
<1>1. /\ w \in Seq(Nat) /\ DOMAIN w = 1..(n + 1) /\ w[n + 1] = x /\ w[n] = v[n]
      /\ DOMAIN v = 1..n /\ \A i \in 1..n : w[i] = v[i]
  OBVIOUS
<1> HIDE DEF w
<1>2. /\ DOMAIN Gains(v) = 1..n /\ DOMAIN Gains(w) = 1..(n + 1)
      /\ DOMAIN Losses(v) = 1..n /\ DOMAIN Losses(w) = 1..(n + 1)
  BY <1>1 DEF Gains, Losses
<1>3. ASSUME NEW i \in 1..n
      PROVE  Gains(v)[i] = Gains(w)[i] /\ Losses(v)[i] = Losses(w)[i]
  <2>1. Change(v, i) = Change(w, i)
    BY <1>1 DEF Change
  <2>2. QED
    BY <1>1, <2>1 DEF Gains, Losses
<1>4. ASSUME NEW k \in 1..(n + 1) PROVE Gains(w)[k] \in Nat /\ Losses(w)[k] \in Nat
  <2>1. Change(w, k) \in Int
    BY <1>1 DEF Change
  <2>2. QED
    BY <1>1, <2>1 DEF Gains, Losses, Gain
<1>5. Gains(w)[n + 1] = Gain(x - v[n]) /\ Losses(w)[n + 1] = Gain(v[n] - x)
  <2>1. v[n] \in Nat
    OBVIOUS
  <2>2. Change(w, n + 1) = x - v[n] /\ -(x - v[n]) = v[n] - x
    BY <1>1, <2>1 DEF Change
  <2>3. QED
    BY <1>1, <2>2 DEF Gains, Losses
<1>6. QED
  BY <1>2, <1>3, <1>4, <1>5, SMTT(40) DEF Prefix, w

\* What the RSI tracker holds after the n closes v.
RsiTells(t, v, n, p) ==
  IF n = 0 THEN t = NewRsi
  ELSE /\ t = [prevClose |-> v[n], gain |-> t.gain, loss |-> t.loss]
       /\ MeanTells(t.gain, Gains(v), n, p) /\ MeanTells(t.loss, Losses(v), n, p)

\* One more close.
LEMMA RsiStep ==
  ASSUME NEW t, NEW n \in Nat, NEW v \in Seq(Nat), Len(v) = n, NEW x \in Nat,
         NEW p \in Nat \ {0}, RsiTells(t, v, n, p)
  PROVE  RsiTells(RsiUpdate(t, x, p), Append(v, x), n + 1, p)
<1> DEFINE w == Append(v, x)
           u == RsiUpdate(t, x, p)
<1>1. w[n + 1] = x
  OBVIOUS
<1>2. CASE n = 0
  <2>1. t = NewRsi
    BY <1>2 DEF RsiTells
  <2>2. u = [prevClose |-> x, gain |-> NewMean, loss |-> NewMean]
    BY <2>1 DEF RsiUpdate, NewRsi
  <2> HIDE DEF u, w
  <2>3. /\ MeanTells(NewMean, Gains(w), 1, p) /\ MeanTells(NewMean, Losses(w), 1, p)
    BY MeanStart
  <2>4. QED
    BY <1>1, <1>2, <2>2, <2>3 DEF RsiTells, u, w
<1>3. CASE n # 0
  <2>1. /\ t = [prevClose |-> v[n], gain |-> t.gain, loss |-> t.loss]
        /\ MeanTells(t.gain, Gains(v), n, p) /\ MeanTells(t.loss, Losses(v), n, p)
    BY <1>3 DEF RsiTells
  <2>2. t.prevClose = v[n] /\ v[n] \in Nat
    BY <1>3, <2>1
  <2>3. u = [prevClose |-> x, gain |-> MeanUpdate(t.gain, Gain(x - v[n]), p),
             loss |-> MeanUpdate(t.loss, Gain(v[n] - x), p)]
    BY <2>2 DEF RsiUpdate, None
  <2> HIDE DEF u
  <2>4. /\ Prefix(Gains(v), n, Gains(w), n + 1) /\ Prefix(Losses(v), n, Losses(w), n + 1)
        /\ Gains(w)[n + 1] = Gain(x - v[n]) /\ Losses(w)[n + 1] = Gain(v[n] - x)
        /\ \A k \in 2..(n + 1) : Gains(w)[k] \in Nat /\ Losses(w)[k] \in Nat
    BY <1>3, GainsStep
  <2> HIDE DEF w
  <2>5. MeanTells(MeanUpdate(t.gain, Gains(w)[n + 1], p), Gains(w), n + 1, p)
    BY <1>3, <2>1, <2>4, MeanStep
  <2>6. MeanTells(MeanUpdate(t.loss, Losses(w)[n + 1], p), Losses(w), n + 1, p)
    BY <1>3, <2>1, <2>4, MeanStep
  <2>7. /\ u = [prevClose |-> x, gain |-> u.gain, loss |-> u.loss]
        /\ MeanTells(u.gain, Gains(w), n + 1, p) /\ MeanTells(u.loss, Losses(w), n + 1, p)
    BY <2>3, <2>4, <2>5, <2>6
  <2>8. QED
    BY <1>1, <2>7 DEF RsiTells, u, w
<1>4. QED
  BY <1>2, <1>3

\* The tracker's value is the series'.
LEMMA RsiIsSeries ==
  ASSUME NEW t, NEW n \in Nat \ {0}, NEW v, DOMAIN v = 1..n, NEW p \in Nat \ {0},
         RsiTells(t, v, n, p)
  PROVE  RsiOf(t) = Rsi(v, p)[n]
<1>1. MeanTells(t.gain, Gains(v), n, p) /\ MeanTells(t.loss, Losses(v), n, p)
  BY DEF RsiTells
<1>2. DOMAIN Gains(v) = 1..n /\ DOMAIN Losses(v) = 1..n
  BY DEF Gains, Losses
<1>3. /\ t.gain.value = Wilder(Gains(v), 2, p)[n]
      /\ t.loss.value = Wilder(Losses(v), 2, p)[n]
  BY <1>1, <1>2, MeanIsSmoothing
<1>4. Rsi(v, p) = [ i \in DOMAIN v |->
                      IF Wilder(Gains(v), 2, p)[i] = None THEN None
                      ELSE RsiValue(Wilder(Gains(v), 2, p)[i], Wilder(Losses(v), 2, p)[i]) ]
  BY DEF Rsi, Gains, Losses, Change
<1>5. QED
  BY <1>3, <1>4 DEF RsiOf

\* Candles as the assumption has them.
Prices == [high : Nat, low : Nat, close : Nat]

\* A true range is a natural number.
LEMMA TrueRangeNatural ==
  ASSUME NEW c \in Prices, NEW x \in Nat
  PROVE  TrueRange(c, x) \in Nat
<1> DEFINE a == c.high - c.low
           b == Abs(c.high - x)
           d == Abs(c.low - x)
<1>1. a \in Int /\ b \in Nat /\ d \in Nat
  BY DEF Abs, Prices
<1>2. TrueRange(c, x) = Max({a, b, d})
  BY DEF TrueRange
<1> HIDE DEF a, b, d
<1>3. \E m \in {a, b, d} : \A y \in {a, b, d} : m >= y
  BY <1>1
<1>4. Max({a, b, d}) \in {a, b, d} /\ Max({a, b, d}) >= b
  BY <1>3 DEF Max
<1>5. QED
  BY <1>1, <1>2, <1>4

\* True ranges are natural numbers from the second on, causal, and what the tracker
\* computes from a candle and the close before it.
LEMMA TrueRangesStep ==
  ASSUME NEW n \in Nat \ {0}, NEW v \in Seq(Prices), Len(v) = n, NEW c \in Prices
  PROVE  LET w == Append(v, c) IN
         /\ Prefix(TrueRanges(v), n, TrueRanges(w), n + 1)
         /\ TrueRanges(w)[n + 1] = TrueRange(c, v[n].close)
         /\ \A k \in 2..(n + 1) : TrueRanges(w)[k] \in Nat
<1> DEFINE w == Append(v, c)
<1>1. /\ w \in Seq(Prices) /\ DOMAIN w = 1..(n + 1) /\ w[n + 1] = c /\ w[n] = v[n]
      /\ DOMAIN v = 1..n /\ \A i \in 1..n : w[i] = v[i]
  OBVIOUS
<1> HIDE DEF w
<1>2. DOMAIN TrueRanges(v) = 1..n /\ DOMAIN TrueRanges(w) = 1..(n + 1)
  BY <1>1 DEF TrueRanges
<1>3. ASSUME NEW i \in 1..n PROVE TrueRanges(v)[i] = TrueRanges(w)[i]
  <2>1. i \in 1..(n + 1) /\ w[i] = v[i] /\ w[1] = v[1]
    BY <1>1
  <2>2. i # 1 => w[i - 1] = v[i - 1]
    BY <1>1
  <2>3. QED
    BY <1>1, <2>1, <2>2 DEF TrueRanges
<1>4. TrueRanges(w)[n + 1] = TrueRange(c, v[n].close)
  BY <1>1 DEF TrueRanges
<1>5. ASSUME NEW k \in 2..(n + 1) PROVE TrueRanges(w)[k] \in Nat
  <2>1. /\ k \in 1..(n + 1) /\ k - 1 \in 1..(n + 1) /\ k # 1
    OBVIOUS
  <2>2. w[k] \in Prices /\ w[k - 1] \in Prices
    BY <1>1, <2>1
  <2>3. w[k - 1].close \in Nat
    BY <2>2 DEF Prices
  <2>4. TrueRanges(w)[k] = TrueRange(w[k], w[k - 1].close)
    BY <1>1, <2>1 DEF TrueRanges
  <2>5. QED
    BY <2>2, <2>3, <2>4, TrueRangeNatural
<1>6. QED
  BY <1>2, <1>3, <1>4, <1>5 DEF Prefix, w

\* What the ATR tracker holds after the n candles v.
AtrTells(t, v, n, p) ==
  IF n = 0 THEN t = NewAtr
  ELSE /\ t = [prevClose |-> v[n].close, mean |-> t.mean]
       /\ MeanTells(t.mean, TrueRanges(v), n, p)

\* One more candle.
LEMMA AtrStep ==
  ASSUME NEW t, NEW n \in Nat, NEW v \in Seq(Prices), Len(v) = n, NEW c \in Prices,
         NEW p \in Nat \ {0}, AtrTells(t, v, n, p)
  PROVE  AtrTells(AtrUpdate(t, c, p), Append(v, c), n + 1, p)
<1> DEFINE w == Append(v, c)
           u == AtrUpdate(t, c, p)
<1>1. w[n + 1] = c
  BY AppendedPrefix
<1>2. CASE n = 0
  <2>1. t = NewAtr
    BY <1>2 DEF AtrTells
  <2>2. u = [prevClose |-> c.close, mean |-> NewMean]
    BY <2>1 DEF AtrUpdate, NewAtr
  <2> HIDE DEF u, w
  <2>3. MeanTells(NewMean, TrueRanges(w), 1, p)
    BY MeanStart
  <2>4. QED
    BY <1>1, <1>2, <2>2, <2>3 DEF AtrTells, u, w
<1>3. CASE n # 0
  <2>1. /\ t = [prevClose |-> v[n].close, mean |-> t.mean]
        /\ MeanTells(t.mean, TrueRanges(v), n, p)
    BY <1>3 DEF AtrTells
  <2>2. t.prevClose = v[n].close /\ v[n].close \in Nat
    <3>1. v[n] \in Prices
      BY <1>3
    <3>2. QED
      BY <2>1, <3>1 DEF Prices
  <2>3. u = [prevClose |-> c.close, mean |-> MeanUpdate(t.mean, TrueRange(c, v[n].close), p)]
    BY <2>2 DEF AtrUpdate, None
  <2> HIDE DEF u
  <2>4. /\ Prefix(TrueRanges(v), n, TrueRanges(w), n + 1)
        /\ TrueRanges(w)[n + 1] = TrueRange(c, v[n].close)
        /\ \A k \in 2..(n + 1) : TrueRanges(w)[k] \in Nat
    <3>1. n \in Nat \ {0}
      BY <1>3
    <3>2. QED
      BY <3>1, TrueRangesStep
  <2> HIDE DEF w
  <2>5. MeanTells(MeanUpdate(t.mean, TrueRanges(w)[n + 1], p), TrueRanges(w), n + 1, p)
    BY <1>3, <2>1, <2>4, MeanStep
  <2>6. u = [prevClose |-> c.close, mean |-> u.mean]
        /\ MeanTells(u.mean, TrueRanges(w), n + 1, p)
    BY <2>3, <2>4, <2>5
  <2>7. QED
    BY <1>1, <2>6 DEF AtrTells, u, w
<1>4. QED
  BY <1>2, <1>3

\* The invariant of the trackers.
Follow ==
  /\ eth \in Seq(Candles)
  /\ EmaTells(fast, Closes(eth), Len(eth), EmaFast)
  /\ EmaTells(slow, Closes(eth), Len(eth), EmaSlow)
  /\ RsiTells(rsi, Closes(eth), Len(eth), RsiPeriod)
  /\ AtrTells(atr, eth, Len(eth), AtrPeriod)

\* A candle's close is the next of the closes.
LEMMA ClosesAppend ==
  ASSUME NEW S, S \subseteq [high : Nat, low : Nat, close : Nat],
         NEW v \in Seq(S), NEW c \in S
  PROVE  /\ Closes(v) \in Seq(Nat) /\ Len(Closes(v)) = Len(v) /\ c.close \in Nat
         /\ Closes(Append(v, c)) = Append(Closes(v), c.close)
<1> DEFINE w == Append(v, c)
           n == Len(v)
<1>1. /\ w \in Seq(S) /\ Len(w) = n + 1 /\ w[n + 1] = c /\ n \in Nat
      /\ \A i \in 1..n : w[i] = v[i]
  OBVIOUS
<1>2. c.close \in Nat
  OBVIOUS
<1>3. Closes(v) \in Seq(Nat) /\ Len(Closes(v)) = n /\ \A i \in 1..n : Closes(v)[i] = v[i].close
  <2>1. \A i \in 1..n : v[i] \in S
    OBVIOUS
  <2>2. \A i \in 1..n : v[i].close \in Nat
    BY <2>1
  <2>3. QED
    BY SMTT(40), <1>1, <2>2 DEF Closes
<1> HIDE DEF w
<1>4. /\ Closes(w) \in Seq(Nat) /\ Len(Closes(w)) = n + 1
      /\ \A i \in 1..(n + 1) : Closes(w)[i] = w[i].close
  <2>1. \A i \in 1..(n + 1) : w[i] \in S
    BY <1>1
  <2>2. \A i \in 1..(n + 1) : w[i].close \in Nat
    BY <2>1
  <2>3. QED
    BY <1>1, <2>2 DEF Closes
<1>5. /\ Closes(w)[n + 1] = c.close /\ \A i \in 1..n : Closes(w)[i] = Closes(v)[i]
  BY <1>1, <1>3, <1>4
<1>6. Append(Closes(v), c.close) = Closes(w)
  <2> DEFINE before == Closes(v)
             after == Closes(w)
  <2>1. /\ before \in Seq(Nat) /\ Len(before) = n /\ after \in Seq(Nat)
        /\ Len(after) = Len(before) + 1 /\ after[Len(before) + 1] = c.close
        /\ \A i \in 1..Len(before) : after[i] = before[i]
    BY <1>3, <1>4, <1>5
  <2> HIDE DEF before, after
  <2>2. Append(before, c.close) = after
    BY <1>2, <2>1, AppendedEntries
  <2>3. QED
    BY <2>2 DEF before, after
<1>7. QED
  BY <1>2, <1>3, <1>6 DEF w

\* A candle keeps it.
LEMMA FollowStep == Follow /\ [StrategyNext]_strategyVars => Follow'
<1> SUFFICES ASSUME Follow, [StrategyNext]_strategyVars PROVE Follow'
  OBVIOUS
<1>1. CASE UNCHANGED strategyVars
  <2>1. UNCHANGED <<eth, fast, slow, rsi, atr>>
    BY <1>1 DEF strategyVars
  <2>2. QED
    BY <2>1 DEF Follow
<1>2. CASE StrategyNext
  <2>1. PICK candle \in Candles, close \in BtcCloses : OnCandle(candle, close)
    BY <1>2 DEF StrategyNext
  <2> DEFINE n == Len(eth)
             v == Closes(eth)
             x == candle.close
  <2>2. /\ eth' = Append(eth, candle)
        /\ fast' = EmaUpdate(fast, x, EmaFast) /\ slow' = EmaUpdate(slow, x, EmaSlow)
        /\ rsi' = RsiUpdate(rsi, x, RsiPeriod) /\ atr' = AtrUpdate(atr, candle, AtrPeriod)
    BY <2>1 DEF OnCandle
  <2>3. /\ eth \in Seq(Candles) /\ Candles \subseteq [high : Nat, low : Nat, close : Nat]
        /\ {EmaFast, EmaSlow, RsiPeriod, AtrPeriod} \subseteq Nat \ {0} /\ n \in Nat
    BY StrategiesAssumption DEF Follow
  <2>4. /\ v \in Seq(Nat) /\ Len(v) = n /\ x \in Nat
        /\ Closes(eth') = Append(v, x)
    BY <2>2, <2>3, ClosesAppend
  <2>5. eth' \in Seq(Candles) /\ Len(eth') = n + 1
    BY <2>2, <2>3
  <2> HIDE DEF v, x
  <2>6. EmaTells(fast', Append(v, x), n + 1, EmaFast)
    BY <2>2, <2>3, <2>4, EmaStep DEF Follow, v
  <2>7. EmaTells(slow', Append(v, x), n + 1, EmaSlow)
    BY <2>2, <2>3, <2>4, EmaStep DEF Follow, v
  <2>8. RsiTells(rsi', Append(v, x), n + 1, RsiPeriod)
    BY <2>2, <2>3, <2>4, RsiStep DEF Follow, v
  <2>9. AtrTells(atr', eth', n + 1, AtrPeriod)
    <3>0. Candles \subseteq Prices
      BY <2>3 DEF Prices
    <3>1. eth \in Seq(Prices) /\ candle \in Prices
      BY <2>3, <3>0
    <3>2. QED
      BY <2>2, <2>3, <3>1, AtrStep DEF Follow
  <2>10. QED
    BY <2>4, <2>5, <2>6, <2>7, <2>8, <2>9 DEF Follow
<1>3. QED
  BY <1>1, <1>2

\* What a tracker tells is what the series ends with.
LEMMA FollowIsSeries == Follow => TrackersAreSeries
<1> SUFFICES ASSUME Follow, eth # <<>>
             PROVE  LET n == Len(eth) IN
                    /\ fast.current = Ema(Closes(eth), EmaFast)[n]
                    /\ slow.current = Ema(Closes(eth), EmaSlow)[n]
                    /\ RsiOf(rsi) = Rsi(Closes(eth), RsiPeriod)[n]
                    /\ atr.mean.value = Atr(eth, AtrPeriod)[n]
  BY DEF TrackersAreSeries
<1> DEFINE n == Len(eth)
           v == Closes(eth)
<1>1. /\ n \in Nat \ {0} /\ DOMAIN v = 1..n /\ DOMAIN TrueRanges(eth) = 1..n
      /\ {EmaFast, EmaSlow, RsiPeriod, AtrPeriod} \subseteq Nat \ {0}
  BY StrategiesAssumption DEF Follow, Closes, TrueRanges
<1> HIDE DEF v
<1>2. ASSUME NEW t, NEW p \in Nat \ {0}, EmaTells(t, v, n, p)
      PROVE  t.current = Ema(v, p)[n]
  <2>1. IsEma(v, p, n, Ema(v, p))
    BY <1>1, EmaEquations
  <2>2. n < p => Ema(v, p)[n] = None
    BY <1>1, <2>1 DEF IsEma
  <2>3. QED
    BY <1>2, <2>2 DEF EmaTells
<1>3. fast.current = Ema(v, EmaFast)[n] /\ slow.current = Ema(v, EmaSlow)[n]
  BY <1>1, <1>2 DEF Follow, v
<1>4. RsiOf(rsi) = Rsi(v, RsiPeriod)[n]
  BY <1>1, RsiIsSeries DEF Follow, v
<1>5. atr.mean.value = Atr(eth, AtrPeriod)[n]
  <2>1. MeanTells(atr.mean, TrueRanges(eth), n, AtrPeriod)
    BY <1>1 DEF Follow, AtrTells
  <2>2. QED
    <3> DEFINE ranges == TrueRanges(eth)
    <3>1. DOMAIN ranges = 1..n /\ MeanTells(atr.mean, ranges, n, AtrPeriod)
      BY <1>1, <2>1
    <3> HIDE DEF ranges
    <3>2. atr.mean.value = Wilder(ranges, 2, AtrPeriod)[n]
      BY <1>1, <3>1, MeanIsSmoothing
    <3>3. QED
      BY <3>2 DEF Atr, ranges
<1>6. QED
  BY <1>3, <1>4, <1>5 DEF v

\* What runs candle by candle and what is computed over a whole data set are the same
\* EMA, RSI and ATR, after every candle of every data set and for every period.
THEOREM TrackersFollowSeries == StrategySpec => []TrackersAreSeries
<1>1. StrategyInit => Follow
  <2> SUFFICES ASSUME StrategyInit PROVE Follow
    OBVIOUS
  <2>1. /\ eth = <<>> /\ fast = NewEma /\ slow = NewEma /\ rsi = NewRsi /\ atr = NewAtr
    BY DEF StrategyInit
  <2>2. Closes(<<>>) = <<>> /\ Len(<<>>) = 0
    BY DEF Closes
  <2>3. \A p \in Nat \ {0} : EmaTells(NewEma, <<>>, 0, p)
    BY DEF EmaTells, NewEma
  <2>4. EmaFast \in Nat \ {0} /\ EmaSlow \in Nat \ {0}
    BY StrategiesAssumption
  <2>5. QED
    BY <2>1, <2>2, <2>3, <2>4 DEF Follow, RsiTells, AtrTells
<1>2. QED
  BY <1>1, FollowIsSeries, FollowStep, PTL DEF StrategySpec
=============================================================================
