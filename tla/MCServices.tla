------------------------------- MODULE MCServices -------------------------------
(***************************************************************************)
(* The tools around the paper session for TLC.  They share no state, so    *)
(* each is explored on its own: "tool" is chosen in the first state, and   *)
(* the others rest.                                                        *)
(***************************************************************************)
EXTENDS Lab, Promotion, Gold, Strategies, Agent, Orders
VARIABLE tool
CONSTANTS atAnchor, otherDay, otherKernel  \* commits

MCSource(k, c) == 1
MCKernel(c) == IF c = otherKernel THEN 2 ELSE 1
MCOutside(c) == IF c = otherDay THEN 2 ELSE 1
Economy(n, e, f, d) ==
  [net |-> n, expectancy |-> e, factor |-> f, drawdown |-> d]
MCMetrics == { Economy(-1, -1, 1, 3), Economy(1, 1, 3, 0),
               Economy(3, 3, Infinite, 0), Economy(0, Undefined, Undefined, 0) }

\* The baseline loses; a commit may change the day's borders, which changes the trace
\* and keeps the metrics, or the kernel, which changes both.
MCBaselineMetrics(c) ==
  IF c = otherKernel THEN Economy(1, 1, 3, 0) ELSE Economy(-1, -1, 1, 3)

\* A falling candle, a rising one, and a wide one; two closes of BTC.
Candle(h, l, c) == [high |-> h, low |-> l, close |-> c]
MCCandles == { Candle(110, 100, 100), Candle(220, 190, 200), Candle(190, 20, 180) }
MCBtcCloses == {100, 300}
MCVolatilityRatio(s) ==
  IF Len(s) > 2 /\ Abs(Last(s).close - s[Len(s) - 2].close) > 70 THEN "high" ELSE "neutral"

Trade1 == [entry_ts |-> 0, exit_ts |-> 1]
Trade2 == [entry_ts |-> 1, exit_ts |-> 2]
MCClosedTrades == {Trade1, Trade2}

servicesVars ==
  <<tool, labVars, promotionVars, goldVars, strategyVars, agentVars, orderVars>>
Init ==
  /\ LabInit /\ PromotionInit /\ GoldInit /\ StrategyInit /\ AgentInit /\ OrdersInit
  /\ tool \in {"lab", "promotion", "gold", "strategies", "agent", "orders"}
  /\ tool # "lab" => script = Script20B
Next ==
  /\ UNCHANGED tool
  /\ \/ /\ tool = "lab" /\ LabNext
        /\ UNCHANGED <<promotionVars, goldVars, strategyVars, agentVars, orderVars>>
     \/ /\ tool = "promotion" /\ PromotionNext
        /\ UNCHANGED <<labVars, goldVars, strategyVars, agentVars, orderVars>>
     \/ /\ tool = "gold" /\ GoldNext
        /\ UNCHANGED <<labVars, promotionVars, strategyVars, agentVars, orderVars>>
     \/ /\ tool = "strategies" /\ StrategyNext
        /\ UNCHANGED <<labVars, promotionVars, goldVars, agentVars, orderVars>>
     \/ /\ tool = "agent" /\ AgentNext
        /\ UNCHANGED <<labVars, promotionVars, goldVars, strategyVars, orderVars>>
     \/ /\ tool = "orders" /\ OrdersNext
        /\ UNCHANGED <<labVars, promotionVars, goldVars, strategyVars, agentVars>>
Spec == Init /\ [][Next]_servicesVars
=============================================================================
