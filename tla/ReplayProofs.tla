----------------------------- MODULE ReplayProofs -----------------------------
(***************************************************************************)
(* Theorems about Replay for every value of its constants: any prices,     *)
(* ATRs and gaps between trades, any length of candles, and, where it is   *)
(* not said otherwise, both sizing modes.                                  *)
(***************************************************************************)
EXTENDS Replay, TLAPS

-----------------------------------------------------------------------------
(* Arithmetic.                                                             *)

\* The quotient of a division by a positive number rounds down.
LEMMA Quotient ==
  ASSUME NEW a \in Int, NEW b \in Int, b > 0
  PROVE  /\ a \div b \in Int
         /\ b * (a \div b) <= a /\ a < b * (a \div b) + b
         /\ a >= 0 => a \div b >= 0
  OBVIOUS

\* Products keep their sign.
LEMMA Product ==
  ASSUME NEW a \in Int, NEW b \in Int
  PROVE  /\ a * b \in Int
         /\ a > 0 /\ b > 0 => a * b > 0
         /\ a >= 0 /\ b >= 0 => a * b >= 0
  OBVIOUS

\* Multiplication by a non-negative integer keeps the order.
LEMMA Monotone ==
  ASSUME NEW a \in Int, NEW b \in Int, NEW c \in Int, a <= b, c >= 0
  PROVE  a * c <= b * c
  OBVIOUS

\* The constants, one by one.
LEMMA Constants ==
  /\ Capital \in Int /\ Capital > 0
  /\ SlipDen \in Int /\ SlipDen > 0 /\ SlipNum \in Int /\ SlipNum >= 0
  /\ SlipDen - SlipNum > 0
  /\ FeeDen \in Int /\ FeeDen > 0 /\ FeeNum \in Int /\ FeeNum >= 0
  /\ FeeDen - FeeNum > 0
  /\ CandleLength \in Int /\ CandleLength > 0
  /\ DayLength \in Int /\ DayLength > 0
  /\ DrawdownPm \in Int /\ DrawdownPm > 0 /\ DrawdownPm <= 1000
  /\ AllocPm \in Nat /\ LeveragePm \in Nat /\ LeveragePm <= 1000
  /\ DailyLossPm \in Nat /\ FixedLots \in Nat /\ FixedLots > 0
  /\ StopAtr \in Nat /\ StopAtr > 0 /\ TargetR \in Nat /\ TrailAtr \in Nat
  /\ \A p \in Prices : p \in Nat /\ p > 0
  /\ \A a \in Atrs : a \in Nat
  /\ \A g \in Gaps : g \in Nat
  /\ BudgetPm[ScenarioIntensity] \in Nat
  BY ReplayAssumption DEF ReplayAssumption

-----------------------------------------------------------------------------
(* Types.                                                                  *)

Protection == {"stop_loss", "take_profit", "trailing_stop"}
Decision == [action : {"buy", "sell"}, signal : Nat, reference : Prices, atr : Atrs]
Held == [quantity : Int, signal : Nat, fill : Nat, index : Nat, entry : Prices,
         atr : Atrs, stop : Int, target : Int, trailing : Int, highest : Int]
Exit == [reason : Protection, trigger : Nat, index : Nat]

\* What is absent is none of these records.
LEMMA NoneIsApart == None \notin Decision /\ None \notin Held /\ None \notin Exit
<1>1. \A d \in Decision : "action" \in DOMAIN d
  BY DEF Decision
<1>2. \A d \in Held : "signal" \in DOMAIN d
  BY DEF Held
<1>3. \A d \in Exit : "reason" \in DOMAIN d
  BY DEF Exit
<1>4. DOMAIN None = {"none"}
  BY DEF None
<1>5. QED
  BY <1>1, <1>2, <1>3, <1>4

Types ==
  /\ dynamic \in BOOLEAN
  /\ phase \in {"next", "advance", "exit", "drain", "risk", "over", "done"}
  /\ trade \in [ts : Nat, price : Nat, index : Nat] /\ before \in Nat
  /\ candle \in [open : Nat, close : Prices] \cup {None}
  /\ queue \in Seq(Decision)
  /\ position \in Held \cup {None} /\ pending \in Exit \cup {None}

-----------------------------------------------------------------------------
(* The inductive invariant.                                                *)

\* The tape: the candle it is in has not closed.
OnTape ==
  /\ before <= trade.ts
  /\ trade.index > 0 => trade.price \in Prices
  /\ phase \in {"advance", "exit", "drain", "risk", "over"} \/ candle # None => trade.index > 0
  /\ candle # None =>
       candle.open + CandleLength > (IF phase = "advance" THEN before ELSE trade.ts)

\* At most one decision waits, taken between the last two trades.
DecisionsFresh ==
  /\ Len(queue) <= 1
  /\ phase \in {"next", "advance", "risk", "done"} => queue = <<>>
  /\ phase \in {"exit", "drain"} /\ queue # <<>> =>
       before < queue[1].signal /\ queue[1].signal <= trade.ts

\* A position that meets a decision or a pending exit is of an earlier trade.
PositionsOlder ==
  position # None =>
    /\ position.signal <= position.fill /\ position.fill <= trade.ts
    /\ position.index <= trade.index
    /\ position.index = trade.index => position.fill = trade.ts
    /\ phase \in {"advance", "exit"} \/ (phase = "drain" /\ queue # <<>>) =>
         position.index < trade.index /\ position.fill <= before

\* A pending exit is of the position held, triggered by the trade before.
PendingsNext ==
  /\ pending # None =>
       /\ position # None
       /\ position.fill <= pending.trigger /\ pending.trigger <= trade.ts
       /\ position.index < pending.index
       /\ pending.index = IF phase \in {"advance", "exit"} THEN trade.index - 1
                          ELSE trade.index
  /\ phase \in {"drain", "risk"} => pending = None
  /\ phase = "done" => position = None

ReplayInv ==
  /\ Types /\ OnTape /\ DecisionsFresh /\ PositionsOlder /\ PendingsNext
  /\ RoundTripOrdered /\ FirstTriggerWins

\* The parts of the invariant that a step leaves alone.
LEMMA TradeStays ==
  ASSUME ReplayInv, UNCHANGED <<dynamic, tape>>, phase # "advance", phase' # "advance",
         phase' \in {"exit", "drain", "risk", "over"} => trade.index > 0
  PROVE  OnTape'
<1>1. OnTape
  BY DEF ReplayInv
<1>2. trade' = trade /\ before' = before /\ candle' = candle
  BY DEF tape
<1>3. QED
  BY <1>1, <1>2 DEF OnTape

\* A new trade print arrives.
LEMMA NextTradeInv ==
  ASSUME ReplayInv, NEW gap \in Gaps, NEW p \in Prices, NextTrade(gap, p)
  PROVE  ReplayInv'
<1> USE Constants
<1>1. /\ Types /\ OnTape /\ DecisionsFresh /\ PositionsOlder /\ PendingsNext
      /\ RoundTripOrdered
  BY DEF ReplayInv
<1>2. /\ phase = "next" /\ phase' = "advance" /\ before' = trade.ts
      /\ trade'.ts = trade.ts + gap /\ trade'.price = p /\ trade'.index = trade.index + 1
      /\ trade' = [ts |-> trade.ts + gap, price |-> p, index |-> trade.index + 1]
      /\ UNCHANGED <<dynamic, candle, queue, position, pending, record>>
  BY DEF NextTrade
<1>3. /\ trade.ts \in Nat /\ trade.index \in Nat /\ gap \in Nat /\ p \in Nat
      /\ trade.ts + gap \in Nat /\ trade.index + 1 \in Nat /\ trade.ts <= trade.ts + gap
  BY <1>1 DEF Types
<1>4. Types'
  BY <1>1, <1>2, <1>3 DEF Types
<1>5. OnTape'
  BY <1>1, <1>2, <1>3 DEF OnTape
<1>6. DecisionsFresh'
  BY <1>1, <1>2 DEF DecisionsFresh
<1>7. PositionsOlder'
  <2>1. ASSUME position # None
        PROVE  /\ position.fill \in Nat /\ position.index \in Nat /\ position.signal \in Nat
               /\ position.fill <= trade.ts /\ position.index <= trade.index
               /\ position.signal <= position.fill
    BY <1>1, <2>1 DEF Types, Held, PositionsOlder
  <2>2. QED
    BY <1>2, <1>3, <2>1 DEF PositionsOlder
<1>8. PendingsNext'
  <2>1. ASSUME pending # None
        PROVE  /\ pending.trigger \in Nat /\ pending.index \in Nat
               /\ position # None /\ position.fill <= pending.trigger
               /\ pending.trigger <= trade.ts
               /\ position.index < pending.index /\ pending.index = trade.index
    BY <1>1, <1>2, <2>1 DEF Types, Exit, PendingsNext
  <2>2. QED
    BY <1>2, <1>3, <2>1 DEF PendingsNext
<1>9. RoundTripOrdered' /\ FirstTriggerWins'
  BY <1>1, <1>2 DEF RoundTripOrdered, FirstTriggerWins
<1>10. QED
  BY <1>4, <1>5, <1>6, <1>7, <1>8, <1>9 DEF ReplayInv

\* A new decision is about a candle that closed after the trade before.
LEMMA Deciding ==
  ASSUME Types, OnTape, candle # None, queue = <<>>,
         NEW d \in DecisionsOn(candle), Decide(d)
  PROVE  /\ queue' \in Seq(Decision) /\ Len(queue') <= 1
         /\ queue' # <<>> => queue'[1].signal = candle.open + CandleLength
<1>1. /\ candle.open \in Nat /\ candle.close \in Prices
      /\ candle.open + CandleLength \in Nat
  BY Constants DEF Types
<1>2. CASE d = None
  BY <1>2 DEF Decide
<1>3. CASE d # None
  <2>1. d \in Decision /\ d.signal = candle.open + CandleLength
    BY <1>1, <1>3 DEF DecisionsOn, Decision, Closes
  <2>2. queue' = Append(<<>>, d)
    BY <1>3 DEF Decide
  <2>3. queue' = <<d>>
    BY <2>1, <2>2
  <2>4. QED
    BY <2>1, <2>3
<1>4. QED
  BY <1>2, <1>3

\* The candle's ATR is taken over by the position, and nothing else of it changes.
LEMMA Following ==
  ASSUME Types, NEW a \in Atrs, FollowAtr(a)
  PROVE  /\ position' \in Held \cup {None}
         /\ position' = None <=> position = None
         /\ position # None =>
              /\ position'.quantity = position.quantity /\ position'.entry = position.entry
              /\ position'.signal = position.signal /\ position'.fill = position.fill
              /\ position'.index = position.index
              /\ position'.stop = position.stop /\ position'.target = position.target
<1>1. CASE dynamic /\ position # None /\ a # 0
  <2>1. position \in Held /\ position' = [position EXCEPT !.atr = a]
    BY <1>1 DEF Types, FollowAtr
  <2>2. position' \in Held
    BY <2>1 DEF Held
  <2>3. /\ position'.quantity = position.quantity /\ position'.entry = position.entry
        /\ position'.signal = position.signal /\ position'.fill = position.fill
        /\ position'.index = position.index
        /\ position'.stop = position.stop /\ position'.target = position.target
    BY <2>1 DEF Held
  <2>4. QED
    BY <1>1, <2>2, <2>3, NoneIsApart
<1>2. CASE ~(dynamic /\ position # None /\ a # 0)
  BY <1>2 DEF Types, FollowAtr
<1>3. QED
  BY <1>1, <1>2

\* A candle that closed is confirmed and decided on.
LEMMA AdvanceInv ==
  ASSUME ReplayInv, Advance
  PROVE  ReplayInv'
<1> USE Constants DEF tape
<1>1. /\ Types /\ OnTape /\ DecisionsFresh /\ PositionsOlder /\ PendingsNext
      /\ RoundTripOrdered
  BY DEF ReplayInv
<1>2. /\ phase = "advance" /\ phase' = "exit" /\ queue = <<>>
      /\ candle' = CandleOf(trade.ts, trade.price)
      /\ UNCHANGED <<dynamic, trade, before, pending, record>>
  BY <1>1 DEF Advance, DecisionsFresh
<1>3. /\ trade.ts \in Nat /\ trade.index \in Nat /\ trade.index > 0
      /\ trade.price \in Prices /\ before \in Nat /\ before <= trade.ts
  BY <1>1, <1>2 DEF Types, OnTape
<1>4. /\ queue' \in Seq(Decision) /\ Len(queue') <= 1
      /\ queue' # <<>> => before < queue'[1].signal /\ queue'[1].signal <= trade.ts
      /\ position' \in Held \cup {None}
      /\ position' = None <=> position = None
      /\ position # None =>
           /\ position'.signal = position.signal /\ position'.fill = position.fill
           /\ position'.index = position.index
  <2>1. CASE Confirmed(trade.ts)
    <3>1. PICK d \in DecisionsOn(candle), a \in Atrs : Decide(d) /\ FollowAtr(a)
      BY <2>1 DEF Advance
    <3>2. /\ candle # None /\ candle.open + CandleLength <= trade.ts
          /\ before < candle.open + CandleLength
          /\ candle.open \in Nat
      BY <1>1, <1>2, <2>1 DEF Confirmed, Closes, OnTape, Types
    <3>3. /\ queue' \in Seq(Decision) /\ Len(queue') <= 1
          /\ queue' # <<>> => queue'[1].signal = candle.open + CandleLength
      BY <1>1, <1>2, <3>1, <3>2, Deciding
    <3>4. /\ position' \in Held \cup {None}
          /\ position' = None <=> position = None
          /\ position # None =>
               /\ position'.signal = position.signal /\ position'.fill = position.fill
               /\ position'.index = position.index
      BY <1>1, <3>1, Following
    <3>5. QED
      BY <1>3, <3>2, <3>3, <3>4
  <2>2. CASE ~Confirmed(trade.ts)
    <3>1. queue' = queue /\ position' = position
      BY <2>2 DEF Advance
    <3>2. QED
      BY <1>1, <1>2, <3>1 DEF Types
  <2>3. QED
    BY <2>1, <2>2
<1>5. /\ candle' \in [open : Nat, close : Prices]
      /\ candle'.open + CandleLength > trade.ts
  <2>1. /\ trade.ts \div CandleLength \in Nat
        /\ trade.ts < CandleLength * (trade.ts \div CandleLength) + CandleLength
    BY <1>3, Quotient
  <2>2. (trade.ts \div CandleLength) * CandleLength \in Nat
    BY <2>1, Product
  <2>3. QED
    BY <1>2, <1>3, <2>1, <2>2 DEF CandleOf
<1>6. Types'
  BY <1>1, <1>2, <1>4, <1>5 DEF Types
<1>7. OnTape'
  BY <1>2, <1>3, <1>5 DEF OnTape
<1>8. DecisionsFresh'
  BY <1>2, <1>4 DEF DecisionsFresh
<1>9. PositionsOlder'
  BY <1>1, <1>2, <1>4 DEF PositionsOlder
<1>10. PendingsNext'
  BY <1>1, <1>2, <1>4 DEF PendingsNext
<1>11. RoundTripOrdered' /\ FirstTriggerWins'
  BY <1>1, <1>2 DEF RoundTripOrdered, FirstTriggerWins
<1>12. QED
  BY <1>6, <1>7, <1>8, <1>9, <1>10, <1>11 DEF ReplayInv

\* What a finished round trip leaves: no position, no pending exit and a record
\* whose times and indices are those of the position and of its exit.
LEMMA Finishing ==
  ASSUME NEW exit, NEW t, NEW i, NEW p, Finish(exit, t, i, p)
  PROVE  /\ position' = None /\ pending' = None
         /\ record'.signal = position.signal /\ record'.entryFill = position.fill
         /\ record'.entryIndex = position.index
         /\ record'.exitTrigger = exit.trigger /\ record'.triggerIndex = exit.index
         /\ record'.exitFill = t /\ record'.exitIndex = i
         /\ record'.reason = exit.reason
BY DEF Finish, RecordOf

\* Steps after which nothing is held.
LEMMA FinishInv ==
  ASSUME ReplayInv, position # None, position' = None, pending' = None,
         UNCHANGED <<dynamic, tape>>, Types', OnTape', DecisionsFresh', RoundTripOrdered'
  PROVE  ReplayInv'
BY DEF ReplayInv, PositionsOlder, PendingsNext, FirstTriggerWins

\* An exit that an earlier trade triggered is filled at this one.
LEMMA FillPendingExitInv ==
  ASSUME ReplayInv, FillPendingExit
  PROVE  ReplayInv'
<1> USE Constants
<1>1. /\ Types /\ OnTape /\ DecisionsFresh /\ PositionsOlder /\ PendingsNext
      /\ RoundTripOrdered
  BY DEF ReplayInv
<1>2. /\ phase = "exit" /\ phase' = "drain" /\ trade.index > 0
      /\ UNCHANGED <<dynamic, tape, queue>>
      /\ trade' = trade /\ before' = before /\ candle' = candle
  BY <1>1 DEF FillPendingExit, OnTape, tape
<1>3. OnTape'
  BY <1>2, TradeStays
<1>4. DecisionsFresh'
  BY <1>1, <1>2 DEF DecisionsFresh
<1>5. CASE pending # None
  <2>1. Finish(pending, trade.ts, trade.index, trade.price)
    BY <1>5 DEF FillPendingExit
  <2>2. /\ position # None /\ position \in Held /\ pending \in Exit
        /\ position.signal <= position.fill
        /\ position.fill <= pending.trigger /\ pending.trigger <= trade.ts
        /\ position.index < trade.index
        /\ pending.index = trade.index - 1 /\ pending.index \in Int /\ trade.index \in Int
    BY <1>1, <1>2, <1>5 DEF Types, Exit, Held, PositionsOlder, PendingsNext
  <2>3. RoundTripOrdered'
    BY <1>2, <2>1, <2>2, Finishing DEF RoundTripOrdered
  <2>4. position' = None /\ pending' = None
    BY <2>1, Finishing
  <2>5. Types'
    BY <1>1, <1>2, <2>4 DEF Types
  <2>6. QED
    BY <1>2, <1>3, <1>4, <2>2, <2>3, <2>4, <2>5, FinishInv
<1>6. CASE pending = None
  <2>1. UNCHANGED <<position, pending, record>>
    BY <1>6 DEF FillPendingExit
  <2>2. Types'
    BY <1>1, <1>2, <2>1 DEF Types
  <2>3. PositionsOlder' /\ PendingsNext'
    BY <1>1, <1>2, <1>6, <2>1 DEF PositionsOlder, PendingsNext
  <2>4. RoundTripOrdered' /\ FirstTriggerWins'
    BY <1>1, <1>2, <2>1 DEF RoundTripOrdered, FirstTriggerWins
  <2>5. QED
    BY <1>3, <1>4, <2>2, <2>3, <2>4 DEF ReplayInv
<1>7. QED
  BY <1>5, <1>6

\* The first element of a sequence, and the rest.
LEMMA TailOf ==
  ASSUME NEW S, NEW s \in Seq(S), s # <<>>
  PROVE  /\ Len(s) \in Nat /\ Len(s) >= 1 /\ Head(s) \in S /\ Head(s) = s[1]
         /\ Tail(s) \in Seq(S) /\ Len(Tail(s)) = Len(s) - 1
OBVIOUS

\* With at most one decision waiting, taking it leaves none.
LEMMA Taking ==
  ASSUME Types, DecisionsFresh, queue # <<>>, queue' = Tail(queue)
  PROVE  /\ queue' = <<>> /\ queue' \in Seq(Decision)
         /\ Head(queue) \in Decision /\ Head(queue) = queue[1]
<1>1. queue \in Seq(Decision) /\ Len(queue) <= 1
  BY DEF Types, DecisionsFresh
<1>2. /\ Len(queue) \in Nat /\ Len(queue) >= 1
      /\ Head(queue) \in Decision /\ Head(queue) = queue[1]
      /\ queue' \in Seq(Decision) /\ Len(queue') = Len(queue) - 1
  BY <1>1, TailOf
<1>3. Len(queue') = 0
  BY <1>1, <1>2
<1>4. QED
  BY <1>2, <1>3

\* A decision that leads to no trade.
LEMMA DecidedInv ==
  ASSUME ReplayInv, DropBuy \/ RejectBuy \/ DropSell
  PROVE  ReplayInv'
<1> USE Constants
<1>1. /\ Types /\ OnTape /\ DecisionsFresh /\ PositionsOlder /\ PendingsNext
      /\ RoundTripOrdered
  BY DEF ReplayInv
<1>2. /\ phase = "drain" /\ phase' = phase /\ trade.index > 0
      /\ queue # <<>> /\ queue' = Tail(queue)
      /\ UNCHANGED <<dynamic, tape, position, pending, record>>
      /\ trade' = trade /\ before' = before /\ candle' = candle
  BY <1>1 DEF DropBuy, RejectBuy, DropSell, Eligible, Draining, OnTape, tape
<1>3. OnTape'
  BY <1>2, TradeStays
<1>4. queue' = <<>> /\ queue' \in Seq(Decision)
  BY <1>1, <1>2, Taking
<1>5. Types' /\ DecisionsFresh'
  BY <1>1, <1>2, <1>4 DEF Types, DecisionsFresh
<1>6. PositionsOlder' /\ PendingsNext'
  BY <1>1, <1>2, <1>4 DEF PositionsOlder, PendingsNext
<1>7. RoundTripOrdered' /\ FirstTriggerWins'
  BY <1>1, <1>2 DEF RoundTripOrdered, FirstTriggerWins
<1>8. QED
  BY <1>3, <1>5, <1>6, <1>7 DEF ReplayInv

\* A SELL of the strategy closes the position at once.
LEMMA StrategyExitInv ==
  ASSUME ReplayInv, StrategyExit
  PROVE  ReplayInv'
<1> USE Constants
<1>1. /\ Types /\ OnTape /\ DecisionsFresh /\ PositionsOlder
  BY DEF ReplayInv
<1> DEFINE exit == [reason |-> "strategy_exit", trigger |-> Head(queue).signal, index |-> 0]
<1>2. /\ phase = "drain" /\ phase' = phase /\ trade.index > 0
      /\ queue # <<>> /\ queue' = Tail(queue) /\ position # None
      /\ Finish(exit, trade.ts, trade.index, trade.price)
      /\ UNCHANGED <<dynamic, tape>>
      /\ trade' = trade /\ before' = before /\ candle' = candle
  BY <1>1 DEF StrategyExit, Draining, OnTape, tape
<1>3. OnTape'
  BY <1>2, TradeStays
<1>4. /\ queue' = <<>> /\ queue' \in Seq(Decision)
      /\ Head(queue) \in Decision /\ Head(queue) = queue[1]
  BY <1>1, <1>2, Taking
<1>5. /\ position \in Held
      /\ position.signal <= position.fill /\ position.fill <= before
      /\ before < Head(queue).signal /\ Head(queue).signal <= trade.ts
      /\ position.index < trade.index
  BY <1>1, <1>2, <1>4 DEF Types, PositionsOlder, DecisionsFresh
<1>6. /\ position.fill \in Int /\ position.signal \in Int /\ before \in Int
      /\ Head(queue).signal \in Int /\ position.index \in Int /\ trade.index \in Int
  <2>1. Head(queue).signal \in Nat
    BY <1>4 DEF Decision
  <2>2. position.fill \in Nat /\ position.signal \in Nat /\ position.index \in Nat
    BY <1>5 DEF Held
  <2>3. before \in Nat /\ trade.index \in Nat
    BY <1>1 DEF Types
  <2>4. QED
    BY <2>1, <2>2, <2>3
<1>7. /\ position' = None /\ pending' = None
      /\ record'.signal = position.signal /\ record'.entryFill = position.fill
      /\ record'.entryIndex = position.index
      /\ record'.exitTrigger = Head(queue).signal
      /\ record'.exitFill = trade.ts /\ record'.exitIndex = trade.index
      /\ record'.reason = "strategy_exit"
  BY <1>2, Finishing
<1>8. RoundTripOrdered'
  BY <1>5, <1>6, <1>7 DEF RoundTripOrdered
<1>9. Types' /\ DecisionsFresh'
  BY <1>1, <1>2, <1>4, <1>7 DEF Types, DecisionsFresh
<1>10. QED
  BY <1>2, <1>3, <1>7, <1>8, <1>9, FinishInv

\* The size, the levels and the times of a new position are of their types.
LEMMA Opening ==
  ASSUME Types, NEW d \in Decision, trade.index > 0, trade.price \in Prices, d.atr # 0,
         dynamic => Lots(d) \in Int
  PROVE  /\ Opened(d) \in Held
         /\ Opened(d).signal = d.signal /\ Opened(d).fill = trade.ts
         /\ Opened(d).index = trade.index
         /\ Opened(d).quantity = (IF dynamic THEN Lots(d) ELSE FixedLots)
         /\ Opened(d).entry = trade.price
<1> USE Constants
<1> DEFINE around == IF dynamic THEN d.reference * SlipDen ELSE BuyPrice(trade.price)
           stop == StopLevel(around, d.atr)
           target == TargetLevel(around, stop)
           q == IF dynamic THEN Lots(d) ELSE FixedLots
<1>1. d.reference \in Nat /\ d.atr \in Nat /\ d.atr \in Atrs /\ d.signal \in Nat
  BY DEF Decision
<1>2. BuyPrice(trade.price) \in Int
  <2>1. trade.price \in Int /\ SlipDen + SlipNum \in Int
    OBVIOUS
  <2>2. QED
    BY <2>1, Product DEF BuyPrice
<1>3. around \in Int
  BY <1>1, <1>2, Product
<1>4. stop \in Int
  <2>1. StopAtr * d.atr \in Int
    BY <1>1, Product
  <2>2. StopAtr * d.atr * SlipDen \in Int
    BY <2>1, Product
  <2> HIDE DEF around
  <2>3. QED
    BY <1>3, <2>2 DEF StopLevel
<1>5. target \in Int
  <2> HIDE DEF around, stop
  <2>1. TargetR * (around - stop) \in Int
    BY <1>3, <1>4, Product, around - stop \in Int
  <2>2. QED
    BY <1>3, <2>1 DEF TargetLevel
<1>6. q \in Int
  OBVIOUS
<1>7. trade.ts \in Nat /\ trade.index \in Nat
  BY DEF Types
<1>8. Opened(d) = [quantity |-> q, signal |-> d.signal, fill |-> trade.ts,
                   index |-> trade.index, entry |-> trade.price, atr |-> d.atr,
                   stop |-> stop, target |-> target, trailing |-> stop,
                   highest |-> BuyPrice(trade.price)]
  BY DEF Opened
<1> HIDE DEF q, stop, target, around
<1>9. QED
  BY <1>1, <1>2, <1>4, <1>5, <1>6, <1>7, <1>8 DEF Held, q

\* The lots the verdict on an entry is about.
LEMMA LotsAreNumbers ==
  ASSUME Types, NEW d \in Decision, d.atr # 0, peakEquity \in Int, peakEquity > 0,
         realizedTotal \in Int
  PROVE  Lots(d) \in Int
<1> USE Constants
<1>1. d.reference \in Nat /\ d.reference > 0 /\ d.atr \in Nat /\ d.atr > 0
  BY DEF Decision
<1>2. AllocatedLots(d.reference) \in Int
  <2>1. MaxNotional \in Int
    BY Product DEF MaxNotional, Smaller
  <2>2. 1000 * d.reference \in Int /\ 1000 * d.reference > 0
    BY <1>1
  <2>3. QED
    BY <2>1, <2>2, Quotient DEF AllocatedLots
<1>3. ReplayEquity \in Int
  BY Product DEF ReplayEquity, InitialCash, Money
<1>4. DrawdownScale(peakEquity, ReplayEquity) \in Int
  <2>1. DrawdownPm * peakEquity \in Int /\ DrawdownPm * peakEquity > 0
    BY Product
  <2>2. 100 * (DrawdownPm * peakEquity - 1000 * (peakEquity - ReplayEquity)) \in Int
    BY <1>3, <2>1
  <2>3. QED
    BY <2>1, <2>2, Quotient DEF DrawdownScale
<1>5. Capital * BudgetPm[ScenarioIntensity] * DrawdownScale(peakEquity, ReplayEquity) \in Int
  BY <1>4, Product
<1>6. 100000 * StopAtr * d.atr \in Int /\ 100000 * StopAtr * d.atr > 0
  <2>1. StopAtr * d.atr \in Int /\ StopAtr * d.atr > 0
    BY <1>1, Product
  <2>2. QED
    BY <2>1, <1>1
<1>7. QED
  BY <1>2, <1>5, <1>6, Quotient DEF Lots, PositionSize, Smaller

\* A BUY opens a position where there is none.
LEMMA OpenPositionInv ==
  ASSUME ReplayInv, OpenPosition, dynamic => Lots(Head(queue)) \in Int
  PROVE  ReplayInv'
<1> USE Constants
<1> DEFINE d == Head(queue)
<1>1. /\ Types /\ OnTape /\ DecisionsFresh /\ PositionsOlder /\ PendingsNext
      /\ RoundTripOrdered
  BY DEF ReplayInv
<1>2. /\ phase = "drain" /\ phase' = phase /\ trade.index > 0 /\ trade.price \in Prices
      /\ queue # <<>> /\ queue' = Tail(queue) /\ position = None /\ pending = None
      /\ position' = Opened(d) /\ d.atr # 0
      /\ UNCHANGED <<dynamic, tape, pending, record>>
      /\ trade' = trade /\ before' = before /\ candle' = candle
  BY <1>1 DEF OpenPosition, Eligible, Draining, OnTape, PendingsNext, tape
<1>3. OnTape'
  BY <1>2, TradeStays
<1>4. queue' = <<>> /\ queue' \in Seq(Decision) /\ d \in Decision /\ d = queue[1]
  BY <1>1, <1>2, Taking
<1>5. /\ position' \in Held /\ position'.signal = d.signal
      /\ position'.fill = trade.ts /\ position'.index = trade.index
  BY <1>1, <1>2, <1>4, Opening
<1>6. Types' /\ DecisionsFresh'
  BY <1>1, <1>2, <1>4, <1>5 DEF Types, DecisionsFresh
<1>7. d.signal <= trade.ts /\ trade.ts \in Nat /\ trade.index \in Nat
  BY <1>1, <1>2, <1>4 DEF DecisionsFresh, Types
<1> HIDE DEF d
<1>8. PositionsOlder'
  BY <1>2, <1>4, <1>5, <1>7 DEF PositionsOlder
<1>9. PendingsNext'
  BY <1>1, <1>2 DEF PendingsNext
<1>10. RoundTripOrdered' /\ FirstTriggerWins'
  BY <1>1, <1>2 DEF RoundTripOrdered, FirstTriggerWins
<1>11. QED
  BY <1>3, <1>6, <1>8, <1>9, <1>10 DEF ReplayInv

\* The decisions that are due have been taken.
LEMMA DrainedInv ==
  ASSUME ReplayInv, Drained
  PROVE  ReplayInv'
<1>1. /\ Types /\ OnTape /\ DecisionsFresh /\ PositionsOlder /\ PendingsNext
      /\ RoundTripOrdered
  BY DEF ReplayInv
<1>2. /\ phase = "drain" /\ phase' = "risk" /\ queue = <<>> /\ trade.index > 0
      /\ UNCHANGED <<dynamic, tape, queue, position, pending, record>>
      /\ trade' = trade /\ before' = before /\ candle' = candle
  BY <1>1 DEF Drained, OnTape, tape
<1>3. OnTape'
  BY <1>2, TradeStays
<1>4. Types' /\ DecisionsFresh' /\ PositionsOlder' /\ PendingsNext'
  BY <1>1, <1>2 DEF Types, DecisionsFresh, PositionsOlder, PendingsNext
<1>5. RoundTripOrdered' /\ FirstTriggerWins'
  BY <1>1, <1>2 DEF RoundTripOrdered, FirstTriggerWins
<1>6. QED
  BY <1>3, <1>4, <1>5 DEF ReplayInv

\* The evaluation of a trade changes a position's levels only.
LEMMA Evaluating ==
  ASSUME Types, RiskEval, position # None
  PROVE  /\ position' \in Held
         /\ position'.quantity = position.quantity /\ position'.entry = position.entry
         /\ position'.signal = position.signal /\ position'.fill = position.fill
         /\ position'.index = position.index
         /\ position'.stop = position.stop /\ position'.target = position.target
<1> USE Constants
<1>1. /\ position \in Held /\ position.highest \in Int /\ position.trailing \in Int
      /\ position.atr \in Nat /\ trade.price \in Int
  BY SMTT(40) DEF Types, Held
<1>2. Highest \in Int
  BY <1>1, Product DEF Highest, Level, Larger
<1>3. NewTrailing(position.trailing, Highest, position.atr) \in Int
  <2>1. TrailAtr * position.atr * SlipDen \in Int
    BY <1>1, Product
  <2>2. QED
    BY <1>1, <1>2, <2>1 DEF NewTrailing, Larger
<1>4. \/ position' = position
      \/ position' = [position EXCEPT !.highest = Highest]
      \/ position' = [position EXCEPT !.highest = Highest,
             !.trailing = NewTrailing(position.trailing, Highest, position.atr)]
  BY ZenonT(60) DEF RiskEval
<1> DEFINE h == Highest
           n == NewTrailing(position.trailing, Highest, position.atr)
<1>5. \/ position' = position
      \/ position' = [position EXCEPT !.highest = h]
      \/ position' = [position EXCEPT !.highest = h, !.trailing = n]
  BY <1>4
<1>6. h \in Int /\ n \in Int
  BY <1>2, <1>3
<1> HIDE DEF h, n
<1>7. QED
  BY <1>1, <1>5, <1>6, ZenonT(60) DEF Held

\* The exits are evaluated at the current print.
LEMMA RiskEvalInv ==
  ASSUME ReplayInv, RiskEval
  PROVE  ReplayInv'
<1> USE Constants
<1>1. /\ Types /\ OnTape /\ DecisionsFresh /\ PositionsOlder /\ PendingsNext
      /\ RoundTripOrdered
  BY DEF ReplayInv
<1>2. /\ phase = "risk" /\ phase' = "next" /\ trade.index > 0 /\ queue = <<>>
      /\ pending = None
      /\ UNCHANGED <<dynamic, tape, queue, record>>
      /\ trade' = trade /\ before' = before /\ candle' = candle
  BY <1>1 DEF RiskEval, OnTape, DecisionsFresh, PendingsNext, tape
<1>3. OnTape'
  BY <1>2, TradeStays
<1>4. RoundTripOrdered' /\ DecisionsFresh'
  BY <1>1, <1>2 DEF RoundTripOrdered, DecisionsFresh
<1>5. trade.ts \in Nat /\ trade.index \in Nat /\ trade.price \in Nat /\ Level \in Int
  BY <1>1, Product DEF Types, Level
<1>6. CASE position = None
  <2>1. ~Evaluated /\ ~StopTriggered /\ ~TargetTriggered
    BY <1>6 DEF Evaluated, StopTriggered, TargetTriggered
  <2>2. UNCHANGED <<position, pending>>
    BY <2>1 DEF RiskEval
  <2>3. Types' /\ PositionsOlder' /\ PendingsNext' /\ FirstTriggerWins'
    BY <1>1, <1>2, <1>6, <2>2 DEF Types, PositionsOlder, PendingsNext, FirstTriggerWins
  <2>4. QED
    BY <1>3, <1>4, <2>3 DEF ReplayInv
<1>7. CASE position # None
  <2>1. /\ position \in Held /\ position' \in Held /\ position' # None
        /\ position'.signal = position.signal /\ position'.fill = position.fill
        /\ position'.index = position.index
        /\ position'.stop = position.stop /\ position'.target = position.target
    BY <1>1, <1>7, Evaluating, NoneIsApart DEF Types
  <2>2. /\ position.signal <= position.fill /\ position.fill <= trade.ts
        /\ position.index <= trade.index
        /\ position.index = trade.index => position.fill = trade.ts
        /\ position.fill \in Nat /\ position.index \in Nat
        /\ position.stop \in Int /\ position.target \in Int /\ position.trailing \in Int
    BY <1>1, <1>7, <2>1 DEF PositionsOlder, Held
  <2>3. PositionsOlder'
    BY <1>2, <2>1, <2>2 DEF PositionsOlder
  <2>4. CASE StopTriggered \/ TargetTriggered
    <3>1. PICK reason \in Protection :
            pending' = [reason |-> reason, trigger |-> trade.ts, index |-> trade.index]
      BY <2>4, ZenonT(60) DEF RiskEval, Trigger, Protection, StopTriggered, TargetTriggered
    <3>2. trade.ts > position.fill
      BY <2>4 DEF StopTriggered, TargetTriggered, Evaluated
    <3>3. /\ pending' \in Exit /\ pending' # None
          /\ pending'.trigger = trade.ts /\ pending'.index = trade.index
      <4>1. pending' \in Exit
        BY <1>5, <3>1 DEF Exit
      <4>2. QED
        BY <3>1, <4>1, NoneIsApart
    <3>4. Types'
      BY <1>1, <1>2, <2>1, <3>3 DEF Types
    <3>5. position.index < trade.index
      BY <1>5, <2>2, <3>2
    <3>6. PendingsNext'
      BY <1>2, <1>5, <2>1, <2>2, <3>3, <3>5 DEF PendingsNext
    <3>7. FirstTriggerWins'
      BY <3>3 DEF FirstTriggerWins
    <3>8. QED
      BY <1>3, <1>4, <2>3, <3>4, <3>6, <3>7 DEF ReplayInv
  <2>5. CASE ~StopTriggered /\ ~TargetTriggered
    <3>1. pending' = pending
      BY <2>5, ZenonT(60) DEF RiskEval, TargetTriggered
    <3>2. Types' /\ PendingsNext'
      BY <1>1, <1>2, <2>1, <3>1 DEF Types, PendingsNext
    <3>3. ASSUME trade.ts > position.fill
          PROVE  position.stop < Level /\ Level < position.target
      <4>1. Evaluated
        BY <1>7, <3>3 DEF Evaluated
      <4>2. ~(Level <= Protective)
        BY <2>5, <4>1 DEF StopTriggered
      <4>3. ~(Level >= position.target)
        BY <2>5, <4>1 DEF TargetTriggered
      <4>4. Protective \in Int /\ Protective >= position.stop
        BY <2>2 DEF Protective, Larger
      <4>5. QED
        BY <1>5, <2>2, <4>2, <4>3, <4>4
    <3>4. FirstTriggerWins'
      BY <1>2, <2>1, <3>3 DEF FirstTriggerWins, Level
    <3>5. QED
      BY <1>3, <1>4, <2>3, <3>2, <3>4 DEF ReplayInv
  <2>6. QED
    BY <2>4, <2>5
<1>8. QED
  BY <1>6, <1>7

\* The last candle is decided on.
LEMMA SweepInv ==
  ASSUME ReplayInv, Sweep
  PROVE  ReplayInv'
<1>1. /\ Types /\ OnTape /\ DecisionsFresh /\ PositionsOlder /\ PendingsNext
      /\ RoundTripOrdered
  BY DEF ReplayInv
<1>2. /\ phase = "next" /\ phase' = "over" /\ trade.index > 0 /\ candle # None
      /\ queue = <<>>
      /\ UNCHANGED <<dynamic, tape, pending, record>>
      /\ trade' = trade /\ before' = before /\ candle' = candle
  BY <1>1 DEF Sweep, OnTape, DecisionsFresh, tape
<1>3. OnTape'
  BY <1>2, TradeStays
<1>4. PICK d \in DecisionsOn(candle), a \in Atrs : Decide(d) /\ FollowAtr(a)
  BY DEF Sweep
<1>5. queue' \in Seq(Decision) /\ Len(queue') <= 1
  BY <1>1, <1>2, <1>4, Deciding
<1>6. /\ position' \in Held \cup {None}
      /\ position' = None <=> position = None
      /\ position # None =>
           /\ position'.signal = position.signal /\ position'.fill = position.fill
           /\ position'.index = position.index
  BY <1>1, <1>4, Following
<1>7. Types' /\ DecisionsFresh'
  BY <1>1, <1>2, <1>5, <1>6 DEF Types, DecisionsFresh
<1>8. PositionsOlder' /\ PendingsNext'
  BY <1>1, <1>2, <1>6 DEF PositionsOlder, PendingsNext
<1>9. RoundTripOrdered' /\ FirstTriggerWins'
  BY <1>1, <1>2 DEF RoundTripOrdered, FirstTriggerWins
<1>10. QED
  BY <1>3, <1>7, <1>8, <1>9 DEF ReplayInv

\* What is left at the end of the tape is closed at its last trade.
LEMMA EdgeInv ==
  ASSUME ReplayInv, FillPendingEdge \/ EndOfDataset
  PROVE  ReplayInv'
<1>1. /\ Types /\ OnTape /\ DecisionsFresh /\ PositionsOlder /\ PendingsNext
  BY DEF ReplayInv
<1>2. /\ phase = "over" /\ phase' = phase /\ trade.index > 0 /\ position # None
      /\ queue' = queue
      /\ UNCHANGED <<dynamic, tape, queue>>
      /\ trade' = trade /\ before' = before /\ candle' = candle
  BY <1>1 DEF FillPendingEdge, EndOfDataset, OnTape, PendingsNext, tape
<1>3. OnTape'
  BY <1>2, TradeStays
<1>4. /\ position \in Held
      /\ position.signal <= position.fill /\ position.fill <= trade.ts
  BY <1>1, <1>2 DEF Types, PositionsOlder
<1>5. RoundTripOrdered' /\ position' = None /\ pending' = None
  <2>1. CASE FillPendingEdge
    <3>1. pending # None /\ Finish(pending, trade.ts, trade.index, trade.price)
      BY <2>1 DEF FillPendingEdge
    <3>2. /\ position.fill <= pending.trigger /\ pending.trigger <= trade.ts
          /\ position.index < pending.index /\ pending.index = trade.index
      BY <1>1, <1>2, <3>1 DEF PendingsNext
    <3>3. /\ position.index \in Nat /\ trade.index \in Nat
          /\ position.signal \in Nat /\ position.fill \in Nat
          /\ trade.ts \in Nat /\ pending.trigger \in Nat
      BY <1>1, <1>4, <3>1 DEF Types, Held, Exit
    <3>4. /\ position' = None /\ pending' = None
          /\ record'.signal = position.signal /\ record'.entryFill = position.fill
          /\ record'.entryIndex = position.index
          /\ record'.exitTrigger = pending.trigger /\ record'.triggerIndex = pending.index
          /\ record'.exitFill = trade.ts /\ record'.exitIndex = trade.index
      BY <3>1, Finishing
    <3>5. RoundTripOrdered'
      BY <1>2, <1>4, <3>2, <3>3, <3>4 DEF RoundTripOrdered
    <3>6. QED
      BY <3>4, <3>5
  <2>2. CASE EndOfDataset
    <3> DEFINE exit == [reason |-> "end_of_dataset", trigger |-> trade.ts, index |-> trade.index]
    <3>1. Finish(exit, trade.ts, trade.index, trade.price) /\ trade.ts \in Nat
      BY <1>1, <2>2 DEF EndOfDataset, Types
    <3>2. /\ position' = None /\ pending' = None
          /\ record'.signal = position.signal /\ record'.entryFill = position.fill
          /\ record'.exitTrigger = trade.ts /\ record'.exitFill = trade.ts
          /\ record'.reason = "end_of_dataset"
      BY <3>1, Finishing
    <3>3. QED
      BY <1>4, <3>1, <3>2 DEF RoundTripOrdered
  <2>3. QED
    BY <2>1, <2>2
<1>6. Types' /\ DecisionsFresh'
  BY <1>1, <1>2, <1>5 DEF Types, DecisionsFresh
<1>7. QED
  BY <1>2, <1>3, <1>5, <1>6, FinishInv

\* The replay ends and returns its statistics.
LEMMA EndInv ==
  ASSUME ReplayInv, CountUnfilled \/ Return
  PROVE  ReplayInv'
<1>1. /\ Types /\ OnTape /\ DecisionsFresh /\ PositionsOlder /\ PendingsNext
      /\ RoundTripOrdered
  BY DEF ReplayInv
<1>2. /\ phase = "over" /\ trade.index > 0
      /\ phase' = "over" \/ (phase' = "done" /\ queue = <<>> /\ position = None)
      /\ UNCHANGED <<dynamic, tape, position, pending, record>>
      /\ trade' = trade /\ before' = before /\ candle' = candle
  BY <1>1 DEF CountUnfilled, Return, OnTape, tape
<1>3. OnTape'
  BY <1>2, TradeStays
<1>4. queue' \in Seq(Decision) /\ Len(queue') <= 1 /\ (phase' = "done" => queue' = <<>>)
  <2>1. CASE CountUnfilled
    <3>1. queue # <<>> /\ queue' = Tail(queue) /\ phase' = "over"
      BY <2>1, <1>2 DEF CountUnfilled
    <3>2. queue' = <<>> /\ queue' \in Seq(Decision)
      BY <1>1, <3>1, Taking
    <3>3. Len(queue') <= 1
      BY <3>2, Len(<<>>) = 0
    <3>4. QED
      BY <3>1, <3>2, <3>3
  <2>2. CASE Return
    <3>1. queue' = queue /\ queue = <<>>
      BY <2>2 DEF Return
    <3>2. QED
      BY <1>1, <3>1 DEF Types, DecisionsFresh
  <2>3. QED
    BY <2>1, <2>2
<1>5. Types' /\ DecisionsFresh'
  BY <1>1, <1>2, <1>4 DEF Types, DecisionsFresh
<1>6. PositionsOlder' /\ PendingsNext'
  BY <1>1, <1>2 DEF PositionsOlder, PendingsNext
<1>7. RoundTripOrdered' /\ FirstTriggerWins'
  BY <1>1, <1>2 DEF RoundTripOrdered, FirstTriggerWins
<1>8. QED
  BY <1>3, <1>5, <1>6, <1>7 DEF ReplayInv

-----------------------------------------------------------------------------
(* The books.                                                              *)

\* What a position has cost.
Basis == IF position = None THEN 0 ELSE BuyCost(position.quantity, position.entry)

\* The cash is what was started with and realised, less what the position cost;
\* the peak the drawdown is measured from never falls below the start.
Books ==
  /\ realizedTotal \in Int /\ cash \in Int
  /\ peakEquity \in Int /\ peakEquity >= InitialCash
  /\ cash = InitialCash + realizedTotal - Basis

\* Costs and proceeds are amounts of money.
LEMMA Amounts ==
  ASSUME NEW q \in Int, NEW p \in Int
  PROVE  /\ BuyPrice(p) \in Int /\ SellPrice(p) \in Int
         /\ BuyCost(q, p) \in Int /\ SellProceeds(q, p) \in Int
         /\ p > 0 => BuyPrice(p) > 0 /\ SellPrice(p) > 0
         /\ q > 0 /\ p > 0 => BuyCost(q, p) > 0
         /\ q >= 0 /\ p > 0 => SellProceeds(q, p) >= 0
<1> USE Constants
<1>1. /\ SlipDen + SlipNum \in Int /\ SlipDen + SlipNum > 0
      /\ FeeDen + FeeNum \in Int /\ FeeDen + FeeNum > 0
      /\ SlipDen - SlipNum \in Int /\ FeeDen - FeeNum \in Int
  OBVIOUS
<1>2. /\ BuyPrice(p) \in Int /\ SellPrice(p) \in Int
      /\ p > 0 => BuyPrice(p) > 0 /\ SellPrice(p) > 0
  BY <1>1, Product DEF BuyPrice, SellPrice
<1>3. /\ q * BuyPrice(p) \in Int /\ q * SellPrice(p) \in Int
      /\ q > 0 /\ p > 0 => q * BuyPrice(p) > 0
      /\ q >= 0 /\ p > 0 => q * SellPrice(p) >= 0
  BY <1>2, Product
<1>4. QED
  BY <1>1, <1>2, <1>3, Product DEF BuyCost, SellProceeds

\* A round trip's net PnL is what its sale yields less what its entry cost.
LEMMA NetIsCashFlow ==
  ASSUME NEW q \in Int, NEW p \in Int, NEW x \in Int
  PROVE  Net(q, p, x) = SellProceeds(q, x) - BuyCost(q, p)
<1>1. SlipNum \in Int /\ SlipDen \in Int /\ FeeNum \in Int /\ FeeDen \in Int
  BY Constants
<1>2. QED
  BY <1>1 DEF Net, Gross, SlippageCost, Fees, Money, SellProceeds, BuyCost, BuyPrice, SellPrice

\* The initial cash is a positive amount of money.
LEMMA MoneyPositive == InitialCash \in Int /\ InitialCash > 0
<1>1. Money \in Int /\ Money > 0
  BY Constants, Product DEF Money
<1>2. QED
  BY <1>1, Constants, Product DEF InitialCash

\* A sale puts its proceeds into the cash and its net PnL into the total.
LEMMA FinishBooks ==
  ASSUME Types, Books, position # None, trade.price \in Prices, NEW exit,
         Finish(exit, trade.ts, trade.index, trade.price)
  PROVE  /\ Books'
         /\ cash' = cash + SellProceeds(position.quantity, trade.price)
         /\ realizedTotal' = realizedTotal + (cash' - cash) - Basis
<1> DEFINE net == Net(position.quantity, position.entry, trade.price)
           sale == SellProceeds(position.quantity, trade.price)
           cost == BuyCost(position.quantity, position.entry)
<1>1. /\ position.quantity \in Int /\ position.entry \in Int /\ trade.price \in Int
  <2>1. position.quantity \in Int /\ position.entry \in Prices
    BY DEF Types, Held
  <2>2. QED
    BY <2>1, Constants
<1>2. sale \in Int /\ cost \in Int /\ net = sale - cost
  BY <1>1, Amounts, NetIsCashFlow
<1>3. /\ realizedTotal' = realizedTotal + net /\ cash' = cash + sale /\ position' = None
      /\ peakEquity' \in {peakEquity, Larger(peakEquity, ReplayEquity + net)}
  BY DEF Finish
<1>4. Basis = cost /\ Basis' = 0
  BY <1>3 DEF Basis
<1>5. /\ realizedTotal \in Int /\ cash \in Int /\ peakEquity \in Int
      /\ peakEquity >= InitialCash /\ cash = InitialCash + realizedTotal - cost
      /\ InitialCash \in Int
  BY <1>4, MoneyPositive DEF Books
<1> HIDE DEF net, sale, cost
<1>6. peakEquity' \in Int /\ peakEquity' >= InitialCash
  BY <1>2, <1>3, <1>5 DEF Larger, ReplayEquity
<1>7. /\ realizedTotal' \in Int /\ cash' \in Int
      /\ cash' = InitialCash + realizedTotal'
      /\ realizedTotal' = realizedTotal + (cash' - cash) - cost
  BY <1>2, <1>3, <1>5
<1>8. InitialCash' = InitialCash
  BY DEF InitialCash, Money
<1>9. QED
  BY <1>3, <1>4, <1>6, <1>7, <1>8, <1>5 DEF Books, sale

\* Steps that move no money.
LEMMA BooksStay ==
  ASSUME Books, UNCHANGED <<realizedTotal, peakEquity, cash, Basis>>
  PROVE  Books'
BY DEF Books, InitialCash, Money

\* An entry pays its cost out of the cash.
LEMMA OpenBooks ==
  ASSUME Types, OnTape, DecisionsFresh, Books, OpenPosition
  PROVE  /\ Books' /\ realizedTotal' = realizedTotal
         /\ Head(queue) \in Decision
         /\ position' # None /\ position'.entry = trade.price
         /\ position'.quantity \in Int
         /\ position'.quantity = (IF dynamic THEN Lots(Head(queue)) ELSE FixedLots)
         /\ cash' = cash - BuyCost(position'.quantity, trade.price)
         /\ position' = Opened(Head(queue))
<1> USE Constants
<1> DEFINE d == Head(queue)
<1>1. /\ queue # <<>> /\ position = None /\ d.atr # 0 /\ position' = Opened(d)
      /\ cash' = cash - BuyCost(position'.quantity, trade.price)
      /\ queue' = Tail(queue) /\ trade.index > 0 /\ trade.price \in Prices
      /\ UNCHANGED <<realizedTotal, peakEquity>>
  BY DEF OpenPosition, Eligible, Draining, OnTape
<1>2. d \in Decision
  BY <1>1, Taking
<1> HIDE DEF d
<1>3. realizedTotal \in Int /\ peakEquity \in Int /\ peakEquity > 0 /\ cash \in Int
  BY MoneyPositive DEF Books
<1>4. Lots(d) \in Int
  BY <1>1, <1>2, <1>3, LotsAreNumbers
<1>5. /\ position' \in Held /\ position'.entry = trade.price
      /\ position'.quantity = (IF dynamic THEN Lots(d) ELSE FixedLots)
  BY <1>1, <1>2, <1>4, Opening
<1>6. position' # None /\ position'.quantity \in Int /\ trade.price \in Int
  BY <1>1, <1>5, NoneIsApart DEF Held
<1>7. BuyCost(position'.quantity, trade.price) \in Int
  BY ZenonT(60), <1>6, Amounts
<1>8. Basis = 0 /\ Basis' = BuyCost(position'.quantity, trade.price)
  BY <1>1, <1>5, <1>6 DEF Basis, BuyCost, BuyPrice
<1>9. InitialCash' = InitialCash /\ InitialCash \in Int
  BY MoneyPositive DEF InitialCash, Money
<1>10. Books'
  BY <1>1, <1>3, <1>7, <1>8, <1>9 DEF Books
<1>11. QED
  BY <1>1, <1>2, <1>5, <1>6, <1>10 DEF d

-----------------------------------------------------------------------------
(* Every step keeps the invariant and the books.                           *)

Accounted == ReplayInv /\ Books

\* The books are balanced at the start.
LEMMA AccountedInit == Init => Accounted
<1> SUFFICES ASSUME Init PROVE Accounted
  OBVIOUS
<1>1. Types /\ OnTape /\ DecisionsFresh /\ PositionsOlder /\ PendingsNext
  BY DEF Init, Types, OnTape, DecisionsFresh, PositionsOlder, PendingsNext, NoTrade
<1>2. RoundTripOrdered /\ FirstTriggerWins
  BY DEF Init, RoundTripOrdered, FirstTriggerWins
<1>3. Books
  BY MoneyPositive DEF Init, Books, Basis
<1>4. QED
  BY <1>1, <1>2, <1>3 DEF Accounted, ReplayInv

\* Every step keeps them balanced.
LEMMA AccountedNext == Accounted /\ [Next]_vars => Accounted'
<1> SUFFICES ASSUME Accounted, [Next]_vars PROVE Accounted'
  OBVIOUS
<1>1. ReplayInv /\ Books /\ Types /\ OnTape /\ DecisionsFresh
  BY DEF Accounted, ReplayInv
<1>2. CASE \E gap \in Gaps, p \in Prices : NextTrade(gap, p)
  <2>1. PICK gap \in Gaps, p \in Prices : NextTrade(gap, p)
    BY <1>2
  <2>2. UNCHANGED <<realizedTotal, peakEquity, cash, Basis>>
    BY <2>1 DEF NextTrade, book, Basis, BuyCost, BuyPrice
  <2>3. QED
    BY <1>1, <2>1, <2>2, NextTradeInv, BooksStay DEF Accounted
<1>3. CASE Advance
  <2>1. UNCHANGED <<realizedTotal, peakEquity, cash>>
    BY <1>3 DEF Advance, book
  <2>2. Basis' = Basis
    <3>1. CASE Confirmed(trade.ts)
      <4>1. PICK a \in Atrs : FollowAtr(a)
        BY <1>3, <3>1 DEF Advance
      <4>2. /\ position' = None <=> position = None
            /\ position # None => /\ position'.quantity = position.quantity
                                  /\ position'.entry = position.entry
        BY <1>1, <4>1, Following
      <4>3. QED
        BY <4>2 DEF Basis, BuyCost, BuyPrice
    <3>2. CASE ~Confirmed(trade.ts)
      BY <1>3, <3>2 DEF Advance, Basis, BuyCost, BuyPrice
    <3>3. QED
      BY <3>1, <3>2
  <2>3. QED
    BY <1>1, <1>3, <2>1, <2>2, AdvanceInv, BooksStay DEF Accounted
<1>4. CASE FillPendingExit
  <2>1. CASE pending # None
    <3>1. Finish(pending, trade.ts, trade.index, trade.price)
      BY <1>4, <2>1 DEF FillPendingExit
    <3>2. position # None /\ trade.price \in Prices
      BY <1>1, <1>4, <2>1 DEF FillPendingExit, ReplayInv, PendingsNext, OnTape
    <3>3. Books'
      BY <1>1, <3>1, <3>2, FinishBooks
    <3>4. QED
      BY <1>1, <1>4, <3>3, FillPendingExitInv DEF Accounted
  <2>2. CASE pending = None
    <3>1. UNCHANGED <<realizedTotal, peakEquity, cash, Basis>>
      BY <1>4, <2>2 DEF FillPendingExit, book, Basis, BuyCost, BuyPrice
    <3>2. QED
      BY <1>1, <1>4, <3>1, FillPendingExitInv, BooksStay DEF Accounted
  <2>3. QED
    BY <2>1, <2>2
<1>5. CASE DropBuy \/ RejectBuy \/ DropSell
  <2>1. UNCHANGED <<realizedTotal, peakEquity, cash, Basis>>
    BY <1>5 DEF DropBuy, RejectBuy, DropSell, book, Basis, BuyCost, BuyPrice
  <2>2. QED
    BY <1>1, <1>5, <2>1, DecidedInv, BooksStay DEF Accounted
<1>6. CASE OpenPosition
  <2>1. Books' /\ (dynamic => Lots(Head(queue)) \in Int)
    BY <1>1, <1>6, OpenBooks
  <2>2. QED
    BY <1>1, <1>6, <2>1, OpenPositionInv DEF Accounted
<1>7. CASE StrategyExit
  <2>1. /\ position # None /\ trade.price \in Prices
        /\ Finish([reason |-> "strategy_exit", trigger |-> Head(queue).signal,
                   index |-> 0], trade.ts, trade.index, trade.price)
    BY <1>1, <1>7 DEF StrategyExit, Draining, OnTape
  <2>2. Books'
    BY <1>1, <2>1, FinishBooks
  <2>3. QED
    BY <1>1, <1>7, <2>2, StrategyExitInv DEF Accounted
<1>8. CASE Drained
  <2>1. UNCHANGED <<realizedTotal, peakEquity, cash, Basis>>
    BY <1>8 DEF Drained, book, Basis, BuyCost, BuyPrice
  <2>2. QED
    BY <1>1, <1>8, <2>1, DrainedInv, BooksStay DEF Accounted
<1>9. CASE RiskEval
  <2>1. UNCHANGED <<realizedTotal, peakEquity, cash>>
    BY <1>9 DEF RiskEval, book
  <2>2. Basis' = Basis
    <3>1. CASE position = None
      <4>1. position' = position
        BY <1>9, <3>1 DEF RiskEval, Evaluated, StopTriggered, TargetTriggered
      <4>2. QED
        BY <4>1 DEF Basis, BuyCost, BuyPrice
    <3>2. CASE position # None
      <4>1. /\ position' # None
            /\ position'.quantity = position.quantity /\ position'.entry = position.entry
        BY <1>1, <1>9, <3>2, Evaluating, NoneIsApart
      <4>2. QED
        BY <3>2, <4>1 DEF Basis, BuyCost, BuyPrice
    <3>3. QED
      BY <3>1, <3>2
  <2>3. QED
    BY <1>1, <1>9, <2>1, <2>2, RiskEvalInv, BooksStay DEF Accounted
<1>10. CASE Sweep
  <2>1. UNCHANGED <<realizedTotal, peakEquity, cash>>
    BY <1>10 DEF Sweep, book
  <2>2. PICK a \in Atrs : FollowAtr(a)
    BY <1>10 DEF Sweep
  <2>3. /\ position' = None <=> position = None
        /\ position # None => /\ position'.quantity = position.quantity
                              /\ position'.entry = position.entry
    BY <1>1, <2>2, Following
  <2>4. Basis' = Basis
    BY <2>3 DEF Basis, BuyCost, BuyPrice
  <2>5. QED
    BY <1>1, <1>10, <2>1, <2>4, SweepInv, BooksStay DEF Accounted
<1>11. CASE FillPendingEdge \/ EndOfDataset
  <2>1. PICK exit : Finish(exit, trade.ts, trade.index, trade.price)
    BY <1>11 DEF FillPendingEdge, EndOfDataset
  <2>2. position # None /\ trade.price \in Prices
    BY <1>1, <1>11 DEF FillPendingEdge, EndOfDataset, ReplayInv, PendingsNext, OnTape
  <2>3. Books'
    BY <1>1, <2>1, <2>2, FinishBooks
  <2>4. QED
    BY <1>1, <1>11, <2>3, EdgeInv DEF Accounted
<1>12. CASE CountUnfilled \/ Return
  <2>1. UNCHANGED <<realizedTotal, peakEquity, cash, Basis>>
    BY <1>12 DEF CountUnfilled, Return, book, Basis, BuyCost, BuyPrice
  <2>2. QED
    BY <1>1, <1>12, <2>1, EndInv, BooksStay DEF Accounted
<1>13. CASE UNCHANGED vars
  <2>1. /\ UNCHANGED <<dynamic, phase, trade, before, candle, queue, position, pending, record>>
        /\ UNCHANGED <<realizedTotal, peakEquity, cash>>
    BY <1>13 DEF vars, tape, book
  <2>2. ReplayInv'
    BY <1>1, <2>1 DEF ReplayInv, Types, OnTape, DecisionsFresh, PositionsOlder,
       PendingsNext, RoundTripOrdered, FirstTriggerWins, Level
  <2>3. Basis' = Basis
    BY <2>1 DEF Basis, BuyCost, BuyPrice
  <2>4. QED
    BY <1>1, <2>1, <2>2, <2>3, BooksStay DEF Accounted
<1>14. QED
  BY <1>2, <1>3, <1>4, <1>5, <1>6, <1>7, <1>8, <1>9, <1>10, <1>11, <1>12, <1>13 DEF Next

\* They are balanced in every reachable state.
LEMMA AlwaysAccounted == Spec => []Accounted
<1>1. QED
  BY AccountedInit, AccountedNext, PTL DEF Spec

\* A position leaves by what happened to it first, after that and only once: the
\* error paths of _fill_pending_exit, _fill_pending_edge and run ("invariante rota")
\* are never taken, a round trip's times are in order, and a stop or a target fills
\* at the trade after the one that triggered it.
THEOREM ExitsFollowFirstTrigger == Spec => []ExitsFollowTriggers
<1>1. Accounted => ExitsFollowTriggers
  BY DEF Accounted, ReplayInv, PositionsOlder, PendingsNext, ExitsFollowTriggers, ExitNeedsPosition
<1>2. QED
  BY <1>1, AlwaysAccounted, PTL

\* Only _open_position turns no position into one.
LEMMA OnlyOpenOpens ==
  ASSUME Accounted, Next, position = None, position' # None
  PROVE  OpenPosition
<1>1. Types
  BY DEF Accounted, ReplayInv
<1>2. CASE Advance
  <2>1. position' = position \/ \E a \in Atrs : FollowAtr(a)
    BY <1>2 DEF Advance
  <2>2. QED
    BY <1>1, <2>1, Following
<1>3. CASE Sweep
  <2>1. \E a \in Atrs : FollowAtr(a)
    BY <1>3 DEF Sweep
  <2>2. QED
    BY <1>1, <2>1, Following
<1>4. CASE RiskEval
  BY <1>4 DEF RiskEval, Evaluated, StopTriggered, TargetTriggered
<1>5. CASE FillPendingExit \/ StrategyExit \/ FillPendingEdge \/ EndOfDataset
  BY <1>5 DEF FillPendingExit, StrategyExit, FillPendingEdge, EndOfDataset, Finish
<1>6. CASE DropBuy \/ RejectBuy \/ DropSell \/ Drained \/ CountUnfilled \/ Return
  BY <1>6 DEF DropBuy, RejectBuy, DropSell, Drained, CountUnfilled, Return
<1>7. CASE \E gap \in Gaps, p \in Prices : NextTrade(gap, p)
  BY <1>7 DEF NextTrade
<1>8. QED
  BY <1>2, <1>3, <1>4, <1>5, <1>6, <1>7 DEF Next

\* No look-ahead and no delay in _drain_decisions: an entry is filled at the first
\* trade at or after the close of the candle its decision was taken on.
THEOREM EntriesTakeFirstEligibleTrade == Spec => FirstEligibleTrade
<1>1. ASSUME Accounted, [Next]_vars, position = None, position' # None
      PROVE  position'.signal <= trade.ts /\ (trade.index = 1 \/ before < position'.signal)
  <2>1. Next
    BY <1>1 DEF vars
  <2>2. OpenPosition
    BY <1>1, <2>1, OnlyOpenOpens
  <2>3. /\ Types /\ OnTape /\ DecisionsFresh /\ Books
        /\ phase = "drain" /\ queue # <<>>
    BY <1>1, <2>2 DEF Accounted, ReplayInv, OpenPosition, Eligible, Draining
  <2>4. position' = Opened(Head(queue)) /\ Head(queue) = queue[1]
    BY <2>2, <2>3, OpenBooks, Taking DEF OpenPosition
  <2>5. position'.signal = queue[1].signal
    BY <2>4 DEF Opened
  <2>6. QED
    BY <2>3, <2>5 DEF DecisionsFresh
<1>2. Accounted /\ [Next]_vars =>
        [position = None /\ position' # None =>
           /\ position'.signal <= trade.ts
           /\ trade.index = 1 \/ before < position'.signal]_vars
  BY <1>1
<1>3. QED
  BY <1>2, AlwaysAccounted, PTL DEF Spec, FirstEligibleTrade

-----------------------------------------------------------------------------
(* The account of a sized replay.                                          *)

\* The size of an entry the risk engine lets through: at least a lot, and no more
\* than the allocation has at the price of the decision.
LEMMA LotsInBounds ==
  ASSUME Types, Books, NEW d \in Decision, d.atr # 0,
         ~DrawdownExceeded(peakEquity, ReplayEquity), Lots(d) # 0
  PROVE  /\ Lots(d) \in Int /\ Lots(d) > 0
         /\ AllocatedLots(d.reference) \in Int /\ Lots(d) <= AllocatedLots(d.reference)
<1> USE Constants
<1>1. d.reference \in Nat /\ d.reference > 0 /\ d.atr \in Nat /\ d.atr > 0
  BY DEF Decision
<1>2. /\ realizedTotal \in Int /\ peakEquity \in Int /\ peakEquity > 0
      /\ ReplayEquity \in Int
  BY MoneyPositive DEF Books, ReplayEquity
<1>3. AllocatedLots(d.reference) \in Int /\ AllocatedLots(d.reference) >= 0
  <2>1. MaxNotional \in Int /\ MaxNotional >= 0
    BY Product DEF MaxNotional, Smaller
  <2>2. 1000 * d.reference \in Int /\ 1000 * d.reference > 0
    BY <1>1
  <2>3. QED
    BY <2>1, <2>2, Quotient DEF AllocatedLots
<1>4. DrawdownScale(peakEquity, ReplayEquity) \in Int /\ DrawdownScale(peakEquity, ReplayEquity) >= 0
  <2>1. DrawdownPm * peakEquity \in Int /\ DrawdownPm * peakEquity > 0
    BY <1>2, Product
  <2>2. CASE ReplayEquity >= peakEquity
    BY <2>2 DEF DrawdownScale
  <2>3. CASE ReplayEquity < peakEquity
    <3> DEFINE rest == 100 * (DrawdownPm * peakEquity - 1000 * (peakEquity - ReplayEquity))
    <3>1. 1000 * (peakEquity - ReplayEquity) < DrawdownPm * peakEquity
      BY <1>2, <2>1, <2>3 DEF DrawdownExceeded
    <3>2. rest \in Int /\ rest >= 0
      BY <1>2, <2>1, <3>1
    <3>3. DrawdownScale(peakEquity, ReplayEquity) = rest \div (DrawdownPm * peakEquity)
      BY <1>2, <2>3 DEF DrawdownScale
    <3> HIDE DEF rest
    <3>4. QED
      BY <2>1, <3>2, <3>3, Quotient
  <2>4. QED
    BY <1>2, <2>2, <2>3
<1> DEFINE risk == Capital * BudgetPm[ScenarioIntensity] * DrawdownScale(peakEquity, ReplayEquity)
           per == 100000 * StopAtr * d.atr
<1>5. risk \in Int /\ risk >= 0
  <2>1. Capital * BudgetPm[ScenarioIntensity] \in Int /\ Capital * BudgetPm[ScenarioIntensity] >= 0
    BY Product
  <2>2. QED
    BY <1>4, <2>1, Product
<1>6. per \in Int /\ per > 0
  <2>1. StopAtr * d.atr \in Int /\ StopAtr * d.atr > 0
    BY <1>1, Product
  <2>2. QED
    BY <2>1, <1>1
<1>7. Lots(d) = Smaller(risk \div per, AllocatedLots(d.reference))
  BY DEF Lots, PositionSize
<1> HIDE DEF risk, per
<1>8. risk \div per \in Int /\ risk \div per >= 0
  BY <1>5, <1>6, Quotient
<1>9. QED
  BY <1>3, <1>7, <1>8 DEF Smaller

\* The hypothesis the code does not check: what the drawdown guard leaves of the
\* starting capital pays for the lots that were sized at a decision's price, at
\* the price of the trade that fills it.  With an allocation a of the capital, a
\* drawdown limit m and small fees it says that a price does not rise by more than
\* (1 - m) / a between a candle's close and the next trade.
Room == \A r, p \in Prices :
  1000 * BuyCost(AllocatedLots(r), p) <= (1000 - DrawdownPm) * InitialCash

\* More lots cost more.
LEMMA CostGrows ==
  ASSUME NEW q \in Int, NEW r \in Int, q <= r, NEW p \in Int, p > 0
  PROVE  BuyCost(q, p) <= BuyCost(r, p)
<1> USE Constants
<1>1. BuyPrice(p) \in Int /\ BuyPrice(p) >= 0
  <2>1. SlipDen + SlipNum \in Int /\ SlipDen + SlipNum > 0
    OBVIOUS
  <2>2. QED
    BY <2>1, Product DEF BuyPrice
<1>2. q * BuyPrice(p) \in Int /\ r * BuyPrice(p) \in Int /\ q * BuyPrice(p) <= r * BuyPrice(p)
  <2> DEFINE b == BuyPrice(p)
  <2>1. b \in Int /\ b >= 0
    BY <1>1
  <2> HIDE DEF b
  <2>2. q * b \in Int /\ r * b \in Int /\ q * b <= r * b
    BY <2>1, Monotone
  <2>3. QED
    BY <2>2 DEF b
<1>3. FeeDen + FeeNum \in Int /\ FeeDen + FeeNum >= 0
  OBVIOUS
<1>4. QED
  BY <1>2, <1>3, Monotone DEF BuyCost

\* A loss below m per mille of a peak leaves the rest of what it started from.
LEMMA LimitedLoss ==
  ASSUME NEW m \in Int, m >= 0, m <= 1000, NEW start \in Int, start >= 0,
         NEW top \in Int, top >= start, NEW rest \in Int,
         rest > top \/ 1000 * (top - rest) < m * top
  PROVE  1000 * rest >= (1000 - m) * start
<1> DEFINE n == 1000 - m
<1>1. n \in Int /\ n >= 0 /\ n <= 1000 /\ m = 1000 - n
  OBVIOUS
<1>2. m * top = 1000 * top - n * top
  OBVIOUS
<1> HIDE DEF n
<1>3. n * top >= n * start
  <2>1. start * n <= top * n
    BY <1>1, Monotone
  <2>2. QED
    BY <1>1, <2>1
<1>4. n * top <= 1000 * top
  BY <1>1, Monotone
<1>5. n * top \in Int /\ n * start \in Int /\ m * top \in Int
  BY <1>1, Product
<1>6. 1000 * rest >= n * start
  BY <1>2, <1>3, <1>4, <1>5
<1>7. QED
  BY <1>6 DEF n

\* With room, the cash of a flat account pays for an entry that was let through.
LEMMA EntryIsPaid ==
  ASSUME Types, Books, Room, position = None, NEW d \in Decision, d.atr # 0,
         trade.price \in Prices,
         ~DrawdownExceeded(peakEquity, ReplayEquity), Lots(d) # 0
  PROVE  /\ Lots(d) \in Int /\ Lots(d) > 0
         /\ BuyCost(Lots(d), trade.price) \in Int
         /\ BuyCost(Lots(d), trade.price) > 0
         /\ BuyCost(Lots(d), trade.price) <= cash
<1> DEFINE cost == BuyCost(Lots(d), trade.price)
           most == BuyCost(AllocatedLots(d.reference), trade.price)
<1>1. /\ Lots(d) \in Int /\ Lots(d) > 0
      /\ AllocatedLots(d.reference) \in Int /\ Lots(d) <= AllocatedLots(d.reference)
  BY LotsInBounds
<1>2. trade.price \in Int /\ trade.price > 0 /\ d.reference \in Prices
  BY Constants DEF Decision
<1>3. cost \in Int /\ cost > 0 /\ most \in Int /\ cost <= most
  BY <1>1, <1>2, Amounts, CostGrows
<1>4. 1000 * most <= (1000 - DrawdownPm) * InitialCash
  BY <1>2 DEF Room
<1>5. /\ cash \in Int /\ peakEquity \in Int /\ peakEquity >= InitialCash
      /\ InitialCash \in Int /\ InitialCash > 0 /\ cash = ReplayEquity
  BY MoneyPositive DEF Books, Basis, ReplayEquity
<1> HIDE DEF cost, most
<1>6. 1000 * cash >= (1000 - DrawdownPm) * InitialCash
  <2>1. DrawdownPm \in Int /\ DrawdownPm > 0 /\ DrawdownPm <= 1000
    BY Constants
  <2>2. cash > peakEquity \/ 1000 * (peakEquity - cash) < DrawdownPm * peakEquity
    <3>1. DrawdownPm * peakEquity \in Int
      BY <1>5, <2>1, Product
    <3>2. ~DrawdownExceeded(peakEquity, cash)
      BY <1>5
    <3>3. QED
      BY ONLY <1>5, <3>1, <3>2 DEF DrawdownExceeded
  <2>3. DrawdownPm >= 0 /\ InitialCash >= 0
    BY <1>5, <2>1
  <2>4. QED
    BY ONLY <1>5, <2>1, <2>2, <2>3, LimitedLoss
<1>7. cost <= cash
  <2> DEFINE bound == (1000 - DrawdownPm) * InitialCash
  <2>1. bound \in Int
    <3>1. 1000 - DrawdownPm \in Int
      BY Constants
    <3>2. QED
      BY <1>5, <3>1, Product
  <2>2. 1000 * most <= bound /\ bound <= 1000 * cash
    BY <1>4, <1>6
  <2> HIDE DEF bound
  <2>3. QED
    BY <1>3, <1>5, <2>1, <2>2
<1>8. QED
  BY <1>1, <1>3, <1>7 DEF cost

\* The account of a replay the risk engine sizes: nothing bought on credit.
Solvent ==
  /\ Accounted /\ dynamic
  /\ cash >= 0
  /\ position # None => position.quantity > 0

\* What the refinement mapping shows of a position.
Size == IF position = None THEN 0 ELSE position.quantity

\* Selling a position closes the account's.
LEMMA FinishCloses ==
  ASSUME Solvent, position # None, trade.price \in Prices, NEW exit,
         Finish(exit, trade.ts, trade.index, trade.price)
  PROVE  cash' >= 0 /\ position' = None /\ Account!CloseAll
<1>1. /\ Types /\ Books /\ cash \in Int /\ cash >= 0
      /\ position.quantity > 0 /\ position.quantity \in Int /\ position \in Held
  BY DEF Solvent, Accounted, ReplayInv, Books, Types, Held
<1>2. trade.price \in Int /\ trade.price > 0
  BY Constants
<1>3. /\ Books' /\ position' = None
      /\ cash' = cash + SellProceeds(position.quantity, trade.price)
      /\ realizedTotal' = realizedTotal + (cash' - cash) - Basis
  BY <1>1, FinishBooks, Finishing
<1>4. /\ SellProceeds(position.quantity, trade.price) \in Int
      /\ SellProceeds(position.quantity, trade.price) >= 0
  <2>1. position.quantity >= 0
    BY <1>1
  <2>2. QED
    BY ONLY <1>1, <1>2, <2>1, Amounts
<1>5. cash' \in Nat /\ cash' >= cash
  BY <1>1, <1>3, <1>4
<1>6. /\ Size > 0 /\ Size' = 0 /\ Basis' = 0
  BY <1>1, <1>3 DEF Size, Basis
<1>7. Account!CloseAll
  BY <1>3, <1>5, <1>6 DEF Account!CloseAll, Size, Basis
<1>8. QED
  BY <1>3, <1>5, <1>7

\* An entry opens the account's position, paid in full.
LEMMA OpenOpens ==
  ASSUME Solvent, Room, OpenPosition
  PROVE  /\ cash' >= 0 /\ position' # None /\ position'.quantity > 0
         /\ Account!Open
<1> DEFINE d == Head(queue)
           cost == BuyCost(Lots(d), trade.price)
<1>1. /\ Types /\ OnTape /\ DecisionsFresh /\ Books /\ dynamic
      /\ cash \in Int /\ cash >= 0
  BY DEF Solvent, Accounted, ReplayInv, Books
<1>2. /\ position = None /\ d.atr # 0 /\ trade.price \in Prices
      /\ EntryVerdict(d, trade.ts) = "ok"
  BY <1>1 DEF OpenPosition, Eligible, Draining, OnTape
<1>3. ~DrawdownExceeded(peakEquity, ReplayEquity) /\ Lots(d) # 0
  BY <1>2 DEF EntryVerdict
<1>4. /\ Books' /\ realizedTotal' = realizedTotal /\ d \in Decision
      /\ position' # None /\ position'.entry = trade.price
      /\ position'.quantity = Lots(d) /\ cash' = cash - cost
  BY <1>1, OpenBooks
<1>5. /\ Lots(d) \in Int /\ Lots(d) > 0
      /\ cost \in Int /\ cost > 0 /\ cost <= cash
  BY <1>1, <1>2, <1>3, <1>4, EntryIsPaid
<1>6. Size = 0 /\ Size' = Lots(d) /\ Basis' = cost
  BY <1>2, <1>4 DEF Size, Basis, BuyCost, BuyPrice
<1> HIDE DEF cost, d
<1>7. cash' \in Nat /\ cash' < cash /\ Basis' = cash - cash' /\ Size' \in Nat \ {0}
  BY <1>1, <1>4, <1>5, <1>6
<1>8. Account!Open
  BY <1>4, <1>6, <1>7 DEF Account!Open, Size, Basis
<1>9. QED
  BY <1>1, <1>4, <1>5, <1>7, <1>8

\* Every other step leaves the account as it is.
LEMMA AccountStays ==
  ASSUME Solvent, Accounted', dynamic' = dynamic, UNCHANGED <<cash, realizedTotal>>,
         position' = None <=> position = None,
         position # None => /\ position'.quantity = position.quantity
                            /\ position'.entry = position.entry
  PROVE  Solvent' /\ UNCHANGED Account!account
<1>1. Solvent'
  BY DEF Solvent
<1>2. UNCHANGED Account!account
  BY DEF Account!account, BuyCost, BuyPrice
<1>3. QED
  BY <1>1, <1>2

\* With room for a position, every step is one of the long-only account.
LEMMA SolventNext ==
  ASSUME Room, Solvent, [Next]_vars
  PROVE  Solvent' /\ (Account!Next \/ UNCHANGED Account!account)
<1>1. /\ Accounted /\ Accounted' /\ dynamic /\ Types /\ OnTape /\ PendingsNext
  BY AccountedNext DEF Solvent, Accounted, ReplayInv
<1>2. dynamic' = dynamic
  BY DEF Next, vars, NextTrade, Advance, FillPendingExit, DropBuy, RejectBuy, OpenPosition,
     DropSell, StrategyExit, Drained, RiskEval, Sweep, CountUnfilled, FillPendingEdge,
     EndOfDataset, Return
<1>3. CASE OpenPosition
  <2>1. /\ cash' >= 0 /\ position' # None /\ position'.quantity > 0
        /\ Account!Open
    BY <1>3, OpenOpens
  <2>2. QED
    BY <1>1, <1>2, <2>1 DEF Solvent, Account!Next
<1>4. ASSUME NEW exit, Finish(exit, trade.ts, trade.index, trade.price), position # None,
             trade.index > 0
      PROVE  Solvent' /\ Account!Next
  <2>1. trade.price \in Prices
    BY <1>1, <1>4 DEF OnTape
  <2>2. cash' >= 0 /\ position' = None /\ Account!CloseAll
    BY <1>4, <2>1, FinishCloses
  <2>3. QED
    BY <1>1, <1>2, <2>2 DEF Solvent, Account!Next
<1>5. CASE FillPendingExit /\ pending # None
  <2>1. /\ Finish(pending, trade.ts, trade.index, trade.price)
        /\ position # None /\ trade.index > 0
    BY <1>1, <1>5 DEF FillPendingExit, PendingsNext, OnTape
  <2>2. QED
    BY <1>4, <2>1
<1>6. CASE StrategyExit
  <2>1. /\ Finish([reason |-> "strategy_exit", trigger |-> Head(queue).signal,
                   index |-> 0], trade.ts, trade.index, trade.price)
        /\ position # None /\ trade.index > 0
    BY <1>1, <1>6 DEF StrategyExit, Draining, OnTape
  <2>2. QED
    BY <1>4, <2>1
<1>7. CASE FillPendingEdge \/ EndOfDataset
  <2>1. PICK exit : Finish(exit, trade.ts, trade.index, trade.price)
    BY <1>7 DEF FillPendingEdge, EndOfDataset
  <2>2. position # None /\ trade.index > 0
    BY <1>1, <1>7 DEF FillPendingEdge, EndOfDataset, PendingsNext, OnTape
  <2>3. QED
    BY <1>4, <2>1, <2>2
<1>8. CASE Advance \/ Sweep
  <2>1. UNCHANGED <<cash, realizedTotal>>
    BY <1>8 DEF Advance, Sweep, book
  <2>2. position' = position \/ \E a \in Atrs : FollowAtr(a)
    BY <1>8 DEF Advance, Sweep
  <2>3. /\ position' = None <=> position = None
        /\ position # None => /\ position'.quantity = position.quantity
                              /\ position'.entry = position.entry
    BY <1>1, <2>2, Following
  <2>4. QED
    BY <1>1, <1>2, <2>1, <2>3, AccountStays
<1>9. CASE RiskEval
  <2>1. UNCHANGED <<cash, realizedTotal>>
    BY <1>9 DEF RiskEval, book
  <2>2. CASE position = None
    <3>1. position' = position
      BY <1>9, <2>2 DEF RiskEval, Evaluated, StopTriggered, TargetTriggered
    <3>2. QED
      BY <1>1, <1>2, <2>1, <2>2, <3>1, AccountStays
  <2>3. CASE position # None
    <3>1. /\ position' # None
          /\ position'.quantity = position.quantity /\ position'.entry = position.entry
      BY <1>1, <1>9, <2>3, Evaluating, NoneIsApart
    <3>2. QED
      BY <1>1, <1>2, <2>1, <2>3, <3>1, AccountStays
  <2>4. QED
    BY <2>2, <2>3
<1>10. CASE \/ \E gap \in Gaps, p \in Prices : NextTrade(gap, p)
            \/ FillPendingExit /\ pending = None
            \/ DropBuy \/ RejectBuy \/ DropSell \/ Drained \/ CountUnfilled \/ Return
            \/ UNCHANGED vars
  <2>1. UNCHANGED <<cash, realizedTotal, position>>
    BY <1>10 DEF vars, book, NextTrade, FillPendingExit, DropBuy, RejectBuy, DropSell,
       Drained, CountUnfilled, Return
  <2>2. QED
    BY <1>1, <1>2, <2>1, AccountStays
<1>11. QED
  BY <1>3, <1>5, <1>6, <1>7, <1>8, <1>9, <1>10 DEF Next

\* The records of a replay that the risk engine sizes are the account of a spot,
\* long-only portfolio (LongOnlyAccount) that pays each entry in full: its cash
\* never becomes negative.  Fixed lots are bought whatever the cash, so the
\* theorem is about sizing_mode "risk_engine".
THEOREM SizedReplayIsLongOnlyAccount ==
  ASSUME Room
  PROVE  Spec /\ dynamic => ReplayIsLongOnlyAccount
<1>1. Init /\ dynamic => Solvent /\ Account!Init
  <2>1. SUFFICES ASSUME Init, dynamic PROVE Solvent /\ Account!Init
    OBVIOUS
  <2>2. Accounted /\ position = None /\ cash = InitialCash /\ realizedTotal = 0
    BY <2>1, AccountedInit DEF Init
  <2>3. cash >= 0
    BY <2>2, MoneyPositive
  <2>4. Solvent
    BY <2>1, <2>2, <2>3 DEF Solvent
  <2>5. Account!Init
    BY <2>2 DEF Account!Init
  <2>6. QED
    BY <2>4, <2>5
<1>2. Solvent /\ [Next]_vars => Solvent' /\ [Account!Next]_(Account!account)
  BY SolventNext
<1>3. QED
  BY <1>1, <1>2, PTL DEF Spec, ReplayIsLongOnlyAccount, Account!Spec
=============================================================================
