-------------------------- MODULE PaperEngineProofs --------------------------
(***************************************************************************)
(* Theorems about PaperEngine and the readers of its journal (Journal),    *)
(* for every value of their constants.                                     *)
(***************************************************************************)
EXTENDS Journal, WellFoundedInduction, FiniteSetTheorems, TLAPS

-----------------------------------------------------------------------------
(* Arithmetic.                                                             *)

\* The quotient of a division by a positive number is an integer, and rounds
\* down.
LEMMA Quotient ==
  ASSUME NEW a \in Int, NEW b \in Int, b > 0
  PROVE  /\ a \div b \in Int
         /\ b * (a \div b) <= a
         /\ a >= 0 => a \div b >= 0
  OBVIOUS

\* A product of positive integers is positive, one of non-negative ones is not
\* negative.
LEMMA Product ==
  ASSUME NEW a \in Int, NEW b \in Int
  PROVE  /\ a * b \in Int
         /\ a > 0 /\ b > 0 => a * b > 0
         /\ a >= 0 /\ b >= 0 => a * b >= 0
  OBVIOUS

\* Multiplication by a non-negative integer keeps the order.
LEMMA Monotone ==
  ASSUME NEW a \in Int, NEW b \in Int, NEW c \in Int, a <= b, c >= 0
  PROVE  a * c <= b * c
  OBVIOUS
-----------------------------------------------------------------------------
(* The money a fill moves, and the lots a buy may ask for.                 *)

\* The constants, one by one.
LEMMA Constants ==
  /\ Capital \in Int /\ Capital > 0
  /\ SlipDen \in Int /\ SlipDen > 0 /\ SlipNum \in Int /\ SlipNum >= 0
  /\ SlipDen - SlipNum > 0
  /\ FeeDen \in Int /\ FeeDen > 0 /\ FeeNum \in Int /\ FeeNum >= 0
  /\ FeeDen - FeeNum > 0
  /\ DayLength \in Int /\ DayLength > 0
  /\ DrawdownPm \in Int /\ DrawdownPm > 0 /\ DrawdownPm <= 1000
  /\ AllocPm \in Nat /\ LeveragePm \in Nat /\ LeveragePm <= 1000
  /\ DailyLossPm \in Nat /\ MaxTimestamp \in Nat
  /\ StopAtr \in Nat /\ StopAtr > 0 /\ TargetR \in Nat /\ TrailAtr \in Nat
  /\ \A p \in Prices : p \in Int /\ p > 0
  /\ \A a \in Atrs : a \in Int /\ a >= 0
  BY EngineAssumption DEF EngineAssumption

\* One price unit is worth a positive amount of money.
LEMMA MoneyPositive ==
  /\ Money \in Int /\ Money > 0
  /\ InitialCash \in Int /\ InitialCash > 0
<1>1. Money \in Int /\ Money > 0
  BY Constants, Product DEF Money
<1>2. QED
  BY <1>1, Constants, Product DEF InitialCash

\* Execution prices are positive, a buy's at least the price of the candle.
LEMMA ExecutionPrices ==
  ASSUME NEW p \in Prices
  PROVE  /\ BuyPrice(p) \in Int /\ BuyPrice(p) >= p * SlipDen
         /\ BuyPrice(p) > 0
         /\ SellPrice(p) \in Int /\ SellPrice(p) > 0
         /\ p * SlipDen \in Int /\ p * SlipDen > 0
<1> USE Constants
<1>1. p * SlipDen \in Int /\ p * SlipDen > 0
  BY Product
<1>2. p * SlipNum \in Int /\ p * SlipNum >= 0
  BY Product
<1>3. BuyPrice(p) = p * SlipDen + p * SlipNum
  BY DEF BuyPrice
<1>4. SellPrice(p) \in Int /\ SellPrice(p) > 0
  BY Product, SlipDen - SlipNum \in Int DEF SellPrice
<1>5. QED
  BY <1>1, <1>2, <1>3, <1>4

\* A buy costs at least the value of its lots at the price of the candle, a sale
\* yields a non-negative amount, and more lots never cost less.
LEMMA Fills ==
  ASSUME NEW p \in Prices, NEW q \in Int, q >= 0
  PROVE  /\ BuyCost(q, p) \in Int /\ BuyCost(q, p) >= 0
         /\ BuyCost(q, p) >= q * BuyPrice(p) * FeeDen
         /\ q * BuyPrice(p) * FeeDen \in Int
         /\ q * BuyPrice(p) * FeeDen >= q * p * Money
         /\ q * p * Money \in Int
         /\ q > 0 => BuyCost(q, p) > 0
         /\ SellProceeds(q, p) \in Int /\ SellProceeds(q, p) >= 0
         /\ \A n \in Int : q <= n => BuyCost(q, p) <= BuyCost(n, p)
<1> USE Constants, ExecutionPrices
<1> DEFINE w == q * BuyPrice(p)
           v == q * SellPrice(p)
<1>1. w \in Int /\ w >= 0 /\ (q > 0 => w > 0)
  BY Product
<1>2. v \in Int /\ v >= 0
  BY Product
<1>3. w * FeeDen \in Int /\ w * FeeNum \in Int /\ w * FeeNum >= 0
  BY <1>1, Product
<1>4. w * FeeDen >= 0 /\ (q > 0 => w * FeeDen > 0)
  BY <1>1, Product
<1>5. BuyCost(q, p) = w * FeeDen + w * FeeNum
  BY <1>1 DEF BuyCost
<1>6. w * FeeDen >= q * p * Money
  <2>1. q * (p * SlipDen) \in Int /\ q * (p * SlipDen) <= w
    BY Monotone, Product
  <2>2. (q * (p * SlipDen)) * FeeDen <= w * FeeDen
    BY <2>1, <1>1, Monotone
  <2>3. q * p * Money = (q * (p * SlipDen)) * FeeDen
    BY DEF Money
  <2>4. QED
    BY <2>2, <2>3
<1>7. SellProceeds(q, p) \in Int /\ SellProceeds(q, p) >= 0
  BY <1>2, Product, FeeDen - FeeNum \in Int DEF SellProceeds
<1>8. ASSUME NEW n \in Int, q <= n
      PROVE  BuyCost(q, p) <= BuyCost(n, p)
  <2>1. n * BuyPrice(p) \in Int /\ w <= n * BuyPrice(p)
    BY <1>8, Monotone, Product
  <2>2. QED
    BY <2>1, <1>1, Monotone, FeeDen + FeeNum \in Int DEF BuyCost
<1>9. q * p * Money \in Int
  BY Product, MoneyPositive
<1>10. QED
  BY <1>1, <1>3, <1>4, <1>5, <1>6, <1>7, <1>8, <1>9
\* The allocation admits a non-negative number of lots, whose cost never exceeds
\* MaxCost.
LEMMA Allocation ==
  ASSUME NEW p \in Prices
  PROVE  /\ MaxNotional \in Int /\ MaxNotional >= 0
         /\ MaxCost \in Int /\ MaxCost >= 0
         /\ AllocatedLots(p) \in Int
         /\ \A q \in Int : q >= 0 /\ q <= AllocatedLots(p)
                          => 1000 * BuyCost(q, p) <= MaxCost
<1> USE Constants
<1> DEFINE rate == (SlipDen + SlipNum) * (FeeDen + FeeNum)
<1>1. MaxNotional \in Int /\ MaxNotional >= 0
  BY Product DEF MaxNotional, Smaller
<1>2. rate \in Int /\ rate >= 0
  BY Product, SlipDen + SlipNum \in Int, FeeDen + FeeNum \in Int
<1>3. MaxCost = MaxNotional * rate
  BY <1>1 DEF MaxCost
<1>4. MaxCost \in Int /\ MaxCost >= 0
  BY <1>1, <1>2, <1>3, Product
<1>5. /\ AllocatedLots(p) \in Int
      /\ (1000 * p) * AllocatedLots(p) <= MaxNotional
  BY <1>1, Quotient, 1000 * p \in Int, 1000 * p > 0 DEF AllocatedLots
<1>6. ASSUME NEW q \in Int, q >= 0, q <= AllocatedLots(p)
      PROVE  1000 * BuyCost(q, p) <= MaxCost
  <2>1. q * (1000 * p) <= AllocatedLots(p) * (1000 * p)
    BY <1>5, <1>6, Monotone, 1000 * p \in Int
  <2>2. q * (1000 * p) \in Int /\ q * (1000 * p) <= MaxNotional
    BY <2>1, <1>1, <1>5, Product, 1000 * p \in Int
  <2>3. (q * (1000 * p)) * rate <= MaxNotional * rate
    BY <2>2, <1>1, <1>2, Monotone
  <2>4. 1000 * BuyCost(q, p) = (q * (1000 * p)) * rate
    BY DEF BuyCost, BuyPrice
  <2>5. QED
    BY <2>3, <2>4, <1>3
<1>7. QED
  BY <1>1, <1>4, <1>5, <1>6

\* compute_position_size never exceeds the allocation, whatever the intensity, the
\* ATR and the drawdown.
LEMMA Sizing ==
  ASSUME NEW p \in Prices, NEW a \in Atrs, NEW i \in Intensity,
         NEW top \in Int, top > 0, NEW equity \in Int
  PROVE  /\ PositionSize(i, p, a, top, equity) \in Int
         /\ PositionSize(i, p, a, top, equity) <= AllocatedLots(p)
<1> USE Constants
<1>1. AllocatedLots(p) \in Int
  BY Allocation
<1>2. DrawdownScale(top, equity) \in Int
  <2>1. DrawdownPm * top \in Int /\ DrawdownPm * top > 0
    BY Product
  <2>2. 100 * (DrawdownPm * top - 1000 * (top - equity)) \in Int
    BY <2>1
  <2>3. QED
    BY <2>1, <2>2, Quotient DEF DrawdownScale
<1>3. BudgetPm[i] \in Int
  BY EngineAssumption DEF EngineAssumption, Intensity
<1>4. Capital * BudgetPm[i] * DrawdownScale(top, equity) \in Int
  BY <1>2, <1>3, Product
<1>5. ASSUME a # 0
      PROVE  (Capital * BudgetPm[i] * DrawdownScale(top, equity))
                 \div (100000 * StopAtr * a) \in Int
  <2>1. StopAtr * a \in Int /\ StopAtr * a > 0
    BY <1>5, Product
  <2>2. 100000 * StopAtr * a \in Int /\ 100000 * StopAtr * a > 0
    BY <2>1
  <2>3. QED
    BY <2>2, <1>4, Quotient
<1>6. QED
  BY <1>1, <1>5 DEF PositionSize, Smaller

\* A buy that apply_buy accepts is never larger than the approved size, although
\* _open_position may recompute the quantity: the cut only replaces a quantity
\* that costs more than the cash by one that does not.
LEMMA Funding ==
  ASSUME NEW p \in Prices, NEW n \in Int, cash \in Int,
         NEW q, q = FundedLots(n, p)
  PROVE  /\ q \in Int
         /\ q >= 0 /\ CashCovers(q, p) => q <= n
<1> USE Constants
<1>1. BuyPrice(p) * FeeDen \in Int /\ BuyPrice(p) * FeeDen > 0
  BY ExecutionPrices, Product
<1>2. /\ 1001 * BuyPrice(p) * FeeDen \in Int
      /\ 1001 * BuyPrice(p) * FeeDen > 0
  BY <1>1, ExecutionPrices
<1>3. q \in Int
  BY <1>2, Quotient, cash * 1000 \in Int DEF FundedLots
<1>4. ASSUME q >= 0, CashCovers(q, p), ~(q <= n)
      PROVE  FALSE
  <2>1. CASE BuyCost(n, p) <= cash
    BY <2>1, <1>4 DEF FundedLots
  <2>2. CASE ~(BuyCost(n, p) <= cash)
    <3>1. CASE n >= 0
      BY <3>1, <2>2, <1>3, <1>4, Fills DEF CashCovers
    <3>2. CASE n < 0
      <4>1. BuyCost(n, p) = n * (BuyPrice(p) * (FeeDen + FeeNum))
        BY ExecutionPrices DEF BuyCost
      <4>2. /\ BuyPrice(p) * (FeeDen + FeeNum) \in Int
            /\ BuyPrice(p) * (FeeDen + FeeNum) >= 0
        BY ExecutionPrices, Product, FeeDen + FeeNum \in Int
      <4>3. BuyCost(n, p) \in Int /\ BuyCost(n, p) <= 0
        BY <4>1, <4>2, <3>2
      <4>4. BuyCost(q, p) \in Int /\ BuyCost(q, p) >= 0
        BY <1>3, <1>4, Fills
      <4>5. QED
        BY <4>3, <4>4, <2>2, <1>4 DEF CashCovers
    <3>3. QED
      BY <3>1, <3>2
  <2>3. QED
    BY <2>1, <2>2
<1>5. QED
  BY <1>3, <1>4
-----------------------------------------------------------------------------
(* The inductive invariant of every configuration.  A sale divides by the  *)
(* quantity held and sizing by the peak, so types alone are not inductive:  *)
(* the managed position must be covered by the portfolio and the peak must  *)
(* not fall below the initial capital.                                     *)

Covered ==
  /\ position.quantity <= quantity
  /\ position # Flat => position.quantity > 0

Sound == TypeOK /\ Covered /\ peak >= InitialCash

\* The types of a sound state, one by one.
LEMMA SoundTypes ==
  ASSUME Sound
  PROVE  /\ cash \in Int /\ quantity \in Nat /\ basis \in Int /\ peak \in Int
         /\ realizedPnl \in Int /\ realizedToday \in Int
         /\ trades \in Seq([day : Nat, pnl : Int])
         /\ position \in Holding
         /\ position.quantity \in Nat /\ position.entry \in Nat
         /\ position.stop \in Int /\ position.highest \in Nat
         /\ position.quantity <= quantity
         /\ position # Flat => position.quantity > 0
         /\ peak >= InitialCash /\ peak > 0
<1>1. position \in Holding
  BY DEF Sound, TypeOK
<1>2. /\ position.quantity \in Nat /\ position.entry \in Nat
      /\ position.stop \in Int /\ position.highest \in Nat
  BY <1>1 DEF Holding
<1>3. peak \in Int /\ peak >= InitialCash
  BY DEF Sound, TypeOK
<1>4. peak > 0
  BY <1>3, MoneyPositive
<1>5. QED
  BY <1>1, <1>2, <1>3, <1>4 DEF Sound, TypeOK, Covered

\* What the steps of on_price compute from a sound state.
LEMMA Marking ==
  ASSUME Sound, NEW p \in Prices, NEW a \in Atrs, NEW t \in 0..MaxTimestamp
  PROVE  /\ Equity(p) \in Int
         /\ Marked(p) \in Int /\ Marked(p) >= peak /\ Marked(p) >= Equity(p)
         /\ PnlOf(t) \in Int
         /\ t \div DayLength \in Nat
         /\ peak > 0
<1>1. p \in Int /\ p > 0 /\ t \in Int /\ t >= 0
  BY Constants
<1>2. quantity * p * Money \in Int
  BY <1>1, SoundTypes, MoneyPositive, Product
<1>3. Equity(p) \in Int
  BY <1>2, SoundTypes DEF Equity
<1>4. t \div DayLength \in Nat
  BY <1>1, Constants, Quotient
<1>5. PnlOf(t) \in Int
  BY SoundTypes DEF PnlOf
<1>6. QED
  BY <1>3, <1>4, <1>5, SoundTypes, SMTT(40) DEF Marked, Larger

\* Trailing changes neither the size of a position nor whether there is one.
LEMMA Trailing ==
  ASSUME Sound, NEW p \in Prices, NEW a \in Atrs
  PROVE  /\ Trailed(p, a) \in Holding
         /\ Trailed(p, a).quantity = position.quantity
         /\ Trailed(p, a) # Flat <=> position # Flat
<1>1. CASE position = Flat
  BY <1>1 DEF Trailed, Flat, NoTarget, Holding
<1>2. CASE position # Flat
  <2> DEFINE top == Larger(position.highest, p * SlipDen)
             stop == IF a = 0 THEN position.stop
                     ELSE Larger(position.stop, top - TrailAtr * a * SlipDen)
  <2>1. top \in Nat
    BY SoundTypes, ExecutionPrices DEF Larger
  <2>2. TrailAtr * a * SlipDen \in Int
    BY Constants, Product
  <2>3. stop \in Int
    BY <2>1, <2>2, SoundTypes, SMTT(40) DEF Larger
  <2>4. Trailed(p, a) = [position EXCEPT !.highest = top, !.stop = stop]
    BY <1>2 DEF Trailed
  <2> HIDE DEF top, stop
  <2>5. Trailed(p, a) \in Holding
    BY <2>1, <2>3, <2>4, SoundTypes DEF Holding
  <2>6. Trailed(p, a).quantity = position.quantity
    BY <2>4, SoundTypes DEF Holding
  <2>7. QED
    BY <1>2, <2>5, <2>6, SoundTypes DEF Flat
<1>3. QED
  BY <1>1, <1>2

\* An exit only happens to an open position.
LEMMA ExitNeedsPosition ==
  ASSUME Sound, NEW p \in Prices, NEW a \in Atrs, MustExit(p, a)
  PROVE  position # Flat
  BY Trailing DEF MustExit, StopHit, TargetHit

\* Closing sells the managed quantity, and only books what it yields.
LEMMA Closing ==
  ASSUME Sound, position # Flat, NEW p \in Prices, NEW t \in 0..MaxTimestamp,
         NEW top \in Int, top >= InitialCash, NEW reason \in Reason,
         Close(p, t, top, reason)
  PROVE  /\ cash' \in Int /\ cash' = cash + SellProceeds(position.quantity, p)
         /\ cash' >= cash
         /\ quantity' \in Nat /\ quantity' = quantity - position.quantity
         /\ basis' \in Int /\ realizedPnl' \in Int
         /\ AllocatedCost(position.quantity) \in Int
         /\ basis' = basis - AllocatedCost(position.quantity)
         /\ realizedPnl' = realizedPnl + SellProceeds(position.quantity, p)
                                      - AllocatedCost(position.quantity)
         /\ trades' \in Seq([day : Nat, pnl : Int])
         /\ realizedToday' \in Int
         /\ position' = Flat
         /\ peak' \in Int /\ peak' >= top
         /\ peak' >= cash' + quantity' * SellPrice(p) * FeeDen
         /\ event' \in Event
<1> DEFINE q == position.quantity
<1>1. q \in Int /\ q > 0 /\ quantity \in Int /\ q <= quantity
  BY SoundTypes
<1>2. SellProceeds(q, p) \in Int /\ SellProceeds(q, p) >= 0
  BY <1>1, Fills
<1>3. AllocatedCost(q) \in Int
  <2>1. basis * q \in Int
    BY <1>1, SoundTypes, Product
  <2>2. QED
    BY <1>1, <2>1, Quotient DEF AllocatedCost
<1>4. NetPnl(q, p) = SellProceeds(q, p) - AllocatedCost(q)
  BY DEF NetPnl
<1>5. /\ cash' = cash + SellProceeds(q, p)
      /\ quantity' = quantity - q
      /\ basis' = basis - AllocatedCost(q)
      /\ realizedPnl' = realizedPnl + NetPnl(q, p)
      /\ trades' = Append(trades, [day |-> t \div DayLength, pnl |-> NetPnl(q, p)])
      /\ realizedToday' = PnlOf(t) + NetPnl(q, p)
      /\ position' = Flat
      /\ peak' = PeakAfter(top, cash' + quantity' * SellPrice(p) * FeeDen)
      /\ event' = [action |-> "SELL", filled |-> TRUE, reason |-> reason]
  BY DEF Close
<1> HIDE DEF q
<1>6. quantity' \in Nat /\ cash' \in Int /\ cash' >= cash
  <2>1. cash \in Int
    BY SoundTypes
  <2>2. QED
    BY <1>1, <1>2, <1>5, <2>1
<1>7. quantity' * SellPrice(p) * FeeDen \in Int
  BY <1>6, ExecutionPrices, Constants, Product
<1>8. /\ peak' \in Int /\ peak' >= top
      /\ peak' >= cash' + quantity' * SellPrice(p) * FeeDen
  BY <1>5, <1>6, <1>7 DEF PeakAfter, Larger
<1>9. NetPnl(q, p) \in Int
  BY <1>2, <1>3, <1>4
<1>10. /\ basis' \in Int /\ realizedPnl' \in Int /\ realizedToday' \in Int
       /\ realizedPnl' = realizedPnl + SellProceeds(q, p) - AllocatedCost(q)
  <2>1. cash \in Int /\ basis \in Int /\ realizedPnl \in Int /\ PnlOf(t) \in Int
    BY SoundTypes DEF PnlOf
  <2>2. /\ cash' = cash + SellProceeds(q, p)
        /\ basis' = basis - AllocatedCost(q)
        /\ realizedPnl' = realizedPnl + NetPnl(q, p)
        /\ realizedToday' = PnlOf(t) + NetPnl(q, p)
    BY <1>5
  <2>3. QED
    BY <1>2, <1>3, <1>4, <1>9, <2>1, <2>2
<1>11. trades' \in Seq([day : Nat, pnl : Int])
  <2>1. t \div DayLength \in Nat
    BY Constants, Quotient
  <2>2. [day |-> t \div DayLength, pnl |-> NetPnl(q, p)] \in [day : Nat, pnl : Int]
    BY <2>1, <1>9
  <2>3. QED
    BY <1>5, <2>2, SoundTypes
<1>12. event' \in Event
  BY <1>5 DEF Event, Action
<1>13. QED
  BY <1>3, <1>5, <1>6, <1>8, <1>10, <1>11, <1>12 DEF q
\* A call that fills nothing leaves the account alone and keeps a position's size.
LEMMA Waiting ==
  ASSUME Sound, NEW p \in Prices, NEW a \in Atrs, NEW t \in 0..MaxTimestamp,
         UNCHANGED account, position' = Trailed(p, a), peak' = Marked(p),
         realizedToday' = PnlOf(t)
  PROVE  /\ cash' \in Int /\ quantity' \in Nat /\ basis' \in Int
         /\ realizedPnl' \in Int /\ realizedToday' \in Int
         /\ trades' \in Seq([day : Nat, pnl : Int])
         /\ position' \in Holding
         /\ Covered'
         /\ peak' \in Int /\ peak' >= InitialCash
<1>1. /\ cash' = cash /\ quantity' = quantity /\ basis' = basis
      /\ realizedPnl' = realizedPnl /\ trades' = trades
  BY DEF account
<1>2. /\ position' \in Holding /\ position'.quantity = position.quantity
      /\ position' # Flat => position # Flat
  BY Trailing
<1>3. Covered'
  BY <1>1, <1>2, SoundTypes DEF Covered
<1>4. peak' \in Int /\ peak' >= InitialCash
  BY SoundTypes, Marking, MoneyPositive
<1>5. realizedToday' \in Int
  BY Marking
<1>6. QED
  BY <1>1, <1>2, <1>3, <1>4, <1>5, SoundTypes

\* Every rejection has a reason that names the rule.
LEMMA Verdicts ==
  ASSUME NEW act, NEW i, NEW p, NEW a, NEW pnl, NEW equity,
         Verdict(act, i, p, a, pnl, equity) \notin Approvals
  PROVE  Verdict(act, i, p, a, pnl, equity) \in Reason
  BY DEF Verdict, Approvals, Reason

\* A buy is paid in full and at most as large as the allocation, costs at most
\* MaxCost, and the position it opens has its quantity.
LEMMA Buying ==
  ASSUME Sound, NEW i \in Intensity, NEW p \in Prices, NEW a \in Atrs,
         NEW t \in 0..MaxTimestamp, Buy(i, p, a, t)
  PROVE  \E q \in Int :
         /\ q > 0 /\ quantity' = quantity + q
         /\ BuyCost(q, p) \in Int /\ BuyCost(q, p) > 0
         /\ BuyCost(q, p) <= cash
         /\ 1000 * BuyCost(q, p) <= MaxCost
         /\ BuyCost(q, p) >= q * p * Money /\ q * p * Money \in Int
         /\ cash' = cash - BuyCost(q, p)
         /\ basis' = basis + BuyCost(q, p)
         /\ realizedPnl' = realizedPnl /\ trades' = trades
         /\ position' \in Holding /\ position'.quantity = q
         /\ peak' \in Int /\ peak' >= Marked(p)
<1> DEFINE n == PositionSize(i, p, a, peak, Equity(p))
           q == FundedLots(n, p)
<1>1. n \in Int /\ n <= AllocatedLots(p)
  BY SoundTypes, Marking, Sizing
<1>2. /\ q > 0 /\ CashCovers(q, p)
      /\ cash' = cash - BuyCost(q, p)
      /\ quantity' = quantity + q
      /\ basis' = basis + BuyCost(q, p)
      /\ position' = Bracket(q, p, a)
      /\ peak' = PeakAfter(Marked(p), cash' + quantity' * BuyPrice(p) * FeeDen)
      /\ realizedPnl' = realizedPnl /\ trades' = trades
  BY DEF Buy, BuyOf
<1>3. q \in Int /\ q <= n
  <2>1. cash \in Int
    BY SoundTypes
  <2> HIDE DEF n
  <2>2. q \in Int /\ (q >= 0 /\ CashCovers(q, p) => q <= n)
    BY <1>1, <2>1, Funding
  <2>3. QED
    BY <1>2, <2>2
<1> HIDE DEF q, n
<1>4. /\ BuyCost(q, p) \in Int /\ BuyCost(q, p) > 0
      /\ BuyCost(q, p) >= q * p * Money /\ q * p * Money \in Int
  BY <1>2, <1>3, Fills
<1>5. 1000 * BuyCost(q, p) <= MaxCost
  BY <1>1, <1>2, <1>3, Allocation
<1>6. position' \in Holding /\ position'.quantity = q
  <2>1. /\ BuyPrice(p) \in Nat /\ p * SlipDen \in Int
        /\ (p - StopAtr * a) * SlipDen \in Int
        /\ (p + TargetR * StopAtr * a) * SlipDen \in Nat
    <3>1. p \in Nat /\ a \in Nat /\ SlipDen \in Nat /\ StopAtr \in Nat
          /\ TargetR \in Nat
      BY Constants
    <3>2. StopAtr * a \in Int /\ TargetR * StopAtr \in Nat
      BY <3>1, Product
    <3>3. TargetR * StopAtr * a \in Int /\ TargetR * StopAtr * a >= 0
      BY <3>1, <3>2, Product
    <3>4. QED
      BY <3>1, <3>2, <3>3, ExecutionPrices, Product
  <2>2. QED
    BY <1>2, <1>3, <2>1 DEF Bracket, NoStop, InitialStop, TakeProfit,
       Holding, NoTarget
<1>7. peak' \in Int /\ peak' >= Marked(p)
  <2>0. /\ cash' = cash - BuyCost(q, p) /\ cash \in Int
        /\ quantity' = quantity + q /\ quantity \in Int
    BY <1>2, SoundTypes
  <2>1. cash' \in Int /\ quantity' \in Int
    BY <1>3, <1>4, <2>0
  <2>2. cash' + quantity' * BuyPrice(p) * FeeDen \in Int
    BY <2>1, ExecutionPrices, Constants, Product
  <2>3. QED
    BY <1>2, <2>2, Marking DEF PeakAfter, Larger
<1>8. QED
  BY <1>2, <1>3, <1>4, <1>5, <1>6, <1>7 DEF CashCovers
\* The clock of a call.
LEMMA Ticking ==
  ASSUME NEW p \in Prices, NEW t \in 0..MaxTimestamp, ticks \in Nat, Tick(p, t)
  PROVE  {day', lastTimestamp', lastPrice', ticks'} \subseteq Nat
<1>1. t \in Nat /\ p \in Nat
  BY Constants
<1>2. t \div DayLength \in Nat
  BY <1>1, Constants, Quotient
<1>3. QED
  BY <1>1, <1>2 DEF Tick

\* No position is a position of size zero.
LEMMA FlatHolding == Flat \in Holding /\ Flat.quantity = 0
<1>1. /\ 0 \in Nat /\ 0 \in Int
      /\ NoTarget \in Nat \cup {NoTarget}
  OBVIOUS
<1>2. QED
  BY <1>1 DEF Flat, Holding

\* A sound state starts the session, and every step keeps it.
LEMMA SoundInit == Init => Sound
<1> SUFFICES ASSUME Init PROVE Sound
  OBVIOUS
<1>1. cash = InitialCash /\ peak = InitialCash /\ InitialCash \in Int
  BY MoneyPositive DEF Init
<1>2. position = Flat /\ position \in Holding /\ position.quantity = 0
  BY FlatHolding DEF Init
<1>3. event \in Event
  BY DEF Init, Event, Action, Reason
<1>4. /\ quantity = 0 /\ basis = 0 /\ realizedPnl = 0
      /\ trades \in Seq([day : Nat, pnl : Int])
      /\ realizedToday = 0 /\ killSwitch \in BOOLEAN
      /\ {day, lastTimestamp, lastPrice, ticks} \subseteq Nat
      /\ {ordersRejected, dailyLossTriggered, dailyLossCycles} \subseteq Nat
  <2>1. << >> \in Seq([day : Nat, pnl : Int])
    OBVIOUS
  <2>2. /\ quantity = 0 /\ basis = 0 /\ realizedPnl = 0 /\ trades = << >>
        /\ realizedToday = 0 /\ killSwitch = FALSE
        /\ day = 0 /\ lastTimestamp = 0 /\ lastPrice = 0 /\ ticks = 0
        /\ ordersRejected = 0 /\ dailyLossTriggered = 0 /\ dailyLossCycles = 0
    BY DEF Init
  <2>3. trades \in Seq([day : Nat, pnl : Int])
    BY <2>1, <2>2, Zenon
  <2>4. killSwitch \in BOOLEAN
    BY <2>2, Zenon
  <2>5. QED
    BY <2>2, <2>3, <2>4
<1>5. TypeOK
  BY <1>1, <1>2, <1>3, <1>4 DEF TypeOK
<1>6. Covered
  BY <1>2, <1>4 DEF Covered
<1>7. QED
  BY <1>1, <1>5, <1>6 DEF Sound

\* Every step keeps a state sound: exits sell what is held, sizes are divided by a
\* positive peak.
LEMMA SoundStep == Sound /\ [Next]_vars => Sound'
<1> SUFFICES ASSUME Sound, [Next]_vars PROVE Sound'
  OBVIOUS
<1>1. ASSUME NEW p \in Prices, NEW a \in Atrs, NEW t \in 0..MaxTimestamp,
             OnPrice(p, a, t)
      PROVE  Sound'
  <2> DEFINE counted ==
        {ordersRejected', dailyLossTriggered', dailyLossCycles'} \subseteq Nat
  <2>1. /\ {day', lastTimestamp', lastPrice', ticks'} \subseteq Nat
        /\ killSwitch' \in BOOLEAN
    <3>1. ticks \in Nat /\ killSwitch \in BOOLEAN
      BY DEF Sound, TypeOK
    <3>2. QED
      BY <1>1, <3>1, Ticking DEF OnPrice
  <2>2. {ordersRejected, dailyLossTriggered, dailyLossCycles} \subseteq Nat
    BY DEF Sound, TypeOK
  <2>3. CASE ProtectiveExit(p, a, t)
    <3>1. position # Flat
      BY <2>3, ExitNeedsPosition DEF ProtectiveExit
    <3>2. ExitReason(p, Trailed(p, a)) \in Reason
      BY DEF ExitReason, Reason
    <3>3. /\ peak \in Int /\ peak >= InitialCash /\ InitialCash \in Int
      BY SoundTypes, MoneyPositive
    <3>4. Close(p, t, peak, ExitReason(p, Trailed(p, a))) /\ counted
      BY <2>2, <2>3 DEF ProtectiveExit, counters
    <3>5. /\ cash' \in Int /\ quantity' \in Nat
          /\ basis' \in Int /\ realizedPnl' \in Int /\ realizedToday' \in Int
          /\ trades' \in Seq([day : Nat, pnl : Int])
          /\ position' = Flat /\ peak' \in Int /\ peak' >= peak /\ event' \in Event
      BY <3>1, <3>2, <3>3, <3>4, Closing
    <3>6. position' \in Holding /\ position'.quantity = 0
      BY <3>5, FlatHolding
    <3>7. peak' >= InitialCash
      BY <3>3, <3>5
    <3>8. TypeOK' /\ Covered'
      BY <2>1, <3>4, <3>5, <3>6 DEF TypeOK, Covered
    <3>9. QED
      BY <3>7, <3>8 DEF Sound, InitialCash, Money
  <2>4. ASSUME NEW i \in Intensity, Sell(i, p, a, t)
        PROVE  Sound'
    <3>1. position # Flat
      BY <2>4 DEF Sell, Judged, Verdict
    <3>2. "llm_sell" \in Reason
      BY DEF Reason
    <3>3. /\ Marked(p) \in Int /\ Marked(p) >= InitialCash /\ InitialCash \in Int
      BY SoundTypes, MoneyPositive, Marking
    <3>4. Close(p, t, Marked(p), "llm_sell") /\ counted
      BY <2>2, <2>4 DEF Sell, counters
    <3>5. /\ cash' \in Int /\ quantity' \in Nat
          /\ basis' \in Int /\ realizedPnl' \in Int /\ realizedToday' \in Int
          /\ trades' \in Seq([day : Nat, pnl : Int])
          /\ position' = Flat /\ peak' \in Int /\ peak' >= Marked(p)
          /\ event' \in Event
      BY <3>1, <3>2, <3>3, <3>4, Closing
    <3>6. position' \in Holding /\ position'.quantity = 0
      BY <3>5, FlatHolding
    <3>7. peak' >= InitialCash
      BY <3>3, <3>5
    <3>8. TypeOK' /\ Covered'
      BY <2>1, <3>4, <3>5, <3>6 DEF TypeOK, Covered
    <3>9. QED
      BY <3>7, <3>8 DEF Sound, InitialCash, Money
  <2>5. ASSUME NEW i \in Intensity, Buy(i, p, a, t)
        PROVE  Sound'
    <3>1. PICK q \in Int :
            /\ q > 0 /\ quantity' = quantity + q
            /\ BuyCost(q, p) \in Int
            /\ cash' = cash - BuyCost(q, p)
            /\ basis' = basis + BuyCost(q, p)
            /\ realizedPnl' = realizedPnl /\ trades' = trades
            /\ position' \in Holding /\ position'.quantity = q
            /\ peak' \in Int /\ peak' >= Marked(p)
      BY <2>5, Buying
    <3>2. /\ cash' \in Int /\ quantity' \in Nat /\ basis' \in Int
          /\ quantity' >= q
      <4>1. cash \in Int /\ quantity \in Nat /\ basis \in Int
        BY SoundTypes
      <4>2. QED
        BY <3>1, <4>1
    <3>3. peak' >= InitialCash
      <4>1. /\ Marked(p) \in Int /\ Marked(p) >= peak /\ peak \in Int
            /\ peak >= InitialCash /\ InitialCash \in Int
        BY SoundTypes, MoneyPositive, Marking
      <4>2. QED
        BY <3>1, <4>1
    <3>4. realizedToday' \in Int /\ counted
      BY <2>2, <2>5, Marking DEF Buy, counters
    <3>5. event' \in Event
      BY <2>5 DEF Buy, Event, Action, Reason
    <3>6. realizedPnl' \in Int /\ trades' \in Seq([day : Nat, pnl : Int])
      BY <3>1, SoundTypes
    <3>7. QED
      BY <2>1, <3>1, <3>2, <3>3, <3>4, <3>5, <3>6 DEF Sound, TypeOK, Covered
  <2>6. ASSUME UNCHANGED account, position' = Trailed(p, a), peak' = Marked(p),
               realizedToday' = PnlOf(t), event' \in Event, counted
        PROVE  Sound'
    <3>1. /\ cash' \in Int /\ quantity' \in Nat /\ basis' \in Int
          /\ realizedPnl' \in Int /\ realizedToday' \in Int
          /\ trades' \in Seq([day : Nat, pnl : Int])
          /\ position' \in Holding /\ Covered'
          /\ peak' \in Int /\ peak' >= InitialCash
      BY <2>6, Waiting
    <3>2. TypeOK'
      BY <2>1, <2>6, <3>1 DEF TypeOK
    <3>3. QED
      BY <3>1, <3>2, MoneyPositive DEF Sound, InitialCash, Money
  <2>7. CASE Hold(p, a, t)
    <3>1. event' \in Event
      BY <2>7 DEF Hold, Event, Action, Reason
    <3>2. counted
      <4>1. dailyLossCycles \in Nat
        BY <2>2
      <4>2. /\ ordersRejected' = ordersRejected
            /\ dailyLossTriggered' = dailyLossTriggered
            /\ dailyLossCycles' =
                 dailyLossCycles + (IF DailyLossExceeded(PnlOf(t)) THEN 1 ELSE 0)
        BY <2>7 DEF Hold
      <4>3. dailyLossCycles' \in Nat
        BY <4>1, <4>2
      <4>4. QED
        BY <2>2, <4>2, <4>3
    <3>3. QED
      BY <2>6, <2>7, <3>1, <3>2 DEF Hold
  <2>8. ASSUME NEW i \in Intensity, NEW act \in Action, Reject(act, i, p, a, t)
        PROVE  Sound'
    <3>1. Judged(act, i, p, a, t) \in Reason
      BY <2>8, Verdicts DEF Reject, Judged
    <3>2. event' \in Event
      BY <2>8, <3>1 DEF Reject, Event
    <3>3. counted
      BY <2>2, <2>8 DEF Reject
    <3>4. QED
      BY <2>6, <2>8, <3>2, <3>3 DEF Reject
  <2>9. ASSUME NEW i \in Intensity, BuyRaises(i, p, a, t)
        PROVE  Sound'
    <3>1. event' \in Event
      BY <2>9 DEF BuyRaises, Event, Action, Reason
    <3>2. counted
      BY <2>2, <2>9 DEF BuyRaises, counters
    <3>3. QED
      BY <2>6, <2>9, <3>1, <3>2 DEF BuyRaises
  <2>10. QED
    BY <1>1, <2>3, <2>4, <2>5, <2>7, <2>8, <2>9 DEF OnPrice
<1>2. CASE Activate
  BY <1>2 DEF Activate, Sound, TypeOK, Covered, account, counters, clock
<1>3. ASSUME NEW by, NEW approval, Reset(by, approval)
      PROVE  Sound'
  BY <1>3 DEF Reset, Sound, TypeOK, Covered, account, counters, clock
<1>4. CASE UNCHANGED vars
  BY <1>4 DEF vars, Sound, TypeOK, Covered, account, counters, clock
<1>5. QED
  BY <1>1, <1>2, <1>3, <1>4 DEF Next

\* Every reachable state of every configuration is sound.
THEOREM AlwaysSound == Spec => []Sound
BY SoundInit, SoundStep, PTL DEF Spec

\* The types of the engine and its portfolio, for every configuration.
THEOREM TypeCorrect == Spec => []TypeOK
<1>1. Sound => TypeOK
  BY DEF Sound
<1>2. QED
  BY <1>1, AlwaysSound, PTL
-----------------------------------------------------------------------------
(* What a step does to the account: nothing, a sale or a buy.              *)

\* The account stays; the price the engine saw last is below the peak, or old.
Kept ==
  /\ UNCHANGED account
  /\ position'.quantity = position.quantity
  /\ position' # Flat <=> position # Flat
  /\ peak' \in Int
  /\ \/ peak' = peak /\ lastPrice' = lastPrice
     \/ \E p \in Prices : /\ lastPrice' = p
                          /\ peak' >= Equity(p)
                          /\ peak' = Larger(peak, Equity(p))

Sold(p) ==
  /\ position # Flat
  /\ SellProceeds(position.quantity, p) \in Int
  /\ SellProceeds(position.quantity, p) >= 0
  /\ cash' = cash + SellProceeds(position.quantity, p)
  /\ quantity' = quantity - position.quantity
  /\ AllocatedCost(position.quantity) \in Int
  /\ basis' = basis - AllocatedCost(position.quantity)
  /\ realizedPnl' = realizedPnl + SellProceeds(position.quantity, p)
                               - AllocatedCost(position.quantity)
  /\ position' = Flat
  /\ lastPrice' = p
  /\ peak' \in Int /\ peak' >= peak
  /\ peak' >= cash' + quantity' * SellPrice(p) * FeeDen

Bought(q, p) ==
  /\ ~SlotsFull /\ ~DrawdownExceeded(peak, Equity(p))
  /\ q > 0 /\ quantity' = quantity + q
  /\ BuyCost(q, p) \in Int /\ BuyCost(q, p) > 0 /\ BuyCost(q, p) <= cash
  /\ 1000 * BuyCost(q, p) <= MaxCost
  /\ BuyCost(q, p) >= q * p * Money /\ q * p * Money \in Int
  /\ cash' = cash - BuyCost(q, p)
  /\ basis' = basis + BuyCost(q, p)
  /\ realizedPnl' = realizedPnl
  /\ position'.quantity = q
  /\ lastPrice' = p
  /\ peak' \in Int /\ peak' >= peak /\ peak' >= Equity(p)

\* Every step is one of the three.
LEMMA StepCases ==
  ASSUME Sound, [Next]_vars
  PROVE  \/ Kept
         \/ \E p \in Prices : Sold(p)
         \/ \E p \in Prices, q \in Int : Bought(q, p)
<1>1. ASSUME NEW p \in Prices, NEW a \in Atrs, NEW t \in 0..MaxTimestamp,
             OnPrice(p, a, t)
      PROVE  Kept \/ Sold(p) \/ \E q \in Int : Bought(q, p)
  <2>1. lastPrice' = p
    BY <1>1 DEF OnPrice, Tick
  <2>2. /\ Marked(p) \in Int /\ Marked(p) >= peak /\ Marked(p) >= Equity(p)
        /\ Equity(p) \in Int /\ peak \in Int /\ peak >= InitialCash
        /\ InitialCash \in Int
    BY SoundTypes, Marking, MoneyPositive
  <2>3. ASSUME NEW top \in Int, top >= peak, NEW reason \in Reason,
               position # Flat, Close(p, t, top, reason)
        PROVE  Sold(p)
    <3>1. top >= InitialCash
      BY <2>2, <2>3
    <3>2. /\ cash' = cash + SellProceeds(position.quantity, p)
          /\ quantity' = quantity - position.quantity
          /\ AllocatedCost(position.quantity) \in Int
          /\ basis' = basis - AllocatedCost(position.quantity)
          /\ realizedPnl' = realizedPnl + SellProceeds(position.quantity, p)
                                       - AllocatedCost(position.quantity)
          /\ position' = Flat
          /\ peak' \in Int /\ peak' >= top
          /\ peak' >= cash' + quantity' * SellPrice(p) * FeeDen
      BY <2>3, <3>1, Closing
    <3>3. /\ SellProceeds(position.quantity, p) \in Int
          /\ SellProceeds(position.quantity, p) >= 0
      <4>1. position.quantity \in Int /\ position.quantity >= 0
        BY SoundTypes
      <4>2. QED
        BY <4>1, Fills
    <3>4. peak' >= peak
      BY <2>2, <2>3, <3>2
    <3>5. QED
      BY <2>1, <2>3, <3>2, <3>3, <3>4 DEF Sold
  <2>4. CASE ProtectiveExit(p, a, t)
    <3>1. position # Flat
      BY <2>4, ExitNeedsPosition DEF ProtectiveExit
    <3>2. ExitReason(p, Trailed(p, a)) \in Reason
      BY DEF ExitReason, Reason
    <3>3. QED
      BY <2>2, <2>3, <2>4, <3>1, <3>2 DEF ProtectiveExit
  <2>5. ASSUME NEW i \in Intensity, Sell(i, p, a, t)
        PROVE  Sold(p)
    <3>1. position # Flat
      BY <2>5 DEF Sell, Judged, Verdict
    <3>2. "llm_sell" \in Reason
      BY DEF Reason
    <3>3. QED
      BY <2>2, <2>3, <2>5, <3>1, <3>2 DEF Sell
  <2>6. ASSUME NEW i \in Intensity, Buy(i, p, a, t)
        PROVE  \E q \in Int : Bought(q, p)
    <3>1. ~SlotsFull /\ ~DrawdownExceeded(peak, Equity(p))
      BY <2>6 DEF Buy, Judged, Verdict
    <3>2. PICK q \in Int :
            /\ q > 0 /\ quantity' = quantity + q
            /\ BuyCost(q, p) \in Int /\ BuyCost(q, p) > 0
            /\ BuyCost(q, p) <= cash
            /\ 1000 * BuyCost(q, p) <= MaxCost
            /\ BuyCost(q, p) >= q * p * Money /\ q * p * Money \in Int
            /\ cash' = cash - BuyCost(q, p)
            /\ basis' = basis + BuyCost(q, p)
            /\ realizedPnl' = realizedPnl
            /\ position'.quantity = q
            /\ peak' \in Int /\ peak' >= Marked(p)
      BY <2>6, Buying
    <3>3. peak' >= peak /\ peak' >= Equity(p)
      BY <2>2, <3>2
    <3>4. Bought(q, p)
      BY <2>1, <3>1, <3>2, <3>3 DEF Bought
    <3>5. QED
      BY <3>4
  <2>7. ASSUME UNCHANGED account, position' = Trailed(p, a), peak' = Marked(p)
        PROVE  Kept
    <3>1. /\ position'.quantity = position.quantity
          /\ position' # Flat <=> position # Flat
      BY <2>7, Trailing
    <3>2. peak' = Larger(peak, Equity(p))
      BY <2>7 DEF Marked
    <3>3. peak' \in Int /\ peak' >= Equity(p)
      BY <2>2, <2>7
    <3>4. QED
      BY <2>1, <2>7, <3>1, <3>2, <3>3 DEF Kept
  <2>8. CASE Hold(p, a, t)
    BY <2>7, <2>8 DEF Hold
  <2>9. ASSUME NEW i \in Intensity, NEW act \in Action, Reject(act, i, p, a, t)
        PROVE  Kept
    BY <2>7, <2>9 DEF Reject
  <2>10. ASSUME NEW i \in Intensity, BuyRaises(i, p, a, t)
         PROVE  Kept
    BY <2>7, <2>10 DEF BuyRaises
  <2>11. QED
    BY <1>1, <2>4, <2>5, <2>6, <2>8, <2>9, <2>10 DEF OnPrice
<1>2. ASSUME UNCHANGED <<account, position, peak, lastPrice>>
      PROVE  Kept
  BY <1>2, SoundTypes DEF Kept
<1>3. CASE Activate
  BY <1>2, <1>3 DEF Activate, clock
<1>4. ASSUME NEW by, NEW approval, Reset(by, approval)
      PROVE  Kept
  BY <1>2, <1>4 DEF Reset, clock
<1>5. CASE UNCHANGED vars
  BY <1>2, <1>5 DEF vars, clock
<1>6. QED
  BY <1>1, <1>3, <1>4, <1>5 DEF Next
-----------------------------------------------------------------------------
(* The books, in every configuration.                                      *)

\* No fill, exit or rejection ever unbalances the books of Portfolio.
THEOREM BooksAlwaysBalance == Spec => []BooksBalance
<1>1. Init => BooksBalance
  BY MoneyPositive DEF Init, BooksBalance
<1>2. Sound /\ BooksBalance /\ [Next]_vars => BooksBalance'
  <2> SUFFICES ASSUME Sound, BooksBalance, [Next]_vars PROVE BooksBalance'
    OBVIOUS
  <2>1. /\ cash \in Int /\ basis \in Int /\ realizedPnl \in Int
        /\ InitialCash \in Int
    BY SoundTypes, MoneyPositive
  <2>2. CASE Kept
    BY <2>1, <2>2 DEF Kept, account, BooksBalance
  <2>3. ASSUME NEW p \in Prices, Sold(p)
        PROVE  BooksBalance'
    <3>1. /\ SellProceeds(position.quantity, p) \in Int
          /\ AllocatedCost(position.quantity) \in Int
          /\ cash' = cash + SellProceeds(position.quantity, p)
          /\ basis' = basis - AllocatedCost(position.quantity)
          /\ realizedPnl' = realizedPnl + SellProceeds(position.quantity, p)
                                       - AllocatedCost(position.quantity)
      BY <2>3 DEF Sold
    <3>2. cash + basis = InitialCash + realizedPnl
      BY DEF BooksBalance
    <3>3. QED
      BY <2>1, <3>1, <3>2 DEF BooksBalance
  <2>4. ASSUME NEW p \in Prices, NEW q \in Int, Bought(q, p)
        PROVE  BooksBalance'
    BY <2>1, <2>4 DEF Bought, BooksBalance
  <2>5. QED
    BY <2>2, <2>3, <2>4, StepCases
<1>3. QED
  BY <1>1, <1>2, AlwaysSound, PTL DEF Spec

\* Portfolio's cash is never negative: a buy is paid in full, a sale yields at
\* least nothing.
THEOREM CashStaysNonNegative == Spec => []CashNeverNegative
<1>1. Init => CashNeverNegative
  <2>1. Init => cash = InitialCash
    BY DEF Init
  <2>2. QED
    BY <2>1, MoneyPositive DEF CashNeverNegative
<1>2. Sound /\ CashNeverNegative /\ [Next]_vars => CashNeverNegative'
  <2> SUFFICES ASSUME Sound, CashNeverNegative, [Next]_vars
               PROVE  CashNeverNegative'
    OBVIOUS
  <2>1. cash \in Int
    BY SoundTypes
  <2>2. CASE Kept
    BY <2>2 DEF Kept, account, CashNeverNegative
  <2>3. ASSUME NEW p \in Prices, Sold(p)
        PROVE  CashNeverNegative'
    BY <2>1, <2>3 DEF Sold, CashNeverNegative
  <2>4. ASSUME NEW p \in Prices, NEW q \in Int, Bought(q, p)
        PROVE  CashNeverNegative'
    BY <2>1, <2>4 DEF Bought, CashNeverNegative
  <2>5. QED
    BY <2>2, <2>3, <2>4, StepCases
<1>3. QED
  BY <1>1, <1>2, AlwaysSound, PTL DEF Spec

-----------------------------------------------------------------------------
(* One position.  With max_open_positions at most 1 a buy only happens when *)
(* there is no position, so the managed quantity is the quantity held.  The *)
(* bound on the loss and the finality of the halt rest on that.            *)

Managed == Sound /\ NoUnmanagedExposure

\* A free slot means no position.
LEMMA FreeSlot ==
  ASSUME MaxOpenPositions <= 1, ~SlotsFull
  PROVE  position = Flat
  BY EngineAssumption DEF SlotsFull, EngineAssumption

\* With one position every step keeps what is held managed.
LEMMA ManagedStep ==
  ASSUME MaxOpenPositions <= 1
  PROVE  Managed /\ [Next]_vars => NoUnmanagedExposure'
<1> SUFFICES ASSUME Managed, [Next]_vars PROVE NoUnmanagedExposure'
  OBVIOUS
<1>1. Sound /\ quantity = position.quantity /\ (position # Flat => quantity > 0)
  BY DEF Managed, NoUnmanagedExposure
<1>2. quantity \in Nat /\ position.quantity \in Nat
  BY <1>1, SoundTypes
<1>3. CASE Kept
  BY <1>1, <1>3 DEF Kept, account, NoUnmanagedExposure
<1>4. ASSUME NEW p \in Prices, Sold(p)
      PROVE  NoUnmanagedExposure'
  BY <1>1, <1>2, <1>4, FlatHolding DEF Sold, NoUnmanagedExposure
<1>5. ASSUME NEW p \in Prices, NEW q \in Int, Bought(q, p)
      PROVE  NoUnmanagedExposure'
  <2>1. position = Flat
    BY <1>5, FreeSlot DEF Bought
  <2>2. quantity = 0
    BY <1>1, <2>1, FlatHolding
  <2>3. QED
    BY <1>5, <2>2 DEF Bought, NoUnmanagedExposure
<1>6. QED
  BY <1>1, <1>3, <1>4, <1>5, StepCases

\* With one position nothing is ever held that no exit manages: on_price never
\* loses track of a lot.
THEOREM NothingUnmanaged ==
  ASSUME MaxOpenPositions <= 1
  PROVE  Spec => []NoUnmanagedExposure
<1>1. Init => NoUnmanagedExposure
  BY FlatHolding DEF Init, NoUnmanagedExposure
<1>2. Sound /\ NoUnmanagedExposure /\ [Next]_vars => NoUnmanagedExposure'
  BY ManagedStep DEF Managed
<1>3. QED
  BY <1>1, <1>2, AlwaysSound, PTL DEF Spec
\* The drawdown limit, read as a bound: while it is not exceeded the equity stays
\* above the peak less the limit.
LEMMA AboveLimit ==
  ASSUME NEW top \in Int, NEW equity \in Int, top >= InitialCash,
         ~DrawdownExceeded(top, equity)
  PROVE  1000 * equity > InitialCash * (1000 - DrawdownPm)
<1>1. /\ DrawdownPm \in Int /\ DrawdownPm <= 1000 /\ DrawdownPm > 0
      /\ InitialCash \in Int /\ InitialCash > 0
  BY Constants, MoneyPositive
<1>2. InitialCash * (1000 - DrawdownPm) <= top * (1000 - DrawdownPm)
  BY <1>1, Monotone, 1000 - DrawdownPm \in Int, 1000 - DrawdownPm >= 0
<1>3. top * (1000 - DrawdownPm) = 1000 * top - DrawdownPm * top
  BY <1>1
<1>4. DrawdownPm * top \in Int /\ DrawdownPm * top > 0
  BY <1>1, Product, top > 0
<1>5. InitialCash * (1000 - DrawdownPm) \in Int
  BY <1>1, Product, 1000 - DrawdownPm \in Int
<1>6. CASE equity > top
  BY <1>2, <1>3, <1>4, <1>5, <1>6
<1>7. CASE equity <= top
  <2>1. 1000 * (top - equity) < DrawdownPm * top
    BY <1>4, <1>7 DEF DrawdownExceeded
  <2>2. QED
    BY <1>2, <1>3, <1>4, <1>5, <2>1
<1>8. QED
  BY <1>6, <1>7

\* Over the whole session the cash never falls below the initial capital less the
\* drawdown limit and the cost of one position: the last buy happens above the
\* limit, with the account in cash.
THEOREM LossIsBounded ==
  ASSUME MaxOpenPositions <= 1
  PROVE  Spec => []LossBounded
<1> DEFINE floor == InitialCash * (1000 - DrawdownPm)
<1>1. floor \in Int
  BY Product, MoneyPositive, Constants, 1000 - DrawdownPm \in Int
<1>2. MaxCost \in Int /\ MaxCost >= 0
  <2>1. MaxNotional \in Int /\ MaxNotional >= 0
    BY Constants, Product DEF MaxNotional, Smaller
  <2>2. /\ MaxNotional * (SlipDen + SlipNum) \in Int
        /\ MaxNotional * (SlipDen + SlipNum) >= 0
    BY <2>1, Constants, Product, SlipDen + SlipNum \in Int
  <2>3. QED
    BY <2>2, Constants, Product, FeeDen + FeeNum \in Int DEF MaxCost
<1>3. Init => LossBounded
  <2>1. InitialCash * DrawdownPm > 0 /\ InitialCash * DrawdownPm \in Int
    BY MoneyPositive, Constants, Product
  <2>2. floor = 1000 * InitialCash - InitialCash * DrawdownPm
    BY MoneyPositive, Constants
  <2>3. Init => cash = InitialCash
    BY DEF Init
  <2>4. QED
    BY <1>1, <1>2, <2>1, <2>2, <2>3, MoneyPositive DEF LossBounded
<1>4. Managed /\ LossBounded /\ [Next]_vars => LossBounded'
  <2> SUFFICES ASSUME Managed, LossBounded, [Next]_vars PROVE LossBounded'
    OBVIOUS
  <2> HIDE DEF floor
  <2>1. Sound /\ quantity = position.quantity
    BY DEF Managed, NoUnmanagedExposure
  <2>2. cash \in Int /\ peak \in Int /\ peak >= InitialCash
    BY <2>1, SoundTypes
  <2>3. 1000 * cash + MaxCost > floor
    BY DEF LossBounded, floor
  <2>4. ASSUME cash' \in Int, 1000 * cash' + MaxCost > floor
        PROVE  LossBounded'
    BY <2>4 DEF LossBounded, floor, MaxCost, MaxNotional, Smaller, InitialCash,
                Money
  <2>5. CASE Kept
    BY <2>2, <2>3, <2>4, <2>5 DEF Kept, account
  <2>6. ASSUME NEW p \in Prices, Sold(p)
        PROVE  LossBounded'
    <3>1. cash' \in Int /\ cash' >= cash
      BY <2>2, <2>6 DEF Sold
    <3>2. QED
      BY <1>1, <1>2, <2>2, <2>3, <2>4, <3>1 DEF floor
  <2>7. ASSUME NEW p \in Prices, NEW q \in Int, Bought(q, p)
        PROVE  LossBounded'
    <3>1. position = Flat
      BY <2>7, FreeSlot DEF Bought
    <3>2. Equity(p) = cash
      <4>1. quantity = 0 /\ p \in Int
        BY <2>1, <3>1, FlatHolding, Constants
      <4>2. QED
        BY <4>1, <2>2, MoneyPositive DEF Equity
    <3>3. 1000 * cash > floor
      BY <2>2, <2>7, <3>2, AboveLimit DEF Bought, floor
    <3>4. /\ cash' = cash - BuyCost(q, p)
          /\ BuyCost(q, p) \in Int /\ 1000 * BuyCost(q, p) <= MaxCost
      BY <2>7 DEF Bought
    <3>5. floor \in Int
      BY <1>1 DEF floor
    <3>6. QED
      BY <1>2, <2>2, <2>4, <3>3, <3>4, <3>5
  <2>8. QED
    BY <2>1, <2>5, <2>6, <2>7, StepCases
<1>5. Sound /\ NoUnmanagedExposure => Managed
  BY DEF Managed
<1>6. QED
  BY <1>3, <1>4, <1>5, AlwaysSound, NothingUnmanaged, PTL DEF Spec
\* The peak the drawdown is measured from dominates the equity at the last price,
\* on the calls that exit before mark_to_market too.
THEOREM PeakAlwaysDominates ==
  ASSUME MaxOpenPositions <= 1
  PROVE  Spec => []PeakDominates
<1>1. Init => PeakDominates
  <2>1. Init => cash = InitialCash /\ peak = InitialCash /\ quantity = 0 /\ lastPrice = 0
    BY DEF Init
  <2>2. QED
    BY <2>1, MoneyPositive DEF PeakDominates, Equity
<1>2. Managed /\ PeakDominates /\ [Next]_vars => PeakDominates'
  <2> SUFFICES ASSUME Managed, PeakDominates, [Next]_vars PROVE PeakDominates'
    OBVIOUS
  <2>1. Sound /\ quantity = position.quantity
    BY DEF Managed, NoUnmanagedExposure
  <2>2. cash \in Int /\ quantity \in Nat /\ peak \in Int
    BY <2>1, SoundTypes
  <2>3. CASE Kept
    <3>1. cash' = cash /\ quantity' = quantity
      BY <2>3 DEF Kept, account
    <3>2. CASE peak' = peak /\ lastPrice' = lastPrice
      BY <3>1, <3>2 DEF PeakDominates, Equity, Money
    <3>3. ASSUME NEW p \in Prices, lastPrice' = p, peak' >= Equity(p)
          PROVE  PeakDominates'
      BY <3>1, <3>3 DEF PeakDominates, Equity, Money
    <3>4. QED
      BY <2>3, <3>2, <3>3 DEF Kept
  <2>4. ASSUME NEW p \in Prices, Sold(p)
        PROVE  PeakDominates'
    <3>1. /\ quantity' = 0 /\ lastPrice' = p
          /\ cash' \in Int /\ peak' \in Int
          /\ peak' >= cash' + quantity' * SellPrice(p) * FeeDen
      BY <2>1, <2>2, <2>4 DEF Sold
    <3>2. peak' >= cash'
      BY <3>1, ExecutionPrices, Constants
    <3>3. QED
      BY <3>1, <3>2, Constants, MoneyPositive DEF PeakDominates, Equity, Money
  <2>5. ASSUME NEW p \in Prices, NEW q \in Int, Bought(q, p)
        PROVE  PeakDominates'
    <3>1. /\ quantity' = quantity + q /\ lastPrice' = p
          /\ cash' = cash - BuyCost(q, p)
          /\ peak' \in Int /\ peak' >= Equity(p)
          /\ BuyCost(q, p) \in Int
          /\ BuyCost(q, p) >= q * p * Money /\ q * p * Money \in Int
      BY <2>5 DEF Bought
    <3>2. p \in Int /\ Money \in Int /\ quantity * p * Money \in Int
      BY <2>2, Constants, MoneyPositive, Product
    <3>3. (quantity + q) * p * Money = quantity * p * Money + q * p * Money
      BY <2>2, <3>2
    <3>4. cash - BuyCost(q, p) + (quantity + q) * p * Money <= Equity(p)
      BY <2>2, <3>1, <3>2, <3>3 DEF Equity
    <3>5. Equity(p) \in Int
      BY <2>2, <3>2 DEF Equity
    <3>6. cash - BuyCost(q, p) + (quantity + q) * p * Money \in Int
      BY <2>2, <3>1, <3>2, <3>3
    <3>7. peak' >= cash - BuyCost(q, p) + (quantity + q) * p * Money
      BY <3>1, <3>4, <3>5, <3>6
    <3>8. QED
      BY <3>1, <3>7 DEF PeakDominates, Equity, Money
  <2>6. QED
    BY <2>1, <2>3, <2>4, <2>5, StepCases
<1>3. Sound /\ NoUnmanagedExposure => Managed
  BY DEF Managed
<1>4. QED
  BY <1>1, <1>2, <1>3, AlwaysSound, NothingUnmanaged, PTL DEF Spec

\* Once flat at the drawdown limit the account is frozen for good, whatever the
\* market, the strategy and the kill switch do.
THEOREM HaltStaysFinal ==
  ASSUME MaxOpenPositions <= 1
  PROVE  Spec => HaltIsFinal
<1>1. Managed /\ [Next]_vars => (Halted => Halted' /\ UNCHANGED account)
  <2> SUFFICES ASSUME Managed, [Next]_vars, Halted
               PROVE  Halted' /\ UNCHANGED account
    OBVIOUS
  <2>1. /\ Sound /\ quantity = 0 /\ position = Flat
        /\ DrawdownExceeded(peak, cash)
    BY DEF Managed, NoUnmanagedExposure, Halted
  <2>2. cash \in Int /\ peak \in Int
    BY <2>1, SoundTypes
  <2>3. ASSUME NEW p \in Prices
        PROVE  Equity(p) = cash
    BY <2>1, <2>2, <2>3, Constants, MoneyPositive DEF Equity
  <2>4. CASE Kept
    <3>1. cash' = cash /\ quantity' = quantity /\ UNCHANGED account
      BY <2>4 DEF Kept, account
    <3>2. cash <= peak
      BY <2>1 DEF DrawdownExceeded
    <3>3. peak' = peak
      <4>1. CASE peak' = peak
        BY <4>1
      <4>2. ASSUME NEW p \in Prices, peak' = Larger(peak, Equity(p))
            PROVE  peak' = peak
        BY <2>2, <2>3, <3>2, <4>2 DEF Larger
      <4>3. QED
        BY <2>4, <4>1, <4>2 DEF Kept
    <3>4. QED
      BY <2>1, <3>1, <3>3 DEF Halted, DrawdownExceeded
  <2>5. ASSUME NEW p \in Prices, Sold(p)
        PROVE  FALSE
    BY <2>1, <2>5 DEF Sold
  <2>6. ASSUME NEW p \in Prices, NEW q \in Int, Bought(q, p)
        PROVE  FALSE
    BY <2>1, <2>3, <2>6 DEF Bought
  <2>7. QED
    BY <2>1, <2>4, <2>5, <2>6, StepCases
<1>2. Sound /\ NoUnmanagedExposure => Managed
  BY DEF Managed
<1>3. QED
  BY <1>1, <1>2, AlwaysSound, NothingUnmanaged, PTL DEF Spec, HaltIsFinal
-----------------------------------------------------------------------------
(* The engine implements the long-only account: the mapping is the identity *)
(* on cash, quantity, basis and realizedPnl.  A sale must close the account *)
(* whole, so nothing may be left of the basis when nothing is held.         *)

NoBasisLeft == quantity = 0 => basis = 0

\* The cost of all lots is the whole basis.
LEMMA WholeBasis ==
  ASSUME NEW a \in Int, NEW b \in Int, b > 0
  PROVE  (a * b) \div b = a
  OBVIOUS

\* A sale closes the account.
LEMMA SaleCloses ==
  ASSUME Managed, CashNeverNegative, NEW p \in Prices, Sold(p)
  PROVE  Account!CloseAll /\ NoBasisLeft'
<1>1. Sound /\ quantity = position.quantity /\ quantity > 0
  BY DEF Managed, NoUnmanagedExposure, Sold
<1>2. cash \in Int /\ quantity \in Nat /\ basis \in Int /\ realizedPnl \in Int
  BY <1>1, SoundTypes
<1>3. AllocatedCost(quantity) = basis
  BY <1>1, <1>2, WholeBasis DEF AllocatedCost
<1>4. /\ SellProceeds(quantity, p) \in Int /\ SellProceeds(quantity, p) >= 0
      /\ cash' = cash + SellProceeds(quantity, p)
      /\ quantity' = quantity - quantity
      /\ basis' = basis - basis
      /\ realizedPnl' = realizedPnl + SellProceeds(quantity, p) - basis
  BY <1>1, <1>3 DEF Sold
<1>5. cash >= 0
  BY DEF CashNeverNegative
<1>6. quantity' = 0 /\ basis' = 0
  BY <1>2, <1>4
<1>7. cash' \in Nat /\ cash' >= cash
  BY <1>2, <1>4, <1>5
<1>8. realizedPnl' = realizedPnl + (cash' - cash) - basis
  BY <1>2, <1>4
<1>9. QED
  BY <1>1, <1>6, <1>7, <1>8 DEF Account!CloseAll, NoBasisLeft

\* A buy opens it from flat.
LEMMA BuyOpens ==
  ASSUME MaxOpenPositions <= 1, Managed, NoBasisLeft,
         NEW p \in Prices, NEW q \in Int, Bought(q, p)
  PROVE  Account!Open /\ NoBasisLeft'
<1>1. Sound /\ quantity = position.quantity
  BY DEF Managed, NoUnmanagedExposure
<1>2. position = Flat
  BY FreeSlot DEF Bought
<1>3. quantity = 0 /\ basis = 0
  BY <1>1, <1>2, FlatHolding DEF NoBasisLeft
<1>4. cash \in Int
  BY <1>1, SoundTypes
<1>5. /\ q > 0 /\ quantity' = quantity + q
      /\ BuyCost(q, p) \in Int /\ BuyCost(q, p) > 0 /\ BuyCost(q, p) <= cash
      /\ cash' = cash - BuyCost(q, p)
      /\ basis' = basis + BuyCost(q, p)
      /\ realizedPnl' = realizedPnl
  BY DEF Bought
<1>6. quantity' \in Nat \ {0}
  BY <1>3, <1>5
<1>7. cash' \in Nat /\ cash' < cash /\ basis' = cash - cash'
  BY <1>3, <1>4, <1>5
<1>8. QED
  BY <1>3, <1>5, <1>6, <1>7 DEF Account!Open, NoBasisLeft

\* With one position the engine's portfolio is a long-only account.
THEOREM EngineImplementsAccount ==
  ASSUME MaxOpenPositions <= 1
  PROVE  Spec => ImplementsLongOnlyAccount
<1>1. Init => Account!Init /\ NoBasisLeft
  BY DEF Init, Account!Init, NoBasisLeft
<1>2. /\ Managed /\ CashNeverNegative /\ NoBasisLeft /\ [Next]_vars
      => [Account!Next]_(Account!account) /\ NoBasisLeft'
  <2> SUFFICES ASSUME Managed, CashNeverNegative, NoBasisLeft, [Next]_vars
               PROVE  [Account!Next]_(Account!account) /\ NoBasisLeft'
    OBVIOUS
  <2>1. CASE Kept
    BY <2>1 DEF Kept, account, Account!account, NoBasisLeft
  <2>2. ASSUME NEW p \in Prices, Sold(p)
        PROVE  Account!Next /\ NoBasisLeft'
    BY <2>2, SaleCloses DEF Account!Next
  <2>3. ASSUME NEW p \in Prices, NEW q \in Int, Bought(q, p)
        PROVE  Account!Next /\ NoBasisLeft'
    BY <2>3, BuyOpens DEF Account!Next
  <2>4. QED
    BY <2>1, <2>2, <2>3, StepCases DEF Managed
<1>3. Sound /\ NoUnmanagedExposure => Managed
  BY DEF Managed
<1>4. QED
  BY <1>1, <1>2, <1>3, AlwaysSound, NothingUnmanaged, CashStaysNonNegative, PTL
     DEF Spec, Account!Spec, ImplementsLongOnlyAccount

-----------------------------------------------------------------------------
(* The PnL of the trades.                                                  *)

\* A set of natural numbers has a least element.
LEMMA LeastNatural ==
  ASSUME NEW T, T \subseteq Nat, T # {}
  PROVE  \E m \in T : \A k \in T : m <= k
<1> DEFINE R == {ss \in Nat \X Nat : ss[1] < ss[2]}
<1>1. IsWellFoundedOn(R, Nat)
  BY NatLessThanWellFounded DEF OpToRel
<1> HIDE DEF R
<1>2. PICK m \in T : \A k \in T : ~(<<k, m>> \in R)
  BY <1>1, WFMin
<1>3. ASSUME NEW k \in T PROVE m <= k
  <2>1. m \in Nat /\ k \in Nat
    OBVIOUS
  <2>2. ~(k < m)
    BY <1>2, <2>1 DEF R
  <2>3. QED
    BY <2>1, <2>2
<1>4. QED
  BY <1>2, <1>3

\* The partial sums of some values.
Summed(f, values) ==
  /\ f \in [0..Len(values) -> Int]
  /\ f[0] = 0
  /\ \A n \in 1..Len(values) : f[n] = f[n - 1] + values[n]

\* SumOf is the last of the partial sums: the function it chooses agrees with them
\* up to the first place where it does not, which there is none of.
LEMMA SumIsLastPartialSum ==
  ASSUME NEW values \in Seq(Int), NEW g, Summed(g, values)
  PROVE  SumOf(values) = g[Len(values)]
<1> DEFINE Recursive(f) ==
             f = [ n \in 0..Len(values) |-> IF n = 0 THEN 0 ELSE f[n - 1] + values[n] ]
           s == CHOOSE f : Recursive(f)
<1>1. SumOf(values) = s[Len(values)]
  BY DEF SumOf
<1>2. Len(values) \in Nat
  OBVIOUS
<1>3. Recursive(g)
  <2>1. \A n \in 0..Len(values) : g[n] = IF n = 0 THEN 0 ELSE g[n - 1] + values[n]
    BY <1>2 DEF Summed
  <2>2. QED
    BY <2>1 DEF Summed
<1>4. Recursive(s)
  <2> HIDE DEF Recursive
  <2>1. QED
    BY <1>3
<1> HIDE DEF s
<1>5. \A n \in 0..Len(values) : s[n] = g[n]
  <2> DEFINE T == { n \in 0..Len(values) : s[n] # g[n] }
  <2> SUFFICES ASSUME T # {} PROVE FALSE
    OBVIOUS
  <2>1. T \subseteq Nat
    BY <1>2
  <2>2. PICK m \in T : \A k \in T : m <= k
    BY <2>1, LeastNatural
  <2>3. m # 0
    BY <1>2, <1>4 DEF Summed
  <2>4. m - 1 \in 0..Len(values) /\ m \in 1..Len(values) /\ m - 1 \notin T
    BY <1>2, <2>2, <2>3
  <2>5. s[m - 1] = g[m - 1]
    BY <2>4
  <2>6. s[m] = s[m - 1] + values[m]
    BY <1>4, <2>3, <2>4
  <2>7. g[m] = g[m - 1] + values[m]
    BY <2>4 DEF Summed
  <2>8. QED
    BY <2>5, <2>6, <2>7
<1>6. QED
  BY <1>1, <1>2, <1>5

\* Every sequence has partial sums: the shortest that had none would have those of
\* all its values but the last, and one more.
LEMMA PartialSumsExist ==
  ASSUME NEW values \in Seq(Int)
  PROVE  \E f : Summed(f, values)
<1> DEFINE T == { n \in Nat : \E vs \in Seq(Int) : Len(vs) = n /\ ~\E f : Summed(f, vs) }
<1> SUFFICES T = {}
  OBVIOUS
<1> SUFFICES ASSUME T # {} PROVE FALSE
  OBVIOUS
<1>1. PICK m \in T : \A k \in T : m <= k
  <2>1. T \subseteq Nat
    OBVIOUS
  <2>2. QED
    BY <2>1, LeastNatural
<1>2. PICK vs \in Seq(Int) : Len(vs) = m /\ ~\E f : Summed(f, vs)
  OBVIOUS
<1>3. m \in Nat
  OBVIOUS
<1>4. CASE m = 0
  <2> DEFINE f == [ n \in 0..0 |-> 0 ]
  <2>1. Summed(f, vs)
    BY <1>2, <1>4 DEF Summed
  <2>2. QED
    BY <1>2, <2>1
<1>5. CASE m # 0
  <2> DEFINE us == SubSeq(vs, 1, m - 1)
  <2>1. us \in Seq(Int) /\ Len(us) = m - 1 /\ \A n \in 1..(m - 1) : us[n] = vs[n]
    BY <1>2, <1>3, <1>5
  <2> HIDE DEF us
  <2>2. m - 1 \notin T /\ m - 1 \in Nat
    BY <1>1, <1>3, <1>5
  <2>3. PICK g : Summed(g, us)
    BY <2>1, <2>2
  <2> DEFINE f == [ n \in 0..m |-> IF n = m THEN g[m - 1] + vs[m] ELSE g[n] ]
  <2>4. /\ g \in [0..(m - 1) -> Int] /\ g[0] = 0
        /\ \A n \in 1..(m - 1) : g[n] = g[n - 1] + vs[n]
    BY <2>1, <2>3 DEF Summed
  <2>5. m - 1 \in 0..(m - 1) /\ m \in 1..Len(vs) /\ vs[m] \in Int
    BY <1>2, <1>3, <1>5
  <2>6. g[m - 1] \in Int /\ f \in [0..m -> Int] /\ f[0] = 0
    BY <1>3, <1>5, <2>4, <2>5
  <2>7. \A n \in 1..m : f[n] = f[n - 1] + vs[n]
    <3> TAKE n \in 1..m
    <3>1. n \in 0..m /\ n - 1 \in 0..m /\ n - 1 # m
      BY <1>3
    <3>2. f[n - 1] = g[n - 1]
      BY <3>1
    <3>3. CASE n = m
      BY <3>1, <3>2, <3>3
    <3>4. CASE n # m
      <4>1. n \in 1..(m - 1)
        BY <1>3, <3>4
      <4>2. f[n] = g[n]
        BY <3>1, <3>4
      <4>3. QED
        BY <2>4, <3>2, <4>1, <4>2
    <3>5. QED
      BY <3>3, <3>4
  <2>8. Summed(f, vs)
    BY <1>2, <2>6, <2>7 DEF Summed
  <2>9. QED
    BY <1>2, <2>8
<1>6. QED
  BY <1>4, <1>5

\* One more value adds to the sum.
LEMMA SumOfAppend ==
  ASSUME NEW values \in Seq(Int), NEW v \in Int
  PROVE  /\ SumOf(values) \in Int
         /\ SumOf(Append(values, v)) = SumOf(values) + v
<1>1. PICK g : Summed(g, values)
  BY PartialSumsExist
<1>2. PICK n \in Nat : n = Len(values)
  OBVIOUS
<1>3. SumOf(values) = g[n] /\ g[n] \in Int
  BY <1>1, <1>2, SumIsLastPartialSum DEF Summed
<1> DEFINE more == Append(values, v)
           f == [ k \in 0..(n + 1) |-> IF k = n + 1 THEN g[n] + v ELSE g[k] ]
<1>4. more \in Seq(Int) /\ Len(more) = n + 1 /\ more[n + 1] = v
      /\ \A k \in 1..n : more[k] = values[k]
  BY <1>2
<1> HIDE DEF more
<1>5. /\ g \in [0..n -> Int] /\ g[0] = 0
      /\ \A k \in 1..n : g[k] = g[k - 1] + values[k]
  BY <1>1, <1>2 DEF Summed
<1>6. f \in [0..(n + 1) -> Int] /\ f[0] = 0 /\ f[n + 1] = g[n] + v
  <2>1. \A k \in 0..(n + 1) : k # n + 1 => k \in 0..n
    OBVIOUS
  <2>2. f \in [0..(n + 1) -> Int]
    BY <1>3, <1>5, <2>1
  <2>3. 0 \in 0..(n + 1) /\ n + 1 \in 0..(n + 1) /\ 0 # n + 1
    OBVIOUS
  <2>4. QED
    BY <1>5, <2>2, <2>3
<1>7. \A k \in 1..(n + 1) : f[k] = f[k - 1] + more[k]
  <2> TAKE k \in 1..(n + 1)
  <2>1. k \in 0..(n + 1) /\ k - 1 \in 0..(n + 1) /\ k - 1 # n + 1
    OBVIOUS
  <2>2. f[k - 1] = g[k - 1]
    BY <2>1
  <2>3. CASE k = n + 1
    BY <1>4, <2>1, <2>2, <2>3
  <2>4. CASE k # n + 1
    <3>1. k \in 1..n
      BY <2>4
    <3>2. f[k] = g[k]
      BY <2>1, <2>4
    <3>3. QED
      BY <1>4, <1>5, <2>2, <3>1, <3>2
  <2>5. QED
    BY <2>3, <2>4
<1> HIDE DEF f
<1>8. Summed(f, more)
  BY <1>4, <1>6, <1>7 DEF Summed
<1>9. SumOf(more) = f[n + 1]
  BY <1>4, <1>8, SumIsLastPartialSum
<1>10. QED
  BY <1>3, <1>6, <1>9 DEF more

\* Values that are all zero, or none at all, sum to zero.
LEMMA SumOfZeros ==
  ASSUME NEW values \in Seq(Int), \A i \in DOMAIN values : values[i] = 0
  PROVE  SumOf(values) = 0
<1> DEFINE f == [ n \in 0..Len(values) |-> 0 ]
<1>1. Summed(f, values)
  BY DEF Summed
<1>2. f[Len(values)] = 0
  OBVIOUS
<1> HIDE DEF f
<1>3. QED
  BY <1>1, <1>2, SumIsLastPartialSum

-----------------------------------------------------------------------------
(* The state between two candles.  Days only move forward, so no trade is  *)
(* of a later day than the engine's: a new day starts with no PnL.         *)

DaysPassed ==
  /\ day = lastTimestamp \div DayLength
  /\ \A i \in DOMAIN trades : trades[i].day <= day

Trade == [day : Nat, pnl : Int]
PnlsOn(ts, d) == [ i \in DOMAIN ts |-> IF ts[i].day = d THEN ts[i].pnl ELSE 0 ]
AllPnls(ts) == [ i \in DOMAIN ts |-> ts[i].pnl ]

\* A later timestamp is of the same day or a later one.
LEMMA LaterDay ==
  ASSUME NEW a \in Int, NEW b \in Int, a <= b, NEW c \in Int, c > 0
  PROVE  a \div c <= b \div c
<1>1. PICK x \in Int, y \in Int : x = a \div c /\ y = b \div c
  BY Quotient
<1>2. c * x <= a
  BY <1>1, Quotient
<1>3. b < c * (y + 1)
  BY <1>1
<1>4. c * x \in Int /\ c * (y + 1) \in Int
  BY Product, <1>1
<1>5. c * x < c * (y + 1)
  BY <1>2, <1>3, <1>4
<1>6. ASSUME x >= y + 1 PROVE FALSE
  <2>1. (y + 1) * c <= x * c
    BY <1>1, <1>6, Monotone
  <2>2. (y + 1) * c = c * (y + 1) /\ x * c = c * x
    BY <1>1
  <2>3. QED
    BY <1>4, <1>5, <2>1, <2>2
<1>7. QED
  BY <1>1, <1>6

\* One more trade adds its PnL to its own day, and to the total.
LEMMA OneMoreTrade ==
  ASSUME NEW ts \in Seq(Trade), NEW d \in Nat, NEW pnl \in Int,
         NEW more, more = Append(ts, [day |-> d, pnl |-> pnl])
  PROVE  /\ SumOf(PnlsOn(more, d)) = SumOf(PnlsOn(ts, d)) + pnl
         /\ SumOf(AllPnls(more)) = SumOf(AllPnls(ts)) + pnl
<1> DEFINE tr == [day |-> d, pnl |-> pnl]
<1>1. tr \in Trade /\ tr.day = d /\ tr.pnl = pnl
  BY DEF Trade
<1> HIDE DEF tr
<1>2. more = Append(ts, tr)
  BY DEF tr
<1>3. PICK n \in Nat : n = Len(ts)
  OBVIOUS
<1>4. /\ DOMAIN ts = 1..n /\ DOMAIN more = 1..(n + 1)
      /\ more[n + 1] = tr /\ \A k \in 1..n : more[k] = ts[k]
  BY <1>1, <1>2, <1>3
<1>5. \A k \in 1..n : ts[k] \in Trade /\ ts[k].pnl \in Int
  <2> TAKE k \in 1..n
  <2>1. ts[k] \in Trade
    BY <1>3
  <2>2. ts[k].pnl \in Int
    BY <2>1 DEF Trade
  <2>3. QED
    BY <2>1, <2>2
<1>6. /\ PnlsOn(ts, d) \in Seq(Int) /\ Len(PnlsOn(ts, d)) = n
      /\ AllPnls(ts) \in Seq(Int) /\ Len(AllPnls(ts)) = n
  BY <1>4, <1>5 DEF PnlsOn, AllPnls
<1>7. PnlsOn(more, d) = Append(PnlsOn(ts, d), pnl)
  BY <1>1, <1>4, <1>6 DEF PnlsOn
<1>8. AllPnls(more) = Append(AllPnls(ts), pnl)
  BY <1>1, <1>4, <1>6 DEF AllPnls
<1>9. QED
  BY <1>6, <1>7, <1>8, SumOfAppend

\* The PnL a call starts with is that of the trades of its own day: a new day has
\* none.
LEMMA Rollover ==
  ASSUME Sound, DaysPassed, PnlMatchesTrades, NEW t \in 0..MaxTimestamp,
         t >= lastTimestamp, NEW d, d = t \div DayLength
  PROVE  d \in Nat /\ day <= d /\ PnlOf(t) = PnlOn(d)
<1>1. /\ lastTimestamp \in Nat /\ day \in Nat /\ trades \in Seq(Trade)
  BY DEF Sound, TypeOK, Trade
<1>2. t \in Int /\ t >= 0
  BY Constants
<1>3. d \in Nat /\ day <= d
  BY <1>1, <1>2, Constants, Quotient, LaterDay DEF DaysPassed
<1>4. PnlOf(t) = IF d = day THEN realizedToday ELSE 0
  BY Zenon DEF PnlOf
<1>5. CASE d = day
  BY <1>3, <1>4, <1>5, Zenon DEF PnlMatchesTrades
<1>6. CASE d # day
  <2> DEFINE values == PnlsOn(trades, d)
  <2>1. ASSUME NEW i \in DOMAIN trades
        PROVE  trades[i].day # d
    <3>1. trades[i] \in Trade
      BY <1>1, <2>1
    <3>2. trades[i].day \in Nat
      BY <3>1 DEF Trade
    <3>3. trades[i].day <= day
      BY <2>1 DEF DaysPassed
    <3>4. QED
      BY ONLY <1>1, <1>3, <1>6, <3>2, <3>3
  <2>2. values \in Seq(Int)
    BY <1>1, <2>1 DEF PnlsOn
  <2>3. \A i \in DOMAIN values : values[i] = 0
    BY <2>1 DEF PnlsOn
  <2> HIDE DEF values
  <2>4. SumOf(values) = 0
    BY <2>2, <2>3, SumOfZeros
  <2>5. PnlOn(d) = 0
    BY <2>4 DEF PnlOn, values, PnlsOn
  <2>6. QED
    BY <1>3, <1>4, <1>6, <2>5, Zenon
<1>7. QED
  BY <1>3, <1>5, <1>6

\* A call keeps the PnL of the trades: it closes a trade of its day and books its
\* PnL, or does neither.
LEMMA PnlStep ==
  ASSUME Sound, DaysPassed, PnlMatchesTrades, NEW p \in Prices, NEW t \in 0..MaxTimestamp,
         Tick(p, t),
         \/ /\ trades' = trades /\ realizedPnl' = realizedPnl
            /\ realizedToday' = PnlOf(t)
         \/ \E pnl \in Int :
              /\ trades' = Append(trades, [day |-> t \div DayLength, pnl |-> pnl])
              /\ realizedPnl' = realizedPnl + pnl
              /\ realizedToday' = PnlOf(t) + pnl
  PROVE  DaysPassed' /\ PnlMatchesTrades'
<1>1. t >= lastTimestamp /\ lastTimestamp' = t /\ day' = t \div DayLength
  BY DEF Tick
<1>2. PICK d : d = t \div DayLength
  OBVIOUS
<1>3. d \in Nat /\ day <= d /\ PnlOf(t) = PnlOn(d)
  BY <1>1, <1>2, Rollover
<1>4. trades \in Seq(Trade) /\ day \in Nat
  BY DEF Sound, TypeOK, Trade
<1>5. \A i \in DOMAIN trades : trades[i].day \in Nat /\ trades[i].day <= d
  <2> TAKE i \in DOMAIN trades
  <2>0. trades[i] \in Trade
    BY <1>4
  <2>1. trades[i].day \in Nat
    BY <2>0 DEF Trade
  <2>2. trades[i].day <= day
    BY DEF DaysPassed
  <2>3. QED
    BY <1>3, <1>4, <2>1, <2>2
<1>6. /\ PnlOf(t) = SumOf(PnlsOn(trades, d))
      /\ realizedPnl = SumOf(AllPnls(trades))
  BY <1>3 DEF PnlMatchesTrades, PnlOn, PnlsOn, AllPnls
<1>7. ASSUME realizedToday' = SumOf(PnlsOn(trades', d)),
             realizedPnl' = SumOf(AllPnls(trades')),
             \A i \in DOMAIN trades' : trades'[i].day <= d
      PROVE  DaysPassed' /\ PnlMatchesTrades'
  BY <1>1, <1>2, <1>7 DEF DaysPassed, PnlMatchesTrades, PnlOn, PnlsOn, AllPnls
<1>8. CASE /\ trades' = trades /\ realizedPnl' = realizedPnl
           /\ realizedToday' = PnlOf(t)
  BY <1>5, <1>6, <1>7, <1>8
<1>9. ASSUME NEW pnl \in Int,
             trades' = Append(trades, [day |-> d, pnl |-> pnl]),
             realizedPnl' = realizedPnl + pnl,
             realizedToday' = PnlOf(t) + pnl
      PROVE  DaysPassed' /\ PnlMatchesTrades'
  <2>1. /\ SumOf(PnlsOn(trades', d)) = SumOf(PnlsOn(trades, d)) + pnl
        /\ SumOf(AllPnls(trades')) = SumOf(AllPnls(trades)) + pnl
    BY <1>3, <1>4, <1>9, OneMoreTrade
  <2>2. \A i \in DOMAIN trades' : trades'[i].day <= d
    <3>1. PICK n \in Nat : n = Len(trades)
      BY <1>4
    <3> DEFINE tr == [day |-> d, pnl |-> pnl]
    <3>2. tr \in Trade /\ tr.day = d
      BY <1>3 DEF Trade
    <3> HIDE DEF tr
    <3>3. trades' = Append(trades, tr)
      BY <1>9 DEF tr
    <3>4. /\ DOMAIN trades' = 1..(n + 1) /\ trades'[n + 1] = tr
          /\ \A i \in 1..n : i \in DOMAIN trades /\ trades'[i] = trades[i]
      BY <1>4, <3>1, <3>2, <3>3
    <3>5. QED
      BY <1>3, <1>5, <3>2, <3>4
  <2>3. QED
    BY <1>6, <1>7, <1>9, <2>1, <2>2
<1>10. QED
  BY <1>2, <1>8, <1>9

\* An open position that does not exit lies strictly inside its bracket at the
\* price of the call.
LEMMA TrailedInBracket ==
  ASSUME Sound, NEW p \in Prices, NEW a \in Atrs, ~MustExit(p, a),
         lastPrice' = p, position' = Trailed(p, a)
  PROVE  BracketHolds'
<1>1. PICK pos \in Holding : pos = Trailed(p, a)
  BY Trailing
<1>2. ~StopHit(p, pos) /\ ~TargetHit(p, pos)
  BY <1>1 DEF MustExit
<1>3. pos.stop \in Int /\ pos.target \in Nat \cup {NoTarget} /\ p * SlipDen \in Int
  BY ExecutionPrices DEF Holding
<1>4. pos # Flat => pos.stop < p * SlipDen
  BY <1>2, <1>3 DEF StopHit
<1>5. pos # Flat /\ pos.target # NoTarget => p * SlipDen < pos.target
  BY <1>2, <1>3 DEF TargetHit
<1>6. position' = pos /\ lastPrice' = p
  BY <1>1, Zenon
<1>7. QED
  BY <1>4, <1>5, <1>6 DEF BracketHolds

\* A position is opened strictly inside its own bracket.
LEMMA BuyInBracket ==
  ASSUME NEW p \in Prices, NEW a \in Atrs, NEW q,
         lastPrice' = p, position' = Bracket(q, p, a)
  PROVE  BracketHolds'
<1>1. /\ position'.stop = IF a = 0 \/ InitialStop(p, a) = 0 THEN NoStop(p)
                          ELSE InitialStop(p, a)
      /\ position'.target = IF a = 0 THEN NoTarget ELSE TakeProfit(p, a)
  BY DEF Bracket
<1>2. NoStop(p) < p * SlipDen /\ p * SlipDen \in Int
  BY ExecutionPrices DEF NoStop
<1>3. ASSUME a # 0
      PROVE  InitialStop(p, a) < p * SlipDen /\ p * SlipDen < TakeProfit(p, a)
  <2>1. p \in Int /\ a \in Int /\ a > 0
    BY <1>3, Constants
  <2>2. StopAtr * a \in Int /\ StopAtr * a > 0
    BY <2>1, Constants, Product
  <2>3. TargetR > 0 /\ TargetR \in Int
    BY EngineAssumption DEF EngineAssumption
  <2>4. PICK d \in Int, r \in Int :
          d = StopAtr * a /\ r = TargetR * (StopAtr * a)
    BY <2>2, <2>3, Product
  <2>5. d > 0 /\ r > 0
    BY <2>2, <2>3, <2>4, Product
  <2>6. d * SlipDen > 0 /\ r * SlipDen > 0 /\ d * SlipDen \in Int /\ r * SlipDen \in Int
    BY <2>5, Constants, Product
  <2>7. TargetR * StopAtr * a = r
    BY <2>1, <2>3, <2>4, Constants
  <2>8. /\ InitialStop(p, a) = p * SlipDen - d * SlipDen
        /\ TakeProfit(p, a) = p * SlipDen + r * SlipDen
    BY <2>1, <2>4, <2>7, Constants DEF InitialStop, TakeProfit
  <2>9. QED
    BY <1>2, <2>6, <2>8
<1>4. position'.stop < p * SlipDen
  BY <1>1, <1>2, <1>3
<1>5. position'.target # NoTarget => p * SlipDen < position'.target
  BY <1>1, <1>3
<1>6. QED
  BY <1>4, <1>5 DEF BracketHolds

\* The inductive invariant, beside Sound.
Between == BracketHolds /\ DaysPassed /\ PnlMatchesTrades

\* It starts with no position and no trade.
LEMMA BetweenInit == Init => Between
<1> SUFFICES ASSUME Init PROVE Between
  OBVIOUS
<1>1. /\ trades = << >> /\ position = Flat /\ day = 0 /\ lastTimestamp = 0
      /\ realizedToday = 0 /\ realizedPnl = 0
  BY DEF Init
<1>2. 0 \div DayLength = 0
  BY Constants
<1>3. /\ PnlsOn(<< >>, 0) \in Seq(Int) /\ DOMAIN PnlsOn(<< >>, 0) = {}
      /\ AllPnls(<< >>) \in Seq(Int) /\ DOMAIN AllPnls(<< >>) = {}
  BY DEF PnlsOn, AllPnls
<1>4. SumOf(PnlsOn(<< >>, 0)) = 0 /\ SumOf(AllPnls(<< >>)) = 0
  BY <1>3, SumOfZeros
<1>5. PnlMatchesTrades
  BY <1>1, <1>4 DEF PnlMatchesTrades, PnlOn, PnlsOn, AllPnls
<1>6. BracketHolds /\ DaysPassed
  BY <1>1, <1>2 DEF BracketHolds, DaysPassed
<1>7. QED
  BY <1>5, <1>6 DEF Between

\* Every call keeps it.
LEMMA BetweenStep == Sound /\ Between /\ [Next]_vars => Between'
<1> SUFFICES ASSUME Sound, Between, [Next]_vars PROVE Between'
  OBVIOUS
<1>0. DaysPassed /\ PnlMatchesTrades /\ BracketHolds
  BY DEF Between
<1>1. ASSUME NEW p \in Prices, NEW a \in Atrs, NEW t \in 0..MaxTimestamp,
             OnPrice(p, a, t)
      PROVE  Between'
  <2>1. Tick(p, t) /\ lastPrice' = p
    BY <1>1 DEF OnPrice, Tick
  <2>2. ASSUME NEW top, NEW reason, position # Flat, Close(p, t, top, reason)
        PROVE  Between'
    <3>1. /\ trades' = Append(trades, [day |-> t \div DayLength,
                                       pnl |-> NetPnl(position.quantity, p)])
          /\ realizedPnl' = realizedPnl + NetPnl(position.quantity, p)
          /\ realizedToday' = PnlOf(t) + NetPnl(position.quantity, p)
          /\ position' = Flat
      BY <2>2 DEF Close
    <3>2. NetPnl(position.quantity, p) \in Int
      <4>1. /\ position.quantity \in Int /\ position.quantity > 0
            /\ quantity \in Int /\ quantity >= position.quantity /\ basis \in Int
        BY <2>2, SoundTypes
      <4>2. basis * position.quantity \in Int
        BY <4>1, Product
      <4>3. AllocatedCost(position.quantity) \in Int
        BY <4>1, <4>2, Quotient DEF AllocatedCost
      <4>4. SellProceeds(position.quantity, p) \in Int
        BY <4>1, Fills
      <4>5. QED
        BY <4>3, <4>4 DEF NetPnl
    <3>3. DaysPassed' /\ PnlMatchesTrades'
      BY <1>0, <2>1, <3>1, <3>2, PnlStep
    <3>4. BracketHolds'
      BY <3>1 DEF BracketHolds, Flat
    <3>5. QED
      BY <3>3, <3>4 DEF Between
  <2>3. ASSUME trades' = trades, realizedPnl' = realizedPnl,
               realizedToday' = PnlOf(t)
        PROVE  DaysPassed' /\ PnlMatchesTrades'
    BY <1>0, <2>1, <2>3, PnlStep
  <2>4. ASSUME ~MustExit(p, a), UNCHANGED account, position' = Trailed(p, a),
               realizedToday' = PnlOf(t)
        PROVE  Between'
    <3>1. BracketHolds'
      <4>1. ~MustExit(p, a) /\ lastPrice' = p /\ position' = Trailed(p, a)
        BY <2>1, <2>4, Zenon
      <4>2. QED
        BY <4>1, TrailedInBracket, Zenon
    <3>2. trades' = trades /\ realizedPnl' = realizedPnl
      BY <2>4 DEF account
    <3>3. QED
      BY <2>3, <2>4, <3>1, <3>2 DEF Between
  <2>5. CASE ProtectiveExit(p, a, t)
    BY <2>2, <2>5, ExitNeedsPosition DEF ProtectiveExit
  <2>6. ASSUME NEW i \in Intensity, Sell(i, p, a, t)
        PROVE  Between'
    <3>1. position # Flat
      BY <2>6 DEF Sell, Judged, Verdict
    <3>2. QED
      BY <2>2, <2>6, <3>1 DEF Sell
  <2>7. ASSUME NEW i \in Intensity, Buy(i, p, a, t)
        PROVE  Between'
    <3>1. /\ trades' = trades /\ realizedPnl' = realizedPnl
          /\ realizedToday' = PnlOf(t)
          /\ position' = Bracket(BuyOf(i, p, a, t), p, a)
      BY <2>7 DEF Buy
    <3>2. BracketHolds'
      BY <2>1, <3>1, BuyInBracket
    <3>3. QED
      BY <2>3, <3>1, <3>2 DEF Between
  <2>8. CASE Hold(p, a, t)
    BY <2>4, <2>8 DEF Hold
  <2>9. ASSUME NEW i \in Intensity, NEW act \in Action, Reject(act, i, p, a, t)
        PROVE  Between'
    BY <2>4, <2>9 DEF Reject
  <2>10. ASSUME NEW i \in Intensity, BuyRaises(i, p, a, t)
         PROVE  Between'
    BY <2>4, <2>10 DEF BuyRaises
  <2>11. QED
    BY <1>1, <2>5, <2>6, <2>7, <2>8, <2>9, <2>10 DEF OnPrice
<1>2. ASSUME UNCHANGED <<account, position, realizedToday, clock>>
      PROVE  Between'
  <2>1. /\ trades' = trades /\ realizedPnl' = realizedPnl
        /\ realizedToday' = realizedToday /\ day' = day
        /\ lastTimestamp' = lastTimestamp /\ lastPrice' = lastPrice
        /\ position' = position
    BY <1>2 DEF account, clock
  <2>2. BracketHolds'
    BY <1>0, <2>1 DEF BracketHolds
  <2>3. DaysPassed'
    BY <1>0, <2>1 DEF DaysPassed
  <2>4. PnlMatchesTrades'
    BY <1>0, <2>1 DEF PnlMatchesTrades, PnlOn
  <2>5. QED
    BY <2>2, <2>3, <2>4 DEF Between
<1>3. CASE Activate
  BY <1>2, <1>3 DEF Activate
<1>4. ASSUME NEW by, NEW approval, Reset(by, approval)
      PROVE  Between'
  BY <1>2, <1>4 DEF Reset
<1>5. CASE UNCHANGED vars
  BY <1>2, <1>5 DEF vars
<1>6. QED
  BY <1>1, <1>3, <1>4, <1>5 DEF Next

\* Between two candles an open position lies inside its bracket, the peak dominates
\* the equity, and the PnL of the day and of the session is that of the trades, for
\* every price, ATR, intensity and sequence of days (on_price, _day rollover).
THEOREM EngineStateStays ==
  ASSUME MaxOpenPositions <= 1
  PROVE  Spec => []EngineStateHolds
<1>1. Spec => []Between
  BY BetweenInit, BetweenStep, AlwaysSound, PTL DEF Spec
<1>2. TypeOK /\ PeakDominates /\ Between => EngineStateHolds
  BY DEF Between, EngineStateHolds
<1>3. QED
  BY <1>1, <1>2, TypeCorrect, PeakAlwaysDominates, PTL

-----------------------------------------------------------------------------
(* What no step of the engine does.                                        *)

\* A trailed stop is never below the one it replaces, and the target is the same.
LEMMA TrailedUpwards ==
  ASSUME Sound, NEW p \in Prices, NEW a \in Atrs
  PROVE  /\ Trailed(p, a).stop >= position.stop
         /\ Trailed(p, a).target = position.target
<1>1. position \in Holding /\ position.stop \in Int
  BY SoundTypes
<1>2. CASE position = Flat
  BY <1>1, <1>2 DEF Trailed
<1>3. CASE position # Flat
  <2> DEFINE top == Larger(position.highest, p * SlipDen)
             stop == IF a = 0 THEN position.stop
                     ELSE Larger(position.stop, top - TrailAtr * a * SlipDen)
  <2>1. top \in Int
    BY SoundTypes, ExecutionPrices DEF Larger
  <2>2. TrailAtr * a * SlipDen \in Int
    BY Constants, Product
  <2> HIDE DEF top
  <2>3. stop \in Int /\ stop >= position.stop
    BY <1>1, <2>1, <2>2 DEF Larger
  <2>4. Trailed(p, a) = [position EXCEPT !.highest = top, !.stop = stop]
    BY <1>3 DEF Trailed, top
  <2> HIDE DEF stop
  <2>5. QED
    BY <1>1, <2>3, <2>4 DEF Holding
<1>4. QED
  BY <1>2, <1>3

\* The three parts of StepsAreSafe, as the actions they require of a step.
Tightened == position # Flat /\ position' # Flat =>
               /\ position'.stop >= position.stop
               /\ position'.target = position.target
BoughtInTime == quantity' > quantity => ~DailyLossExceeded(PnlOn(day'))
ExitsOnly ==
  /\ killSwitch \/ DrawdownExceeded(peak, cash + quantity * lastPrice' * Money)
  /\ account' # account
  => event'.reason \in ProtectiveReasons

\* No step breaks one of them: each fill is preceded by its guard.
LEMMA SafeStep ==
  ASSUME MaxOpenPositions <= 1, Sound, Between, [Next]_vars
  PROVE  Tightened /\ BoughtInTime /\ ExitsOnly
<1>0. /\ position.stop \in Int /\ quantity \in Nat /\ position.quantity \in Nat
      /\ position.quantity <= quantity /\ DaysPassed /\ PnlMatchesTrades
  BY SoundTypes DEF Between
<1>1. ASSUME NEW p \in Prices, NEW a \in Atrs, NEW t \in 0..MaxTimestamp,
             OnPrice(p, a, t)
      PROVE  Tightened /\ BoughtInTime /\ ExitsOnly
  <2>1. lastPrice' = p /\ day' = t \div DayLength /\ t >= lastTimestamp
    BY <1>1 DEF OnPrice, Tick
  <2>2. ASSUME UNCHANGED account, position' = Trailed(p, a)
        PROVE  Tightened /\ BoughtInTime /\ ExitsOnly
    <3>1. quantity' = quantity
      BY <2>2 DEF account
    <3>2. BoughtInTime
      BY <1>0, <3>1 DEF BoughtInTime
    <3>3. Tightened
      BY <2>2, TrailedUpwards DEF Tightened
    <3>4. QED
      BY <2>2, <3>2, <3>3 DEF ExitsOnly
  <2>3. ASSUME NEW top, NEW reason, Close(p, t, top, reason)
        PROVE  Tightened /\ BoughtInTime /\ event'.reason = reason
    <3>1. quantity' = quantity - position.quantity /\ position' = Flat
      BY <2>3 DEF Close
    <3>2. event'.reason = reason
      BY <2>3 DEF Close
    <3>3. QED
      BY <1>0, <3>1, <3>2 DEF Tightened, BoughtInTime
  <2>4. ASSUME ~killSwitch, ~DrawdownExceeded(peak, Equity(p))
        PROVE  ExitsOnly
    BY <2>1, <2>4 DEF ExitsOnly, Equity
  <2>5. CASE ProtectiveExit(p, a, t)
    <3>1. event'.reason = ExitReason(p, Trailed(p, a))
      BY <2>3, <2>5 DEF ProtectiveExit
    <3>2. event'.reason \in ProtectiveReasons
      BY <3>1 DEF ExitReason, ProtectiveReasons
    <3>3. QED
      BY <2>3, <2>5, <3>2 DEF ProtectiveExit, ExitsOnly
  <2>6. ASSUME NEW i \in Intensity, Sell(i, p, a, t)
        PROVE  Tightened /\ BoughtInTime /\ ExitsOnly
    <3>1. ~killSwitch /\ ~DrawdownExceeded(peak, Equity(p))
      BY <2>6 DEF Sell, Judged, Verdict, KillSwitchRejects
    <3>2. QED
      BY <2>3, <2>4, <2>6, <3>1 DEF Sell
  <2>7. ASSUME NEW i \in Intensity, Buy(i, p, a, t)
        PROVE  Tightened /\ BoughtInTime /\ ExitsOnly
    <3>1. ~killSwitch /\ ~DrawdownExceeded(peak, Equity(p))
      BY <2>7 DEF Buy, Judged, Verdict, KillSwitchRejects
    <3>2. ~SlotsFull
      BY <2>7 DEF Buy, Judged, Verdict
    <3>3. ~DailyLossExceeded(PnlOf(t))
      BY <2>7 DEF Buy, Judged, Verdict
    <3>4. PnlOf(t) = PnlOn(day')
      BY <1>0, <2>1, Rollover
    <3>5. position = Flat
      BY <3>2, FreeSlot
    <3>6. QED
      BY <2>4, <3>1, <3>3, <3>4, <3>5 DEF Tightened, BoughtInTime
  <2>8. CASE Hold(p, a, t)
    BY <2>2, <2>8 DEF Hold
  <2>9. ASSUME NEW i \in Intensity, NEW act \in Action, Reject(act, i, p, a, t)
        PROVE  Tightened /\ BoughtInTime /\ ExitsOnly
    BY <2>2, <2>9 DEF Reject
  <2>10. ASSUME NEW i \in Intensity, BuyRaises(i, p, a, t)
         PROVE  Tightened /\ BoughtInTime /\ ExitsOnly
    BY <2>2, <2>10 DEF BuyRaises
  <2>11. QED
    BY <1>1, <2>5, <2>6, <2>7, <2>8, <2>9, <2>10 DEF OnPrice
<1>2. ASSUME UNCHANGED <<account, position>>
      PROVE  Tightened /\ BoughtInTime /\ ExitsOnly
  BY <1>0, <1>2 DEF Tightened, BoughtInTime, ExitsOnly, account
<1>3. CASE Activate
  BY <1>2, <1>3 DEF Activate
<1>4. ASSUME NEW by, NEW approval, Reset(by, approval)
      PROVE  Tightened /\ BoughtInTime /\ ExitsOnly
  BY <1>2, <1>4 DEF Reset
<1>5. CASE UNCHANGED vars
  BY <1>2, <1>5 DEF vars
<1>6. QED
  BY <1>1, <1>3, <1>4, <1>5 DEF Next

\* No call loosens the stop or moves the target of an open position, opens one on a
\* day whose trades have lost the limit, or fills anything but a protective exit
\* while the kill switch or the drawdown blocks (the order of on_price's checks).
THEOREM StepsStaySafe ==
  ASSUME MaxOpenPositions <= 1
  PROVE  Spec => StepsAreSafe
<1>1. Spec => []Between
  BY BetweenInit, BetweenStep, AlwaysSound, PTL DEF Spec
<1>2. Sound /\ Between /\ [Next]_vars
      => [Tightened]_vars /\ [BoughtInTime]_vars /\ [ExitsOnly]_vars
  BY SafeStep
<1>3. StepsAreSafe <=> [][Tightened]_vars /\ [][BoughtInTime]_vars /\ [][ExitsOnly]_vars
  BY DEF StepsAreSafe, StopNeverLoosens, NoBuyAfterDailyLoss, Tightened, BoughtInTime,
         OnlyProtectiveExitsWhenBlocked, ExitsOnly
<1>4. QED
  BY <1>1, <1>2, <1>3, AlwaysSound, PTL DEF Spec

-----------------------------------------------------------------------------
(* The journal.  A runner's call of on_price is a step of the engine, the  *)
(* readers' steps leave it alone.                                          *)

LEMMA JournalInitIsInit == JournalInit => Init
BY DEF JournalInit

LEMMA JournalStepIsStep == Sound /\ [JournalNext]_journalVars => [Next]_vars
<1> SUFFICES ASSUME Sound, [JournalNext]_journalVars PROVE [Next]_vars
  OBVIOUS
<1>1. ASSUME NEW p \in Prices, NEW a \in Atrs, NEW wick \in Wicks,
             NEW signal \in Action, Run(p, a, wick, signal)
      PROVE  Next
  <2>1. lastTimestamp \in Nat /\ MaxTimestamp \in Nat
    BY EngineAssumption DEF Sound, TypeOK
  <2>2. lastTimestamp < MaxTimestamp /\ OnPrice(p, a, lastTimestamp + 1)
    BY <1>1 DEF Run
  <2>3. lastTimestamp + 1 \in 0..MaxTimestamp
    BY <2>1, <2>2
  <2> QED
    BY <2>2, <2>3 DEF Next
<1>2. CASE Report
  BY <1>2 DEF Report
<1>3. CASE Tamper
  BY <1>3 DEF Tamper
<1>4. CASE UNCHANGED journalVars
  BY <1>4 DEF journalVars
<1> QED
  BY <1>1, <1>2, <1>3, <1>4 DEF JournalNext

\* Every session a journal is written of is a behaviour of the engine.
THEOREM JournalRunsTheEngine == JournalSpec => Spec
<1>1. JournalInit => Init /\ Sound
  BY JournalInitIsInit, SoundInit
<1>2. Sound /\ [JournalNext]_journalVars => Sound'
  BY JournalStepIsStep, SoundStep
<1>3. Sound /\ [JournalNext]_journalVars => [Next]_vars
  BY JournalStepIsStep
<1> QED
  BY <1>1, <1>2, <1>3, PTL DEF JournalSpec, Spec

-----------------------------------------------------------------------------
(* Folds.  The library folds a sequence by a function on the sets of its   *)
(* indices, the largest index first; what it makes of the first k elements *)
(* is then what one step makes of the first k - 1.                         *)

LEMMA LargestIndex ==
  ASSUME NEW n \in Nat, NEW s \in SUBSET (1..n), s # {}
  PROVE  /\ Max(s) \in s /\ s \ {Max(s)} \in SUBSET (1..n)
         /\ \A k \in s : k <= Max(s)
<1> DEFINE T == { m \in Nat : \A k \in s : k <= m }
<1>1. n \in T
  OBVIOUS
<1>2. PICK m \in T : \A j \in T : m <= j
  BY <1>1, LeastNatural
<1>3. m \in s
  <2> SUFFICES ASSUME m \notin s PROVE FALSE
    OBVIOUS
  <2>1. \A k \in s : k <= m /\ k \in Nat /\ 1 <= k
    BY <1>2
  <2>2. \A k \in s : k <= m - 1
    BY <2>1
  <2>3. m - 1 \in Nat
    <3>1. PICK k \in s : TRUE
      OBVIOUS
    <3>2. m \in Nat /\ k \in Nat /\ 1 <= k /\ k <= m
      BY <1>2, <2>1, <3>1
    <3> QED
      BY <3>2
  <2> QED
    BY <1>2, <2>2, <2>3
<1>4. \A k \in s : m >= k
  BY <1>2
<1>5. Max(s) \in s /\ \A k \in s : Max(s) >= k
  BY <1>3, <1>4 DEF Max
<1> QED
  BY <1>5

\* The table of such a fold, for steps R[<<index, result so far>>].
Table(R, base, n, it) ==
  it = [ s \in SUBSET (1..n) |->
           IF s = {} THEN base ELSE R[<<Max(s), it[s \ {Max(s)}]>>] ]

\* It exists: the first length without one would have the table of one index less,
\* and the sets with one more.
LEMMA TableExists ==
  ASSUME NEW n \in Nat, NEW D, NEW base \in D, NEW R \in [(1..n) \X D -> D]
  PROVE  \E it \in [SUBSET (1..n) -> D] : Table(R, base, n, it)
<1> DEFINE Exists(m) == \E it \in [SUBSET (1..m) -> D] : Table(R, base, m, it)
           T == { m \in 0..n : ~Exists(m) }
<1>1. T = {}
  <2> SUFFICES ASSUME T # {} PROVE FALSE
    OBVIOUS
  <2>1. PICK m \in T : \A k \in T : m <= k
    <3>1. T \subseteq Nat
      OBVIOUS
    <3> HIDE DEF T
    <3> QED
      BY <3>1, LeastNatural
  <2>2. m \in 0..n /\ m \in Nat /\ ~Exists(m)
    <3> HIDE DEF Exists
    <3> QED
      OBVIOUS
  <2>3. m # 0
    <3> SUFFICES Exists(0)
      BY <2>2
    <3> DEFINE it == [ s \in SUBSET (1..0) |-> base ]
    <3>1. \A s \in SUBSET (1..0) : s = {}
      OBVIOUS
    <3>2. it \in [SUBSET (1..0) -> D] /\ Table(R, base, 0, it)
      BY <3>1 DEF Table
    <3> QED
      BY <3>2
  <2>4. Exists(m - 1)
    <3> HIDE DEF Exists
    <3>1. m - 1 \in 0..n
      BY <2>2, <2>3
    <3> QED
      BY <2>1, <2>2, <3>1
  <2>5. PICK sub \in [SUBSET (1..(m - 1)) -> D] : Table(R, base, m - 1, sub)
    BY <2>4
  <2> DEFINE it == [ s \in SUBSET (1..m) |->
                       IF m \in s THEN R[<<m, sub[s \ {m}]>>] ELSE sub[s] ]
  <2>6. ASSUME NEW s \in SUBSET (1..m)
        PROVE  s \ {m} \in SUBSET (1..(m - 1)) /\ (m \notin s => s \ {m} = s)
    BY <2>2, <2>3
  <2>7. it \in [SUBSET (1..m) -> D]
    <3>1. ASSUME NEW s \in SUBSET (1..m)
          PROVE  (IF m \in s THEN R[<<m, sub[s \ {m}]>>] ELSE sub[s]) \in D
      <4>1. sub[s \ {m}] \in D
        BY <2>6
      <4>2. <<m, sub[s \ {m}]>> \in (1..n) \X D
        BY <2>2, <2>3, <4>1
      <4>3. R[<<m, sub[s \ {m}]>>] \in D
        BY <4>2
      <4> QED
        BY <2>6, <4>1, <4>3
    <3> QED
      BY <3>1
  <2>8. ASSUME NEW s \in SUBSET (1..m)
        PROVE  it[s] = IF s = {} THEN base ELSE R[<<Max(s), it[s \ {Max(s)}]>>]
    <3>1. CASE s = {}
      <4>1. {} \in SUBSET (1..(m - 1))
        OBVIOUS
      <4>2. sub[{}] = base
        BY <2>5, <4>1 DEF Table
      <4> QED
        BY <3>1, <4>2
    <3>2. CASE s # {} /\ m \in s
      <4>1. Max(s) = m
        <5>1. Max(s) \in s /\ \A k \in s : k <= Max(s)
          BY <2>2, <3>2, LargestIndex
        <5>2. Max(s) \in 1..m /\ m <= Max(s)
          BY <3>2, <5>1
        <5> HIDE DEF it
        <5> QED
          BY <2>2, <5>2
      <4>2. s \ {m} \in SUBSET (1..m) /\ m \notin s \ {m}
        OBVIOUS
      <4>3. it[s \ {m}] = sub[s \ {m}]
        BY <4>2
      <4> QED
        BY <3>2, <4>1, <4>3
    <3>3. CASE s # {} /\ m \notin s
      <4>1. s \in SUBSET (1..(m - 1))
        BY <2>6, <3>3
      <4>2. m - 1 \in Nat
        BY <2>2, <2>3
      <4>3. Max(s) \in s /\ s \ {Max(s)} \in SUBSET (1..(m - 1))
        BY <3>3, <4>1, <4>2, LargestIndex
      <4>4. sub[s] = R[<<Max(s), sub[s \ {Max(s)}]>>]
        BY <2>5, <3>3, <4>1 DEF Table
      <4>5. s \ {Max(s)} \in SUBSET (1..m) /\ m \notin s \ {Max(s)}
        BY <3>3
      <4>6. it[s \ {Max(s)}] = sub[s \ {Max(s)}] /\ it[s] = sub[s]
        BY <3>3, <4>5
      <4> QED
        BY <3>3, <4>4, <4>6
    <3> QED
      BY <3>1, <3>2, <3>3
  <2>9. Table(R, base, m, it)
    <3>1. DOMAIN it = SUBSET (1..m) /\ it = [ s \in SUBSET (1..m) |-> it[s] ]
      OBVIOUS
    <3> HIDE DEF it
    <3> QED
      BY <2>8, <3>1 DEF Table
  <2> HIDE DEF it
  <2>10. Exists(m)
    BY <2>7, <2>9
  <2> QED
    BY <2>2, <2>10
<1>2. Exists(n)
  <2> HIDE DEF Exists
  <2> QED
    BY <1>1
<1> QED
  BY <1>2

\* The first k indices are those before them and k.
LEMMA FirstIndices ==
  ASSUME NEW n \in Nat, NEW k \in 1..n
  PROVE  /\ 1..k \in SUBSET (1..n) /\ 1..k # {} /\ Max(1..k) = k
         /\ (1..k) \ {k} = 1..(k - 1) /\ 1..(k - 1) \in SUBSET (1..n)
<1>1. k \in Nat /\ k \in 1..k
  OBVIOUS
<1>2. Max(1..k) \in 1..k /\ \A j \in 1..k : j <= Max(1..k)
  BY <1>1, LargestIndex
<1>3. Max(1..k) = k
  BY <1>1, <1>2
<1> QED
  BY <1>1, <1>3

-----------------------------------------------------------------------------
(* Rows, and what their readers keep while they read.                      *)

Rows == [ts : Nat, signal : Action, action : Action, filled : BOOLEAN, reason : Reason,
         exec : Int, quantity : Int, fee : Int, equity : Int,
         close : Int, high : Int, low : Int, stop : Int, target : Int]
Trips == [entry : Nat, exit : Nat, gross : Int, fees : Int, net : Int, reason : Reason]
Pairings == [lot : Rows \cup {NoEvent}, trips : Seq(Trips)]
Mirrors == [cash : Int, position : Int, paid : Int, entryFees : Int, realized : Int,
            fees : Int]

\* The fields of a row.
LEMMA RowFields ==
  ASSUME NEW e \in Rows
  PROVE  /\ e.ts \in Nat /\ e.signal \in Action /\ e.action \in Action
         /\ e.filled \in BOOLEAN /\ e.reason \in Reason
         /\ e.exec \in Int /\ e.quantity \in Int /\ e.fee \in Int /\ e.equity \in Int
         /\ e.close \in Int /\ e.high \in Int /\ e.low \in Int
         /\ e.stop \in Int /\ e.target \in Int
BY DEF Rows

\* A row is not the lack of one.
LEMMA RowIsEvent == ASSUME NEW e \in Rows PROVE e # NoEvent
<1>1. "ts" \in DOMAIN e
  BY DEF Rows
<1>2. "ts" \notin DOMAIN NoEvent
  BY DEF NoEvent
<1> QED
  BY <1>1, <1>2

\* What a round trip is of two rows.
LEMMA RoundTrips ==
  ASSUME NEW buy \in Rows, NEW sell \in Rows
  PROVE  RoundTrip(buy, sell) \in Trips
<1> DEFINE q == Smaller(buy.quantity, sell.quantity)
           gross == (sell.exec - buy.exec) * q * FeeDen
<1>1. q \in Int /\ FeeDen \in Int
  BY RowFields, Constants DEF Smaller
<1>2. gross \in Int
  BY <1>1, RowFields
<1>3. RoundTrip(buy, sell) =
        [entry |-> buy.ts, exit |-> sell.ts, gross |-> gross,
         fees |-> buy.fee + sell.fee, net |-> gross - buy.fee - sell.fee,
         reason |-> sell.reason]
  BY DEF RoundTrip
<1> HIDE DEF gross
<1> QED
  BY <1>2, <1>3, RowFields DEF Trips

NoTrips == [lot |-> NoEvent, trips |-> <<>>]

\* trades_from_trace, row by row.
LEMMA PairCases ==
  ASSUME NEW acc \in Pairings, NEW e \in Rows
  PROVE  /\ Pair(acc, e) \in Pairings
         /\ IsFill(e, "BUY") => Pair(acc, e) = [lot |-> e, trips |-> acc.trips]
         /\ IsFill(e, "SELL") /\ acc.lot # NoEvent =>
              Pair(acc, e) = [lot |-> NoEvent,
                              trips |-> Append(acc.trips, RoundTrip(acc.lot, e))]
         /\ ~IsFill(e, "BUY") /\ ~(IsFill(e, "SELL") /\ acc.lot # NoEvent) =>
              Pair(acc, e) = acc
<1>1. /\ acc = [lot |-> acc.lot, trips |-> acc.trips]
      /\ acc.lot \in Rows \cup {NoEvent} /\ acc.trips \in Seq(Trips)
  BY DEF Pairings
<1>2. CASE IsFill(e, "BUY")
  <2>1. Pair(acc, e) = [lot |-> e, trips |-> acc.trips]
    BY <1>1, <1>2 DEF Pair
  <2>2. ~IsFill(e, "SELL")
    BY <1>2 DEF IsFill
  <2>3. [lot |-> e, trips |-> acc.trips] \in Pairings
    BY <1>1 DEF Pairings
  <2> QED
    BY <1>2, <2>1, <2>2, <2>3
<1>3. CASE ~IsFill(e, "BUY") /\ IsFill(e, "SELL") /\ acc.lot # NoEvent
  <2>1. Pair(acc, e) = [lot |-> NoEvent,
                        trips |-> Append(acc.trips, RoundTrip(acc.lot, e))]
    BY <1>3 DEF Pair
  <2>2. RoundTrip(acc.lot, e) \in Trips
    BY <1>1, <1>3, RoundTrips
  <2>3. Append(acc.trips, RoundTrip(acc.lot, e)) \in Seq(Trips)
    BY <1>1, <2>2
  <2>4. Pair(acc, e) \in Pairings
    BY <2>1, <2>3 DEF Pairings
  <2> QED
    BY <1>3, <2>1, <2>4
<1>4. CASE ~IsFill(e, "BUY") /\ ~(IsFill(e, "SELL") /\ acc.lot # NoEvent)
  BY <1>4 DEF Pair
<1> QED
  BY <1>2, <1>3, <1>4

\* The pairing of the first k rows, for every k.
PairTrail(g, es) ==
  /\ g \in [0..Len(es) -> Pairings]
  /\ g[0] = NoTrips
  /\ \A k \in 1..Len(es) : g[k] = Pair(g[k - 1], es[k])

PairTable(es, it) ==
  it = [ s \in SUBSET DOMAIN es |->
           IF s = {} THEN NoTrips ELSE Pair(it[s \ {Max(s)}], es[Max(s)]) ]

LEMMA PairedIsTable ==
  ASSUME NEW es
  PROVE  Paired(es) = (CHOOSE it : PairTable(es, it))[DOMAIN es]
BY DEF Paired, FoldLeft, MapThenFoldSet, PairTable, NoTrips

\* Pairing is the last of such a trail.
LEMMA PairedTrail ==
  ASSUME NEW es \in Seq(Rows)
  PROVE  \E g : PairTrail(g, es) /\ Paired(es) = g[Len(es)]
<1> DEFINE n == Len(es)
           R == [ x \in (1..n) \X Pairings |-> Pair(x[2], es[x[1]]) ]
<1>1. n \in Nat /\ DOMAIN es = 1..n /\ \A k \in 1..n : es[k] \in Rows
  OBVIOUS
<1>2. NoTrips \in Pairings
  BY DEF NoTrips, Pairings
<1>3. R \in [(1..n) \X Pairings -> Pairings]
  BY <1>1, PairCases
<1>4. \A k \in 1..n, acc \in Pairings : R[<<k, acc>>] = Pair(acc, es[k])
  OBVIOUS
<1> HIDE DEF n, R
<1>5. PICK it \in [SUBSET (1..n) -> Pairings] : Table(R, NoTrips, n, it)
  BY <1>1, <1>2, <1>3, TableExists
<1>6. PairTable(es, it)
  <2>1. ASSUME NEW s \in SUBSET (1..n)
        PROVE  it[s] = IF s = {} THEN NoTrips ELSE Pair(it[s \ {Max(s)}], es[Max(s)])
    <3>1. it[s] = IF s = {} THEN NoTrips ELSE R[<<Max(s), it[s \ {Max(s)}]>>]
      BY <1>5 DEF Table
    <3>2. CASE s # {}
      <4>1. Max(s) \in 1..n /\ it[s \ {Max(s)}] \in Pairings
        BY <1>1, <1>5, <3>2, LargestIndex
      <4> QED
        BY <1>4, <3>1, <3>2, <4>1
    <3> QED
      BY <3>1, <3>2
  <2>2. it = [ s \in SUBSET (1..n) |-> it[s] ]
    OBVIOUS
  <2> QED
    BY <1>1, <2>1, <2>2 DEF PairTable
<1> DEFINE c == CHOOSE f : PairTable(es, f)
<1>7. PairTable(es, c)
  BY <1>6
<1>8. Paired(es) = c[1..n]
  BY <1>1, PairedIsTable
<1> HIDE DEF c
<1>9. ASSUME NEW f, PairTable(es, f)
      PROVE  /\ f[1..0] = NoTrips
             /\ \A k \in 1..n : f[1..k] = Pair(f[1..(k - 1)], es[k])
  <2>1. 1..0 = {}
    OBVIOUS
  <2>2. f[1..0] = NoTrips
    <3>1. {} \in SUBSET DOMAIN es
      OBVIOUS
    <3> QED
      BY <1>9, <2>1, <3>1 DEF PairTable
  <2>3. ASSUME NEW k \in 1..n PROVE f[1..k] = Pair(f[1..(k - 1)], es[k])
    <3>1. 1..k \in SUBSET DOMAIN es /\ 1..k # {} /\ Max(1..k) = k /\ (1..k) \ {k} = 1..(k - 1)
      BY <1>1, FirstIndices
    <3>2. f[1..k] = IF 1..k = {} THEN NoTrips
                    ELSE Pair(f[(1..k) \ {Max(1..k)}], es[Max(1..k)])
      BY <1>9, <3>1 DEF PairTable
    <3> QED
      BY <3>1, <3>2
  <2> QED
    BY <2>2, <2>3
<1> DEFINE g == [ k \in 0..n |-> it[1..k] ]
<1>10. \A k \in 0..n : 1..k \in SUBSET (1..n)
  BY <1>1
<1>11. PairTrail(g, es)
  <2>1. g \in [0..n -> Pairings]
    BY <1>5, <1>10
  <2>2. g[0] = NoTrips
    BY <1>1, <1>6, <1>9
  <2>3. ASSUME NEW k \in 1..n PROVE g[k] = Pair(g[k - 1], es[k])
    <3>1. k \in 0..n /\ k - 1 \in 0..n
      BY <1>1
    <3> QED
      BY <1>6, <1>9, <3>1
  <2> QED
    BY <2>1, <2>2, <2>3 DEF PairTrail, n
<1> HIDE DEF g
<1>12. \A k \in 0..n : c[1..k] = it[1..k]
  <2> DEFINE T == { k \in 0..n : c[1..k] # it[1..k] }
  <2> SUFFICES ASSUME T # {} PROVE FALSE
    OBVIOUS
  <2>1. PICK m \in T : \A k \in T : m <= k
    <3>1. T \subseteq Nat
      BY <1>1
    <3> HIDE DEF T
    <3> QED
      BY <3>1, LeastNatural
  <2>2. m # 0
    <3>1. c[1..0] = NoTrips /\ it[1..0] = NoTrips
      BY <1>6, <1>7, <1>9
    <3> QED
      BY <2>1, <3>1
  <2>3. m \in 1..n /\ m - 1 \in 0..n /\ m - 1 \notin T
    BY <1>1, <2>1, <2>2
  <2>4. c[1..(m - 1)] = it[1..(m - 1)]
    BY <2>3
  <2>5. c[1..m] = it[1..m]
    <3>1. c[1..m] = Pair(c[1..(m - 1)], es[m])
      BY <1>7, <1>9, <2>3
    <3>2. it[1..m] = Pair(it[1..(m - 1)], es[m])
      BY <1>6, <1>9, <2>3
    <3> QED
      BY <2>4, <3>1, <3>2
  <2> QED
    BY <2>5
<1>13. Paired(es) = g[n]
  BY <1>1, <1>8, <1>12 DEF g
<1> QED
  BY <1>11, <1>13 DEF n

\* One more row is one more step.
LEMMA PairedAppend ==
  ASSUME NEW es \in Seq(Rows), NEW e \in Rows
  PROVE  /\ Paired(es) \in Pairings /\ Paired(es).trips \in Seq(Trips)
         /\ Paired(<<>>) = NoTrips
         /\ Paired(Append(es, e)) = Pair(Paired(es), e)
<1> DEFINE n == Len(es)
           more == Append(es, e)
<1>1. n \in Nat
  OBVIOUS
<1>2. /\ more \in Seq(Rows) /\ Len(more) = n + 1 /\ more[n + 1] = e
      /\ \A k \in 1..n : more[k] = es[k]
  OBVIOUS
<1>3. PICK g : PairTrail(g, es) /\ Paired(es) = g[n]
  BY PairedTrail
<1> HIDE DEF more
<1>4. PICK h : PairTrail(h, more) /\ Paired(more) = h[n + 1]
  BY <1>2, PairedTrail
<1> HIDE DEF n
<1>5. /\ g \in [0..n -> Pairings] /\ g[0] = NoTrips
      /\ \A k \in 1..n : g[k] = Pair(g[k - 1], es[k])
  BY <1>3 DEF PairTrail, n
<1>6. /\ h[0] = NoTrips
      /\ \A k \in 1..(n + 1) : h[k] = Pair(h[k - 1], more[k])
  BY <1>2, <1>4 DEF PairTrail
<1>7. \A k \in 0..n : h[k] = g[k]
  <2> DEFINE T == { k \in 0..n : h[k] # g[k] }
  <2> SUFFICES ASSUME T # {} PROVE FALSE
    OBVIOUS
  <2>1. PICK m \in T : \A k \in T : m <= k
    <3>1. T \subseteq Nat
      BY <1>1
    <3> HIDE DEF T
    <3> QED
      BY <3>1, LeastNatural
  <2>2. m # 0
    BY <1>5, <1>6
  <2>3. m \in 1..n /\ m - 1 \in 0..n /\ m - 1 \notin T
    BY <1>1, <2>1, <2>2
  <2>4. h[m - 1] = g[m - 1]
    BY <2>3
  <2>5. m \in 1..(n + 1)
    BY <1>1, <2>3
  <2>6. h[m] = g[m]
    BY <1>2, <1>5, <1>6, <2>3, <2>4, <2>5
  <2> QED
    BY <2>6
<1>8. h[n + 1] = Pair(g[n], e)
  <2>1. n + 1 \in 1..(n + 1) /\ n \in 0..n /\ (n + 1) - 1 = n
    BY <1>1
  <2> QED
    BY <1>2, <1>6, <1>7, <2>1
<1>9. Paired(es) \in Pairings
  BY <1>1, <1>3, <1>5
<1>10. Paired(<<>>) = NoTrips
  <2>1. <<>> \in Seq(Rows) /\ Len(<<>>) = 0
    OBVIOUS
  <2>2. PICK f : PairTrail(f, <<>>) /\ Paired(<<>>) = f[0]
    BY <2>1, PairedTrail
  <2> QED
    BY <2>2 DEF PairTrail
<1>11. Paired(es).trips \in Seq(Trips)
  BY <1>9 DEF Pairings
<1> QED
  BY <1>3, <1>4, <1>8, <1>9, <1>10, <1>11 DEF more

-----------------------------------------------------------------------------
(* The accounting mirror.                                                  *)

LEMMA MirrorFields ==
  ASSUME NEW m \in Mirrors
  PROVE  /\ m = [cash |-> m.cash, position |-> m.position, paid |-> m.paid,
                 entryFees |-> m.entryFees, realized |-> m.realized, fees |-> m.fees]
         /\ m.cash \in Int /\ m.position \in Int /\ m.paid \in Int
         /\ m.entryFees \in Int /\ m.realized \in Int /\ m.fees \in Int
BY DEF Mirrors

\* A filled buy adds its lots, its cost and its fee.
LEMMA BuyMirrored ==
  ASSUME NEW m \in Mirrors, NEW e \in Rows
  PROVE  /\ ApplyBuy(m, e) =
              [cash |-> m.cash - e.quantity * e.exec * FeeDen - e.fee,
               position |-> m.position + e.quantity,
               paid |-> m.paid + e.quantity * e.exec * FeeDen,
               entryFees |-> m.entryFees + e.fee,
               realized |-> m.realized, fees |-> m.fees + e.fee]
         /\ ApplyBuy(m, e) \in Mirrors
<1> DEFINE cost == e.quantity * e.exec * FeeDen
<1>1. e.quantity \in Int /\ e.exec \in Int /\ e.fee \in Int /\ FeeDen \in Int
  BY RowFields, Constants
<1>2. cost \in Int
  BY <1>1
<1>3. ApplyBuy(m, e) =
        [m EXCEPT !.cash = @ - cost - e.fee, !.position = @ + e.quantity,
                  !.paid = @ + cost, !.entryFees = @ + e.fee, !.fees = @ + e.fee]
  BY DEF ApplyBuy
<1> HIDE DEF cost
<1>4. ApplyBuy(m, e) =
        [cash |-> m.cash - cost - e.fee, position |-> m.position + e.quantity,
         paid |-> m.paid + cost, entryFees |-> m.entryFees + e.fee,
         realized |-> m.realized, fees |-> m.fees + e.fee]
  BY <1>3 DEF Mirrors
<1>5. ApplyBuy(m, e) \in Mirrors
  BY <1>1, <1>2, <1>4, MirrorFields DEF Mirrors
<1> QED
  BY <1>4, <1>5 DEF cost

\* A filled sell of what is there takes the share of cost and fees.
LEMMA SellMirrored ==
  ASSUME NEW m \in Mirrors, NEW e \in Rows
  PROVE  ApplySell(m, e) \in Mirrors
<1>1. CASE e.quantity <= 0 \/ m.position <= 0
  BY <1>1 DEF ApplySell
<1>2. CASE ~(e.quantity <= 0 \/ m.position <= 0)
  <2> DEFINE sold == Smaller(e.quantity, m.position)
             paid == (m.paid * sold) \div m.position
             entryFees == (m.entryFees * sold) \div m.position
             exitFee == (e.fee * sold) \div e.quantity
             proceeds == sold * e.exec * FeeDen
  <2>1. /\ e.quantity \in Int /\ e.exec \in Int /\ e.fee \in Int /\ FeeDen \in Int
        /\ m.position \in Int /\ m.position > 0 /\ e.quantity > 0
        /\ sold \in Int
    BY <1>2, RowFields, MirrorFields, Constants DEF Smaller
  <2> HIDE DEF sold
  <2>2. /\ m.paid * sold \in Int /\ m.entryFees * sold \in Int /\ e.fee * sold \in Int
        /\ proceeds \in Int
    BY <2>1, MirrorFields
  <2>3. paid \in Int /\ entryFees \in Int /\ exitFee \in Int
    BY <2>1, <2>2, Quotient
  <2>4. ApplySell(m, e) =
          [cash |-> m.cash + proceeds - exitFee, position |-> m.position - sold,
           paid |-> m.paid - paid, entryFees |-> m.entryFees - entryFees,
           realized |-> m.realized + proceeds - paid - entryFees - exitFee,
           fees |-> m.fees + exitFee]
    BY <1>2 DEF ApplySell, sold
  <2> HIDE DEF paid, entryFees, exitFee, proceeds
  <2> QED
    BY <2>1, <2>2, <2>3, <2>4, MirrorFields DEF Mirrors
<1> QED
  BY <1>1, <1>2

LEMMA ApplyMirrored ==
  ASSUME NEW m \in Mirrors, NEW e \in Rows
  PROVE  Apply(m, e) \in Mirrors
BY BuyMirrored, SellMirrored DEF Apply

\* What a row does to a mirror that is at a cursor.
Moved(m, cursor, e) == IF Later(e, cursor) THEN Apply(m, e) ELSE m

LEMMA MovedMirrored ==
  ASSUME NEW m \in Mirrors, NEW e \in Rows, NEW cursor
  PROVE  Moved(m, cursor, e) \in Mirrors
BY ApplyMirrored DEF Moved

\* The mirrors of the first k rows, for every k.
MirrorTrail(g, m, cursor, es) ==
  /\ g \in [0..Len(es) -> Mirrors]
  /\ g[0] = m
  /\ \A k \in 1..Len(es) : g[k] = Moved(g[k - 1], cursor, es[k])

MirrorTable(m, cursor, es, it) ==
  it = [ s \in SUBSET DOMAIN es |->
           IF s = {} THEN m
           ELSE IF Later(es[Max(s)], cursor) THEN Apply(it[s \ {Max(s)}], es[Max(s)])
                ELSE it[s \ {Max(s)}] ]

LEMMA AdvanceIsTable ==
  ASSUME NEW m, NEW cursor, NEW es
  PROVE  Advance(m, cursor, es) =
           (CHOOSE it : MirrorTable(m, cursor, es, it))[DOMAIN es]
BY DEF Advance, FoldLeft, MapThenFoldSet, MirrorTable

\* _advance is the last of such a trail.
LEMMA AdvanceTrail ==
  ASSUME NEW m \in Mirrors, NEW cursor, NEW es \in Seq(Rows)
  PROVE  \E g : MirrorTrail(g, m, cursor, es) /\ Advance(m, cursor, es) = g[Len(es)]
<1> DEFINE n == Len(es)
           R == [ x \in (1..n) \X Mirrors |-> Moved(x[2], cursor, es[x[1]]) ]
<1>1. n \in Nat /\ DOMAIN es = 1..n /\ \A k \in 1..n : es[k] \in Rows
  OBVIOUS
<1>3. R \in [(1..n) \X Mirrors -> Mirrors]
  BY <1>1, MovedMirrored
<1>4. \A k \in 1..n, acc \in Mirrors : R[<<k, acc>>] = Moved(acc, cursor, es[k])
  OBVIOUS
<1> HIDE DEF n, R
<1>5. PICK it \in [SUBSET (1..n) -> Mirrors] : Table(R, m, n, it)
  BY <1>1, <1>3, TableExists
<1>6. MirrorTable(m, cursor, es, it)
  <2>1. ASSUME NEW s \in SUBSET (1..n)
        PROVE  it[s] = IF s = {} THEN m
                       ELSE IF Later(es[Max(s)], cursor)
                            THEN Apply(it[s \ {Max(s)}], es[Max(s)])
                            ELSE it[s \ {Max(s)}]
    <3>1. it[s] = IF s = {} THEN m ELSE R[<<Max(s), it[s \ {Max(s)}]>>]
      BY <1>5 DEF Table
    <3>2. CASE s # {}
      <4>1. Max(s) \in 1..n /\ it[s \ {Max(s)}] \in Mirrors
        BY <1>1, <1>5, <3>2, LargestIndex
      <4>2. it[s] = Moved(it[s \ {Max(s)}], cursor, es[Max(s)])
        BY <1>4, <3>1, <3>2, <4>1
      <4> QED
        BY <3>2, <4>2 DEF Moved
    <3> QED
      BY <3>1, <3>2
  <2>2. it = [ s \in SUBSET (1..n) |-> it[s] ]
    OBVIOUS
  <2> QED
    BY <1>1, <2>1, <2>2 DEF MirrorTable
<1> DEFINE c == CHOOSE f : MirrorTable(m, cursor, es, f)
<1>7. MirrorTable(m, cursor, es, c)
  BY <1>6
<1>8. Advance(m, cursor, es) = c[1..n]
  BY <1>1, AdvanceIsTable
<1> HIDE DEF c
<1>9. ASSUME NEW f, MirrorTable(m, cursor, es, f)
      PROVE  /\ f[1..0] = m
             /\ \A k \in 1..n : f[1..k] = Moved(f[1..(k - 1)], cursor, es[k])
  <2>1. 1..0 = {}
    OBVIOUS
  <2>2. f[1..0] = m
    <3>1. {} \in SUBSET DOMAIN es
      OBVIOUS
    <3> QED
      BY <1>9, <2>1, <3>1 DEF MirrorTable
  <2>3. ASSUME NEW k \in 1..n PROVE f[1..k] = Moved(f[1..(k - 1)], cursor, es[k])
    <3>1. 1..k \in SUBSET DOMAIN es /\ 1..k # {} /\ Max(1..k) = k /\ (1..k) \ {k} = 1..(k - 1)
      BY <1>1, FirstIndices
    <3>2. f[1..k] = IF 1..k = {} THEN m
                    ELSE IF Later(es[Max(1..k)], cursor)
                         THEN Apply(f[(1..k) \ {Max(1..k)}], es[Max(1..k)])
                         ELSE f[(1..k) \ {Max(1..k)}]
      BY <1>9, <3>1 DEF MirrorTable
    <3> QED
      BY <3>1, <3>2 DEF Moved
  <2> QED
    BY <2>2, <2>3
<1> DEFINE g == [ k \in 0..n |-> it[1..k] ]
<1>10. \A k \in 0..n : 1..k \in SUBSET (1..n)
  BY <1>1
<1>11. MirrorTrail(g, m, cursor, es)
  <2>1. g \in [0..n -> Mirrors]
    BY <1>5, <1>10
  <2>2. g[0] = m
    BY <1>1, <1>6, <1>9
  <2>3. ASSUME NEW k \in 1..n PROVE g[k] = Moved(g[k - 1], cursor, es[k])
    <3>1. k \in 0..n /\ k - 1 \in 0..n
      BY <1>1
    <3> QED
      BY <1>6, <1>9, <3>1
  <2> QED
    BY <2>1, <2>2, <2>3 DEF MirrorTrail, n
<1> HIDE DEF g
<1>12. \A k \in 0..n : c[1..k] = it[1..k]
  <2> DEFINE T == { k \in 0..n : c[1..k] # it[1..k] }
  <2> SUFFICES ASSUME T # {} PROVE FALSE
    OBVIOUS
  <2>1. PICK j \in T : \A k \in T : j <= k
    <3>1. T \subseteq Nat
      BY <1>1
    <3> HIDE DEF T
    <3> QED
      BY <3>1, LeastNatural
  <2>2. j # 0
    <3>1. c[1..0] = m /\ it[1..0] = m
      BY <1>6, <1>7, <1>9
    <3> QED
      BY <2>1, <3>1
  <2>3. j \in 1..n /\ j - 1 \in 0..n /\ j - 1 \notin T
    BY <1>1, <2>1, <2>2
  <2>4. c[1..(j - 1)] = it[1..(j - 1)]
    BY <2>3
  <2>5. c[1..j] = it[1..j]
    <3>1. c[1..j] = Moved(c[1..(j - 1)], cursor, es[j])
      BY <1>7, <1>9, <2>3
    <3>2. it[1..j] = Moved(it[1..(j - 1)], cursor, es[j])
      BY <1>6, <1>9, <2>3
    <3> QED
      BY <2>4, <3>1, <3>2
  <2> QED
    BY <2>5
<1>13. Advance(m, cursor, es) = g[n]
  BY <1>1, <1>8, <1>12 DEF g
<1> QED
  BY <1>11, <1>13 DEF n

\* Any such trail is the one.
LEMMA TrailIsAdvance ==
  ASSUME NEW m \in Mirrors, NEW cursor, NEW es \in Seq(Rows), NEW h,
         h[0] = m, \A k \in 1..Len(es) : h[k] = Moved(h[k - 1], cursor, es[k])
  PROVE  Advance(m, cursor, es) = h[Len(es)]
<1> DEFINE n == Len(es)
<1>1. n \in Nat
  OBVIOUS
<1>2. PICK g : MirrorTrail(g, m, cursor, es) /\ Advance(m, cursor, es) = g[n]
  BY AdvanceTrail
<1> HIDE DEF n
<1>3. g[0] = m /\ \A k \in 1..n : g[k] = Moved(g[k - 1], cursor, es[k])
  BY <1>2 DEF MirrorTrail, n
<1>4. \A k \in 1..n : h[k] = Moved(h[k - 1], cursor, es[k])
  BY DEF n
<1>5. \A k \in 0..n : h[k] = g[k]
  <2> DEFINE T == { k \in 0..n : h[k] # g[k] }
  <2> SUFFICES ASSUME T # {} PROVE FALSE
    OBVIOUS
  <2>1. PICK j \in T : \A k \in T : j <= k
    <3>1. T \subseteq Nat
      BY <1>1
    <3> HIDE DEF T
    <3> QED
      BY <3>1, LeastNatural
  <2>2. j # 0
    BY <1>3, <2>1
  <2>3. j \in 1..n /\ j - 1 \in 0..n /\ j - 1 \notin T
    BY <1>1, <2>1, <2>2
  <2>4. h[j - 1] = g[j - 1]
    BY <2>3
  <2>5. h[j] = g[j]
    BY <1>3, <1>4, <2>3, <2>4
  <2> QED
    BY <2>5
<1>6. n \in 0..n
  BY <1>1
<1> QED
  BY <1>2, <1>5, <1>6 DEF n

\* One more row is one more step.
LEMMA AdvanceAppend ==
  ASSUME NEW m \in Mirrors, NEW cursor, NEW es \in Seq(Rows), NEW e \in Rows
  PROVE  /\ Advance(m, cursor, es) \in Mirrors
         /\ Advance(m, cursor, <<>>) = m
         /\ Advance(m, cursor, Append(es, e)) = Moved(Advance(m, cursor, es), cursor, e)
<1> DEFINE n == Len(es)
           more == Append(es, e)
<1>1. n \in Nat
  OBVIOUS
<1>2. /\ more \in Seq(Rows) /\ Len(more) = n + 1 /\ more[n + 1] = e
      /\ \A k \in 1..n : more[k] = es[k]
  OBVIOUS
<1> HIDE DEF more
<1>3. PICK g : MirrorTrail(g, m, cursor, more) /\ Advance(m, cursor, more) = g[n + 1]
  BY <1>2, AdvanceTrail
<1>4. /\ g \in [0..(n + 1) -> Mirrors] /\ g[0] = m
      /\ \A k \in 1..(n + 1) : g[k] = Moved(g[k - 1], cursor, more[k])
  BY <1>2, <1>3 DEF MirrorTrail
<1>5. \A k \in 1..n : g[k] = Moved(g[k - 1], cursor, es[k])
  BY <1>1, <1>2, <1>4
<1>6. Advance(m, cursor, es) = g[n]
  BY <1>4, <1>5, TrailIsAdvance, SMTT(40)
<1>7. g[n] \in Mirrors /\ g[n + 1] = Moved(g[n], cursor, e)
  <2>1. n \in 0..(n + 1) /\ n + 1 \in 1..(n + 1) /\ (n + 1) - 1 = n
    BY <1>1
  <2> HIDE DEF n
  <2> QED
    BY <1>2, <1>4, <2>1
<1>8. Advance(m, cursor, <<>>) = m
  <2>1. <<>> \in Seq(Rows) /\ Len(<<>>) = 0
    OBVIOUS
  <2>2. PICK f : MirrorTrail(f, m, cursor, <<>>) /\ Advance(m, cursor, <<>>) = f[0]
    BY <2>1, AdvanceTrail
  <2> QED
    BY <2>2 DEF MirrorTrail
<1> QED
  BY <1>3, <1>6, <1>7, <1>8 DEF more

-----------------------------------------------------------------------------
(* What a call of on_price does to a session with one position, and what   *)
(* its row says of it.                                                     *)

Solo == Managed /\ CashNeverNegative /\ NoBasisLeft

LEMMA SoloInit == Init => Solo
<1> SUFFICES ASSUME Init PROVE Solo
  OBVIOUS
<1>1. cash = InitialCash /\ quantity = 0 /\ basis = 0 /\ position = Flat
  BY DEF Init
<1> QED
  BY <1>1, SoundInit, MoneyPositive, FlatHolding
     DEF Solo, Managed, NoUnmanagedExposure, CashNeverNegative, NoBasisLeft

LEMMA SoloStep ==
  ASSUME MaxOpenPositions <= 1
  PROVE  Solo /\ [Next]_vars => Solo'
<1> SUFFICES ASSUME Solo, [Next]_vars PROVE Solo'
  OBVIOUS
<1> USE DEF Solo
<1>1. Managed'
  BY SoundStep, ManagedStep DEF Managed
<1>2. cash \in Int /\ Sound
  BY SoundTypes DEF Managed
<1>3. CASE Kept
  BY <1>1, <1>3 DEF Kept, account, CashNeverNegative, NoBasisLeft
<1>4. ASSUME NEW p \in Prices, Sold(p) PROVE Solo'
  BY <1>1, <1>2, <1>4, SaleCloses DEF Sold, CashNeverNegative
<1>5. ASSUME NEW p \in Prices, NEW q \in Int, Bought(q, p) PROVE Solo'
  BY <1>1, <1>2, <1>5, BuyOpens DEF Bought, CashNeverNegative
<1> QED
  BY <1>2, <1>3, <1>4, <1>5, StepCases

\* Nothing was filled: the account stays, an open position was trailed.
Idle(e, p, a) ==
  /\ ~e.filled /\ UNCHANGED account /\ position' = Trailed(p, a)
  /\ ~MustExit(p, a)
  /\ e.reason \notin ProtectiveReasons

\* The whole position was sold.
Sale(e, p, a) ==
  /\ e.filled /\ e.action = "SELL" /\ e.exec = SellPrice(p) /\ e.quantity = quantity
  /\ position # Flat /\ quantity > 0
  /\ quantity' = 0 /\ position' = Flat /\ basis' = 0
  /\ SellProceeds(quantity, p) \in Int
  /\ cash' = cash + SellProceeds(quantity, p)
  /\ realizedPnl' = realizedPnl + (SellProceeds(quantity, p) - basis)
  /\ \E d \in Nat :
       trades' = Append(trades, [day |-> d, pnl |-> SellProceeds(quantity, p) - basis])
  /\ \/ e.reason = ExitReason(p, Trailed(p, a)) /\ MustExit(p, a)
     \/ e.reason = "llm_sell"

\* A position was opened from flat.
Purchase(e, p, a) ==
  /\ e.filled /\ e.action = "BUY" /\ e.exec = BuyPrice(p) /\ e.quantity > 0
  /\ position = Flat /\ quantity = 0 /\ basis = 0
  /\ quantity' = e.quantity /\ position' = Bracket(e.quantity, p, a)
  /\ basis' = BuyCost(e.quantity, p)
  /\ BuyCost(e.quantity, p) \in Int
  /\ cash' = cash - BuyCost(e.quantity, p)
  /\ UNCHANGED <<realizedPnl, trades>>
  /\ e.reason = ""

\* What is common to all rows.
Recorded(e, p, wick) ==
  /\ e \in Rows
  /\ e.ts = lastTimestamp + 1
  /\ e.fee = e.quantity * e.exec * FeeNum
  /\ e.equity = cash' + quantity' * p * Money
  /\ e.close = p /\ e.high = p + wick /\ e.low = p - wick
  /\ e.stop = position'.stop /\ e.target = position'.target
  /\ e.signal = e.action \/ e.reason \in ProtectiveReasons

\* The fields of EventOf.
LEMMA EventFields ==
  ASSUME NEW signal, NEW p, NEW wick
  PROVE  LET e == EventOf(signal, p, wick) IN
         /\ e.ts = lastTimestamp' /\ e.signal = signal
         /\ e.action = event'.action /\ e.filled = event'.filled
         /\ e.reason = event'.reason
         /\ e.exec = IF event'.action = "BUY" THEN BuyPrice(p) ELSE SellPrice(p)
         /\ e.quantity = IF event'.action = "BUY" THEN quantity' - quantity
                         ELSE quantity - quantity'
         /\ e.fee = e.quantity * e.exec * FeeNum
         /\ e.equity = cash' + quantity' * p * Money
         /\ e.close = p /\ e.high = p + wick /\ e.low = p - wick
         /\ e.stop = position'.stop /\ e.target = position'.target
         /\ DOMAIN e = {"ts", "signal", "action", "filled", "reason", "exec", "quantity",
                        "fee", "equity", "close", "high", "low", "stop", "target"}
BY DEF EventOf

\* Every row is one.
LEMMA EventIsRow ==
  ASSUME Sound, Sound', lastTimestamp' = lastTimestamp + 1,
         NEW p \in Prices, NEW wick \in Wicks, NEW signal \in Action,
         signal = event'.action \/ event'.reason \in ProtectiveReasons
  PROVE  Recorded(EventOf(signal, p, wick), p, wick)
<1>1. /\ lastTimestamp \in Nat /\ quantity \in Nat /\ quantity' \in Nat /\ cash' \in Int
      /\ position' \in Holding /\ event' \in Event
  BY DEF Sound, TypeOK
<1>2. /\ BuyPrice(p) \in Int /\ SellPrice(p) \in Int /\ p \in Int /\ FeeNum \in Int
      /\ Money \in Int /\ wick \in Nat
  BY Constants, ExecutionPrices, MoneyPositive, JournalAssumption DEF JournalAssumption
<1>3. /\ position'.stop \in Int /\ position'.target \in Int
      /\ event'.action \in Action /\ event'.filled \in BOOLEAN /\ event'.reason \in Reason
  BY <1>1 DEF Holding, Event, NoTarget
<1> DEFINE exec == IF event'.action = "BUY" THEN BuyPrice(p) ELSE SellPrice(p)
           q == IF event'.action = "BUY" THEN quantity' - quantity
                ELSE quantity - quantity'
           fee == q * exec * FeeNum
           equity == cash' + quantity' * p * Money
<1>4. exec \in Int /\ q \in Int
  BY <1>1, <1>2
<1>5. EventOf(signal, p, wick) =
        [ts |-> lastTimestamp', signal |-> signal, action |-> event'.action,
         filled |-> event'.filled, reason |-> event'.reason, exec |-> exec,
         quantity |-> q, fee |-> fee, equity |-> equity,
         close |-> p, high |-> p + wick, low |-> p - wick,
         stop |-> position'.stop, target |-> position'.target]
  BY DEF EventOf
<1> HIDE DEF exec, q
<1>6. fee \in Int /\ equity \in Int
  BY <1>1, <1>2, <1>4
<1> DEFINE e == EventOf(signal, p, wick)
<1>7. /\ e.fee = e.quantity * e.exec * FeeNum
      /\ e.equity = cash' + quantity' * p * Money
      /\ e.ts = lastTimestamp' /\ e.signal = signal
      /\ e.action = event'.action /\ e.reason = event'.reason
      /\ e.close = p /\ e.high = p + wick /\ e.low = p - wick
      /\ e.stop = position'.stop /\ e.target = position'.target
  BY <1>5
<1> HIDE DEF fee, equity
<1>8. e \in Rows
  <2>1. lastTimestamp' \in Nat /\ p + wick \in Int /\ p - wick \in Int
    BY <1>1, <1>2
  <2> QED
    BY <1>2, <1>3, <1>4, <1>5, <1>6, <2>1 DEF Rows
<1> HIDE DEF e
<1> QED
  BY <1>7, <1>8 DEF Recorded, e

\* A call of the runner fails with a ValueError and writes nothing, or writes the
\* row of an idle call, of a sale or of a purchase.
LEMMA RunCases ==
  ASSUME MaxOpenPositions <= 1, Solo, NEW p \in Prices, NEW a \in Atrs,
         NEW wick \in Wicks, NEW signal \in Action, Run(p, a, wick, signal)
  PROVE  /\ lastPrice' = p
         /\ lastTimestamp \in Nat /\ lastTimestamp' = lastTimestamp + 1
         /\ ~raised /\ verdict' = "" /\ UNCHANGED <<checkpoint, damage>>
         /\ \/ /\ raised' /\ UNCHANGED account /\ quantity = 0
               /\ UNCHANGED <<trace, stored>> /\ position = Flat /\ position' = Flat
            \/ /\ ~raised'
               /\ \E e \in Rows :
                    /\ trace' = Append(trace, e) /\ stored' = Append(stored, e)
                    /\ Recorded(e, p, wick)
                    /\ Idle(e, p, a) \/ Sale(e, p, a) \/ Purchase(e, p, a)
<1> DEFINE t == lastTimestamp + 1
           e == EventOf(signal, p, wick)
<1>1. /\ Sound /\ quantity = position.quantity /\ (position # Flat => quantity > 0)
      /\ (quantity = 0 => basis = 0)
  BY DEF Solo, Managed, NoUnmanagedExposure, NoBasisLeft
<1>2. /\ lastTimestamp \in Nat /\ quantity \in Nat /\ basis \in Int /\ cash \in Int
      /\ realizedPnl \in Int
  BY <1>1 DEF Sound, TypeOK
<1>3. /\ OnPrice(p, a, t) /\ lastTimestamp < MaxTimestamp /\ ~raised
      /\ signal = event'.action \/ event'.reason \in ProtectiveReasons
      /\ raised' = (event'.reason = "ValueError")
      /\ IF raised' THEN UNCHANGED <<trace, stored>>
         ELSE trace' = Append(trace, e) /\ stored' = Append(stored, e)
      /\ verdict' = "" /\ UNCHANGED <<checkpoint, damage>>
  BY DEF Run
<1> HIDE DEF e
<1>4. t \in 0..MaxTimestamp
  <2>1. MaxTimestamp \in Nat /\ lastTimestamp \in Nat /\ lastTimestamp < MaxTimestamp
    BY <1>2, <1>3, EngineAssumption, ZenonT(60)
  <2> QED
    BY <2>1
<1>5. lastPrice' = p /\ lastTimestamp' = t
  BY <1>3 DEF OnPrice, Tick
<1>6. Sound'
  BY <1>1, <1>3, <1>4, SoundStep DEF Next
<1>7. Recorded(e, p, wick) /\ e \in Rows
  BY <1>1, <1>3, <1>5, <1>6, EventIsRow, ZenonT(60) DEF e, Recorded
<1>8. /\ e.action = event'.action /\ e.filled = event'.filled /\ e.reason = event'.reason
      /\ e.exec = IF event'.action = "BUY" THEN BuyPrice(p) ELSE SellPrice(p)
      /\ e.quantity = IF event'.action = "BUY" THEN quantity' - quantity
                      ELSE quantity - quantity'
  BY EventFields DEF e
<1>9. ASSUME Idle(e, p, a) \/ Sale(e, p, a) \/ Purchase(e, p, a), e.reason # "ValueError"
      PROVE  /\ ~raised'
             /\ \E r \in Rows :
                    /\ trace' = Append(trace, r) /\ stored' = Append(stored, r)
                    /\ Recorded(r, p, wick)
                    /\ Idle(r, p, a) \/ Sale(r, p, a) \/ Purchase(r, p, a)
  BY <1>3, <1>7, <1>8, <1>9
<1>10. ASSUME NEW top, NEW reason, position # Flat, Close(p, t, top, reason),
              \/ reason = ExitReason(p, Trailed(p, a)) /\ MustExit(p, a)
              \/ reason = "llm_sell"
       PROVE  Sale(e, p, a)
  <2>1. quantity > 0 /\ quantity \in Int
    BY <1>1, <1>2, <1>10
  <2>2. AllocatedCost(quantity) = basis
    BY <1>2, <2>1, WholeBasis DEF AllocatedCost
  <2>3. SellProceeds(quantity, p) \in Int
    BY <2>1, Fills
  <2>4. NetPnl(quantity, p) = SellProceeds(quantity, p) - basis
    BY <2>2 DEF NetPnl
  <2>5. /\ cash' = cash + SellProceeds(quantity, p)
        /\ quantity' = quantity - quantity
        /\ basis' = basis - basis
        /\ realizedPnl' = realizedPnl + NetPnl(quantity, p)
        /\ trades' = Append(trades, [day |-> t \div DayLength, pnl |-> NetPnl(quantity, p)])
        /\ position' = Flat
        /\ event' = [action |-> "SELL", filled |-> TRUE, reason |-> reason]
    BY <1>1, <1>10, <2>2 DEF Close
  <2>6. quantity' = 0 /\ basis' = 0
    BY <1>2, <2>5
  <2>7. t \div DayLength \in Nat
    BY <1>1, <1>4, Marking
  <2>8. e.filled /\ e.action = "SELL" /\ e.exec = SellPrice(p) /\ e.quantity = quantity
        /\ e.reason = reason
    BY <1>2, <1>8, <2>5, <2>6
  <2>9. \E d \in Nat :
          trades' = Append(trades, [day |-> d, pnl |-> SellProceeds(quantity, p) - basis])
    BY <2>4, <2>5, <2>7
  <2> QED
    BY <1>10, <2>1, <2>3, <2>4, <2>5, <2>6, <2>8, <2>9 DEF Sale
<1>11. CASE ProtectiveExit(p, a, t)
  <2>1. position # Flat
    BY <1>1, <1>11, ExitNeedsPosition DEF ProtectiveExit
  <2>2. Sale(e, p, a)
    BY <1>10, <1>11, <2>1 DEF ProtectiveExit
  <2>3. e.reason # "ValueError"
    BY <1>8, <1>11 DEF ProtectiveExit, Close, ExitReason
  <2> QED
    BY <1>2, <1>3, <1>5, <1>9, <2>2, <2>3
<1>12. CASE Hold(p, a, t)
  <2>1. Idle(e, p, a) /\ e.reason # "ValueError"
    BY <1>8, <1>12 DEF Hold, Idle, ProtectiveReasons
  <2> QED
    BY <1>2, <1>3, <1>5, <1>9, <2>1
<1>13. ASSUME NEW i \in Intensity, NEW act \in Action, Reject(act, i, p, a, t)
       PROVE  Idle(e, p, a) /\ e.reason # "ValueError"
  <2>1. /\ event'.filled = FALSE /\ event'.reason = Judged(act, i, p, a, t)
        /\ UNCHANGED account /\ position' = Trailed(p, a) /\ ~MustExit(p, a)
    BY <1>13 DEF Reject
  <2>2. /\ Judged(act, i, p, a, t) \notin ProtectiveReasons
        /\ Judged(act, i, p, a, t) # "ValueError"
    BY DEF Judged, Verdict, ProtectiveReasons
  <2> QED
    BY <1>8, <2>1, <2>2 DEF Idle
<1>14. ASSUME NEW i \in Intensity, Sell(i, p, a, t)
       PROVE  Sale(e, p, a) /\ e.reason # "ValueError"
  <2>1. position # Flat
    BY <1>14 DEF Sell, Judged, Verdict
  <2>2. Close(p, t, Marked(p), "llm_sell")
    BY <1>14 DEF Sell
  <2>3. event'.reason = "llm_sell"
    BY <2>2 DEF Close
  <2> QED
    BY <1>8, <1>10, <2>1, <2>2, <2>3
<1>15. ASSUME NEW i \in Intensity, Buy(i, p, a, t)
       PROVE  Purchase(e, p, a) /\ e.reason # "ValueError"
  <2> DEFINE q == BuyOf(i, p, a, t)
  <2>1. ~SlotsFull
    BY <1>15 DEF Buy, Judged, Verdict
  <2>2. position = Flat /\ quantity = 0 /\ basis = 0
    BY <1>1, <2>1, FreeSlot, FlatHolding
  <2>3. /\ q > 0 /\ cash' = cash - BuyCost(q, p) /\ quantity' = quantity + q
        /\ basis' = basis + BuyCost(q, p) /\ position' = Bracket(q, p, a)
        /\ event' = [action |-> "BUY", filled |-> TRUE, reason |-> ""]
        /\ UNCHANGED <<realizedPnl, trades>>
    BY <1>15 DEF Buy
  <2>4. position'.quantity = q
    BY <2>3 DEF Bracket
  <2>5. q \in Nat
    BY <1>6, <2>4, FlatHolding DEF Sound, TypeOK, Holding
  <2> HIDE DEF q
  <2>6. BuyCost(q, p) \in Int
    BY <2>5, Fills
  <2>7. quantity' = q /\ basis' = BuyCost(q, p)
    <3>1. quantity' = 0 + q /\ basis' = 0 + BuyCost(q, p)
      BY <2>2, <2>3
    <3> QED
      BY <2>5, <2>6, <3>1
  <2>8. e.filled /\ e.action = "BUY" /\ e.exec = BuyPrice(p) /\ e.quantity = q
        /\ e.reason = ""
    <3>1. event'.action = "BUY" /\ event'.filled /\ event'.reason = ""
      BY <2>3
    <3>2. quantity' - quantity = q
      BY <2>2, <2>5, <2>7
    <3> QED
      BY <1>8, <3>1, <3>2
  <2> QED
    BY <2>2, <2>3, <2>6, <2>7, <2>8 DEF Purchase
<1>16. ASSUME NEW i \in Intensity, BuyRaises(i, p, a, t)
       PROVE  /\ raised' /\ UNCHANGED account /\ quantity = 0
              /\ UNCHANGED <<trace, stored>> /\ position = Flat /\ position' = Flat
  <2>1. ~SlotsFull
    BY <1>16 DEF BuyRaises, Judged, Verdict
  <2>2. position = Flat /\ quantity = 0
    BY <1>1, <2>1, FreeSlot, FlatHolding
  <2>3. UNCHANGED account /\ event'.reason = "ValueError" /\ position' = Trailed(p, a)
    BY <1>16 DEF BuyRaises
  <2>4. position' = Flat
    BY <2>2, <2>3 DEF Trailed
  <2> QED
    BY <1>3, <2>2, <2>3, <2>4
<1> HIDE DEF t
<1>17. \/ ProtectiveExit(p, a, t)
       \/ Hold(p, a, t)
       \/ \E i \in Intensity :
            \/ \E act \in Action : Reject(act, i, p, a, t)
            \/ Sell(i, p, a, t)
            \/ Buy(i, p, a, t)
            \/ BuyRaises(i, p, a, t)
  BY <1>3 DEF OnPrice
<1>18. CASE ~(ProtectiveExit(p, a, t) \/ Hold(p, a, t))
  <2>1. PICK i \in Intensity :
            \/ \E act \in Action : Reject(act, i, p, a, t)
            \/ Sell(i, p, a, t)
            \/ Buy(i, p, a, t)
            \/ BuyRaises(i, p, a, t)
    BY <1>17, <1>18
  <2>2. CASE BuyRaises(i, p, a, t)
    BY <1>2, <1>3, <1>5, <1>16, <2>2 DEF t
  <2>3. CASE ~BuyRaises(i, p, a, t)
    <3>1. (Idle(e, p, a) \/ Sale(e, p, a) \/ Purchase(e, p, a)) /\ e.reason # "ValueError"
      BY <1>13, <1>14, <1>15, <2>1, <2>3
    <3> QED
      BY <1>2, <1>3, <1>5, <1>9, <3>1 DEF t
  <2> QED
    BY <2>2, <2>3
<1> QED
  BY <1>11, <1>12, <1>18

-----------------------------------------------------------------------------
(* The mirror of untouched rows is the portfolio.                          *)

\* A sale of all that is there takes all of its cost and fees.
LEMMA WholeSaleMirrored ==
  ASSUME NEW m \in Mirrors, NEW e \in Rows, IsFill(e, "SELL"),
         e.quantity = m.position, m.position > 0
  PROVE  Apply(m, e) =
           [cash |-> m.cash + e.quantity * e.exec * FeeDen - e.fee, position |-> 0,
            paid |-> 0, entryFees |-> 0,
            realized |-> m.realized + e.quantity * e.exec * FeeDen - m.paid
                           - m.entryFees - e.fee,
            fees |-> m.fees + e.fee]
<1>1. Smaller(e.quantity, m.position) = e.quantity
  BY RowFields DEF Smaller
<1>2. /\ (m.paid * e.quantity) \div m.position = m.paid
      /\ (m.entryFees * e.quantity) \div m.position = m.entryFees
      /\ (e.fee * e.quantity) \div e.quantity = e.fee
  BY WholeBasis, RowFields, MirrorFields
<1>3. ~(e.quantity <= 0 \/ m.position <= 0)
  BY RowFields
<1>4. ApplySell(m, e) =
        [cash |-> m.cash + e.quantity * e.exec * FeeDen - e.fee,
         position |-> m.position - e.quantity,
         paid |-> m.paid - m.paid, entryFees |-> m.entryFees - m.entryFees,
         realized |-> m.realized + e.quantity * e.exec * FeeDen - m.paid - m.entryFees
                        - e.fee,
         fees |-> m.fees + e.fee]
  BY <1>1, <1>2, <1>3 DEF ApplySell
<1>5. m.position - e.quantity = 0 /\ m.paid - m.paid = 0 /\ m.entryFees - m.entryFees = 0
  BY MirrorFields
<1>6. Apply(m, e) = ApplySell(m, e)
  BY DEF Apply, IsFill
<1> QED
  BY <1>4, <1>5, <1>6

\* A purchase.
LEMMA PurchaseMirrored ==
  ASSUME NEW m \in Mirrors, NEW e \in Rows, IsFill(e, "BUY"), e.quantity > 0
  PROVE  Apply(m, e) =
           [cash |-> m.cash - e.quantity * e.exec * FeeDen - e.fee,
            position |-> m.position + e.quantity,
            paid |-> m.paid + e.quantity * e.exec * FeeDen,
            entryFees |-> m.entryFees + e.fee,
            realized |-> m.realized, fees |-> m.fees + e.fee]
BY BuyMirrored DEF Apply

\* A row without a fill changes nothing.
LEMMA IdleMirrored ==
  ASSUME NEW m, NEW e, ~e.filled
  PROVE  Apply(m, e) = m
BY DEF Apply, IsFill

\* The portfolio a mirror shows.
Shows(m, c, q, r, b) ==
  /\ m.cash = c /\ m.position = q /\ m.realized = r /\ m.paid + m.entryFees = b
  /\ q = 0 => m.paid = 0 /\ m.entryFees = 0

\* What a fill costs and yields, with the fee apart.
LEMMA FeeApart ==
  ASSUME NEW p \in Prices, NEW q \in Int
  PROVE  /\ BuyCost(q, p) = q * BuyPrice(p) * FeeDen + q * BuyPrice(p) * FeeNum
         /\ SellProceeds(q, p) = q * SellPrice(p) * FeeDen - q * SellPrice(p) * FeeNum
         /\ q * BuyPrice(p) * FeeDen \in Int /\ q * BuyPrice(p) * FeeNum \in Int
         /\ q * SellPrice(p) * FeeDen \in Int /\ q * SellPrice(p) * FeeNum \in Int
<1>1. BuyPrice(p) \in Int /\ SellPrice(p) \in Int /\ FeeDen \in Int /\ FeeNum \in Int
  BY ExecutionPrices, Constants
<1>2. q * BuyPrice(p) \in Int /\ q * SellPrice(p) \in Int
  BY <1>1
<1>3. ASSUME NEW x \in Int
      PROVE  /\ x * (FeeDen + FeeNum) = x * FeeDen + x * FeeNum
             /\ x * (FeeDen - FeeNum) = x * FeeDen - x * FeeNum
             /\ x * FeeDen \in Int /\ x * FeeNum \in Int
  BY <1>1
<1> QED
  BY <1>2, <1>3 DEF BuyCost, SellProceeds

\* A row keeps the mirror of the portfolio the mirror of the portfolio.
LEMMA MirrorFollows ==
  ASSUME Solo, NEW p \in Prices, NEW a \in Atrs, NEW wick \in Wicks, NEW e \in Rows,
         Recorded(e, p, wick),
         Idle(e, p, a) \/ Sale(e, p, a) \/ Purchase(e, p, a),
         NEW m \in Mirrors, Shows(m, cash, quantity, realizedPnl, basis)
  PROVE  Shows(Apply(m, e), cash', quantity', realizedPnl', basis')
<1>1. /\ cash \in Int /\ quantity \in Nat /\ realizedPnl \in Int /\ basis \in Int
  BY SoundTypes DEF Solo, Managed
<1>2. CASE Idle(e, p, a)
  BY <1>2, IdleMirrored DEF Idle, Shows, account
<1>3. CASE Sale(e, p, a)
  <2>1. /\ IsFill(e, "SELL") /\ e.quantity = quantity /\ quantity > 0
        /\ e.exec = SellPrice(p) /\ e.fee = quantity * SellPrice(p) * FeeNum
        /\ quantity' = 0 /\ basis' = 0
        /\ cash' = cash + SellProceeds(quantity, p)
        /\ realizedPnl' = realizedPnl + (SellProceeds(quantity, p) - basis)
    BY <1>3 DEF Sale, Recorded, IsFill
  <2> DEFINE gross == quantity * SellPrice(p) * FeeDen
             fee == quantity * SellPrice(p) * FeeNum
  <2>2. SellProceeds(quantity, p) = gross - fee /\ gross \in Int /\ fee \in Int
    BY <1>1, FeeApart
  <2>3. Apply(m, e) =
           [cash |-> m.cash + gross - fee, position |-> 0, paid |-> 0, entryFees |-> 0,
            realized |-> m.realized + gross - m.paid - m.entryFees - fee,
            fees |-> m.fees + fee]
    BY <2>1, WholeSaleMirrored DEF Shows
  <2> HIDE DEF gross, fee
  <2>4. /\ m.cash = cash /\ m.realized = realizedPnl /\ m.paid + m.entryFees = basis
        /\ m.paid \in Int /\ m.entryFees \in Int
    BY MirrorFields DEF Shows
  <2> QED
    BY <1>1, <2>1, <2>2, <2>3, <2>4 DEF Shows
<1>4. CASE Purchase(e, p, a)
  <2>1. /\ IsFill(e, "BUY") /\ e.quantity > 0 /\ e.quantity \in Int
        /\ e.exec = BuyPrice(p) /\ e.fee = e.quantity * BuyPrice(p) * FeeNum
        /\ quantity = 0 /\ quantity' = e.quantity /\ basis' = BuyCost(e.quantity, p)
        /\ cash' = cash - BuyCost(e.quantity, p)
        /\ realizedPnl' = realizedPnl
    BY <1>4, RowFields DEF Purchase, Recorded, IsFill
  <2> DEFINE gross == e.quantity * BuyPrice(p) * FeeDen
             fee == e.quantity * BuyPrice(p) * FeeNum
  <2>2. BuyCost(e.quantity, p) = gross + fee /\ gross \in Int /\ fee \in Int
    BY <2>1, FeeApart
  <2>3. Apply(m, e) =
           [cash |-> m.cash - gross - fee, position |-> m.position + e.quantity,
            paid |-> m.paid + gross, entryFees |-> m.entryFees + fee,
            realized |-> m.realized, fees |-> m.fees + fee]
    BY <2>1, PurchaseMirrored
  <2> HIDE DEF gross, fee
  <2>4. /\ m.cash = cash /\ m.realized = realizedPnl /\ m.position = 0
        /\ m.paid = 0 /\ m.entryFees = 0
    BY <2>1 DEF Shows
  <2> QED
    BY <1>1, <2>1, <2>2, <2>3, <2>4 DEF Shows
<1> QED
  BY <1>2, <1>3, <1>4

\* No row later than the cursor, no change.
LEMMA NothingLater ==
  ASSUME NEW m \in Mirrors, NEW cursor, NEW es \in Seq(Rows),
         \A k \in 1..Len(es) : ~Later(es[k], cursor)
  PROVE  Advance(m, cursor, es) = m
<1> DEFINE h == [ k \in 0..Len(es) |-> m ]
<1>1. Len(es) \in Nat
  OBVIOUS
<1>2. \A k \in 1..Len(es) : k \in 0..Len(es) /\ k - 1 \in 0..Len(es)
  BY <1>1
<1>3. h[0] = m /\ h[Len(es)] = m
  BY <1>1
<1>4. \A k \in 1..Len(es) : h[k] = Moved(h[k - 1], cursor, es[k])
  BY <1>2 DEF Moved
<1> HIDE DEF h
<1> QED
  BY <1>3, <1>4, TrailIsAdvance

\* Replaying one more row.
LEMMA ReplayAppend ==
  ASSUME NEW es \in Seq(Rows), NEW e \in Rows, e.ts > 0
  PROVE  /\ FullReplay(es) \in Mirrors
         /\ FullReplay(Append(es, e)) = Apply(FullReplay(es), e)
<1>1. MirrorStart \in Mirrors
  BY MoneyPositive DEF MirrorStart, Mirrors
<1>2. Moved(FullReplay(es), 0, e) = Apply(FullReplay(es), e)
  BY DEF Moved, Later
<1> QED
  BY <1>1, <1>2, AdvanceAppend DEF FullReplay

LEMMA ReplayNothing ==
  /\ MirrorStart \in Mirrors
  /\ FullReplay(<<>>) = MirrorStart
<1>1. MirrorStart \in Mirrors
  BY MoneyPositive DEF MirrorStart, Mirrors
<1>2. PICK e \in Rows : TRUE
  <2> DEFINE e == [ts |-> 0, signal |-> "HOLD", action |-> "HOLD", filled |-> FALSE,
                   reason |-> "", exec |-> 0, quantity |-> 0, fee |-> 0, equity |-> 0,
                   close |-> 0, high |-> 0, low |-> 0, stop |-> 0, target |-> 0]
  <2>1. e \in Rows
    BY DEF Rows, Action, Reason
  <2> QED
    BY <2>1
<1>3. <<>> \in Seq(Rows)
  OBVIOUS
<1>4. Advance(MirrorStart, 0, <<>>) = MirrorStart
  BY <1>1, <1>2, <1>3, AdvanceAppend
<1> QED
  BY <1>1, <1>4 DEF FullReplay

\* The rows and the state of the engine they end in.
Journaled ==
  /\ Solo
  /\ trace \in Seq(Rows) /\ stored \in Seq(Rows)
  /\ Len(trace) <= lastTimestamp
  /\ ~raised => Len(trace) = lastTimestamp
  /\ raised => quantity = 0
  /\ \A k \in 1..Len(trace) : trace[k].ts = k
  /\ trace # <<>> => trace[Len(trace)].equity = cash + quantity * lastPrice * Money
  /\ Shows(FullReplay(trace), cash, quantity, realizedPnl, basis)
  /\ damage = "" => stored = trace

\* A sequence with one more element.
LEMMA Appending ==
  ASSUME NEW S, NEW es \in Seq(S), NEW e \in S
  PROVE  /\ Append(es, e) \in Seq(S) /\ Append(es, e) # <<>>
         /\ Len(Append(es, e)) = Len(es) + 1 /\ Append(es, e)[Len(es) + 1] = e
         /\ \A k \in 1..Len(es) : Append(es, e)[k] = es[k]
<1>1. Len(es) \in Nat /\ Len(Append(es, e)) = Len(es) + 1
  OBVIOUS
<1>2. Append(es, e) # <<>>
  BY <1>1
<1> QED
  BY <1>1, <1>2

\* Where a sequence is defined, and its last element.
LEMMA Indexing ==
  ASSUME NEW S, NEW es \in Seq(S)
  PROVE  /\ Len(es) \in Nat /\ DOMAIN es = 1..Len(es)
         /\ \A k \in 1..Len(es) : es[k] \in S
         /\ es # <<>> => Len(es) \in 1..Len(es)
<1>1. Len(es) \in Nat /\ DOMAIN es = 1..Len(es)
  OBVIOUS
<1>2. \A k \in 1..Len(es) : es[k] \in S
  OBVIOUS
<1>3. es # <<>> => Len(es) \in 1..Len(es)
  OBVIOUS
<1> QED
  BY <1>1, <1>2, <1>3

LEMMA JournaledInit == JournalInit => Journaled
<1> SUFFICES ASSUME JournalInit PROVE Journaled
  OBVIOUS
<1>1. Init /\ trace = <<>> /\ stored = <<>> /\ raised = FALSE
  BY DEF JournalInit
<1>2. Solo
  BY <1>1, SoloInit
<1>3. /\ trace \in Seq(Rows) /\ stored \in Seq(Rows) /\ Len(trace) = 0
  BY <1>1
<1>4. cash = InitialCash /\ quantity = 0 /\ realizedPnl = 0 /\ basis = 0 /\ lastTimestamp = 0
  BY <1>1 DEF Init
<1>5. Shows(FullReplay(trace), cash, quantity, realizedPnl, basis)
  BY <1>1, <1>4, ReplayNothing DEF Shows, MirrorStart
<1> QED
  BY <1>1, <1>2, <1>3, <1>4, <1>5 DEF Journaled

LEMMA JournaledRun ==
  ASSUME MaxOpenPositions <= 1, Journaled, NEW p \in Prices, NEW a \in Atrs,
         NEW wick \in Wicks, NEW signal \in Action, Run(p, a, wick, signal)
  PROVE  Journaled'
<1>1. /\ Solo /\ trace \in Seq(Rows) /\ stored \in Seq(Rows)
      /\ \A k \in 1..Len(trace) : trace[k].ts = k
      /\ Shows(FullReplay(trace), cash, quantity, realizedPnl, basis)
      /\ damage = "" => stored = trace
  BY DEF Journaled
<1>2. /\ lastPrice' = p /\ lastTimestamp \in Nat /\ lastTimestamp' = lastTimestamp + 1
      /\ ~raised /\ UNCHANGED <<checkpoint, damage>> /\ verdict' = ""
  BY <1>1, RunCases
<1>3. Len(trace) = lastTimestamp /\ Len(trace) \in Nat
  BY <1>1, <1>2 DEF Journaled
<1> DEFINE n == Len(trace)
<1>7. n \in Nat /\ n <= n + 1 /\ lastTimestamp' = n + 1 /\ 1..(n + 1) = (1..n) \cup {n + 1}
  <2>1. n \in Nat /\ lastTimestamp' = n + 1
    BY <1>2, <1>3
  <2> HIDE DEF n
  <2> QED
    BY <2>1
<1>4. Solo'
  <2>1. [JournalNext]_journalVars
    BY DEF JournalNext
  <2>2. [Next]_vars
    BY <1>1, <2>1, JournalStepIsStep DEF Solo, Managed
  <2> QED
    BY <1>1, <2>2, SoloStep
<1>5. CASE /\ raised' /\ UNCHANGED account /\ quantity = 0
           /\ UNCHANGED <<trace, stored>>
  <2>1. /\ trace' = trace /\ stored' = stored /\ cash' = cash /\ quantity' = quantity
        /\ realizedPnl' = realizedPnl /\ basis' = basis /\ quantity = 0 /\ damage' = damage
    BY <1>2, <1>5 DEF account
  <2>2. Len(trace) <= lastTimestamp'
    BY <1>7
  <2>3. ASSUME trace # <<>>
        PROVE  trace[Len(trace)].equity = cash + quantity * lastPrice' * Money
    <3>1. trace[Len(trace)].equity = cash + quantity * lastPrice * Money
      BY <2>3 DEF Journaled
    <3>2. lastPrice \in Int /\ lastPrice' \in Int /\ Money \in Int
      <4>1. TypeOK /\ TypeOK'
        BY <1>1, <1>4 DEF Solo, Managed, Sound
      <4>2. lastPrice \in Nat /\ lastPrice' \in Nat
        BY <4>1 DEF TypeOK
      <4> QED
        BY <4>2, MoneyPositive
    <3>3. quantity * lastPrice * Money = 0 /\ quantity * lastPrice' * Money = 0
      <4>1. \A x \in Int : 0 * x * Money = 0
        BY <3>2
      <4> QED
        BY <2>1, <3>2, <4>1
    <3> QED
      BY <3>1, <3>3
  <2> QED
    BY <1>1, <1>4, <1>5, <2>1, <2>2, <2>3 DEF Journaled
<1>6. CASE /\ ~raised'
           /\ \E e \in Rows :
                /\ trace' = Append(trace, e) /\ stored' = Append(stored, e)
                /\ Recorded(e, p, wick)
                /\ Idle(e, p, a) \/ Sale(e, p, a) \/ Purchase(e, p, a)
  <2>1. PICK e \in Rows :
                /\ trace' = Append(trace, e) /\ stored' = Append(stored, e)
                /\ Recorded(e, p, wick)
                /\ Idle(e, p, a) \/ Sale(e, p, a) \/ Purchase(e, p, a)
    BY <1>6
  <2>2. e.ts = lastTimestamp + 1 /\ e.equity = cash' + quantity' * p * Money
    BY <2>1 DEF Recorded
  <2>3. /\ trace' \in Seq(Rows) /\ stored' \in Seq(Rows)
        /\ Len(trace') = lastTimestamp' /\ trace' # <<>> /\ trace'[Len(trace')] = e
        /\ \A k \in 1..Len(trace') : trace'[k].ts = k
    <3>1. /\ Len(Append(trace, e)) = Len(trace) + 1
          /\ Append(trace, e)[Len(trace) + 1] = e
          /\ \A k \in 1..Len(trace) : Append(trace, e)[k] = trace[k]
          /\ Append(trace, e) \in Seq(Rows) /\ Append(stored, e) \in Seq(Rows)
          /\ Append(trace, e) # <<>>
      <4>1. trace \in Seq(Rows) /\ stored \in Seq(Rows) /\ e \in Rows
        BY <1>1
      <4> QED
        BY <4>1, Appending
    <3>2. \A k \in 1..(n + 1) : k \in 1..n \/ k = n + 1
      BY <1>7
    <3>3. e.ts = n + 1
      BY <1>3, <2>2
    <3> QED
      BY <1>1, <1>7, <2>1, <3>1, <3>2, <3>3
  <2>4. Shows(FullReplay(trace)', cash', quantity', realizedPnl', basis')
    <3>1. FullReplay(trace)' = FullReplay(Append(trace, e))
      BY <2>1
    <3>2. /\ FullReplay(trace) \in Mirrors
          /\ FullReplay(Append(trace, e)) = Apply(FullReplay(trace), e)
      <4>1. e.ts > 0 /\ trace \in Seq(Rows)
        <5>1. e.ts = n + 1
          BY <1>3, <2>2
        <5>2. n \in Nat
          BY <1>7
        <5>3. n + 1 > 0
          <6> HIDE DEF n
          <6> QED
            BY <5>2
        <5> QED
          BY <1>1, <5>1, <5>3
      <4> QED
        BY <4>1, ReplayAppend
    <3> QED
      BY <1>1, <2>1, <3>1, <3>2, MirrorFollows
  <2>5. damage' = "" => stored' = trace'
    BY <1>1, <1>2, <2>1
  <2>6. /\ Len(trace') <= lastTimestamp'
        /\ trace'[Len(trace')].equity = cash' + quantity' * lastPrice' * Money
    <3>1. trace'[Len(trace')] = e /\ Len(trace') = lastTimestamp'
      BY <2>3
    <3>2. lastTimestamp' = n + 1 /\ n + 1 <= n + 1
      BY <1>7
    <3>3. lastPrice' = p
      BY <1>2
    <3> QED
      BY <2>2, <3>1, <3>2, <3>3
  <2> QED
    BY <1>4, <1>6, <2>3, <2>4, <2>5, <2>6 DEF Journaled
<1> QED
  BY <1>1, <1>5, <1>6, RunCases

\* A row changed or deleted leaves rows.
LEMMA TamperedRows ==
  ASSUME NEW es \in Seq(Rows), NEW i \in DOMAIN es
  PROVE  /\ RemoveAt(es, i) \in Seq(Rows) /\ Len(RemoveAt(es, i)) = Len(es) - 1
         /\ \A k \in 1..(Len(es) - 1) :
              RemoveAt(es, i)[k] = IF k < i THEN es[k] ELSE es[k + 1]
         /\ [es EXCEPT ![i].quantity = @ + 1] \in Seq(Rows)
         /\ Len([es EXCEPT ![i].quantity = @ + 1]) = Len(es)
         /\ \A k \in 1..Len(es) :
              [es EXCEPT ![i].quantity = @ + 1][k] =
                IF k = i THEN [es[i] EXCEPT !.quantity = @ + 1] ELSE es[k]
<1> DEFINE n == Len(es)
           left == SubSeq(es, 1, i - 1)
           right == SubSeq(es, i + 1, n)
<1>1. n \in Nat /\ i \in 1..n /\ DOMAIN es = 1..n /\ \A k \in 1..n : es[k] \in Rows
  OBVIOUS
<1>2. /\ left \in Seq(Rows) /\ Len(left) = i - 1
      /\ \A k \in 1..(i - 1) : left[k] = es[k]
  BY <1>1
<1>3. /\ right \in Seq(Rows) /\ Len(right) = n - i
      /\ \A k \in 1..(n - i) : right[k] = es[i + k]
  <2>1. Len(right) = n - i
    BY <1>1
  <2>2. ASSUME NEW k \in 1..(n - i) PROVE right[k] = es[i + k] /\ i + k \in 1..n
    <3>1. i + k \in 1..n /\ (i + 1) + k - 1 = i + k
      BY <1>1
    <3> QED
      BY <1>1, <2>1, <3>1
  <2>3. right \in Seq(Rows)
    <3>1. i + 1 \in Int /\ n \in Int
      BY <1>1
    <3> QED
      BY <1>1, <2>1, <2>2, <3>1
  <2> QED
    BY <2>1, <2>2, <2>3
<1> HIDE DEF left, right
<1>4. RemoveAt(es, i) = left \o right
  BY DEF RemoveAt, left, right
<1>5. /\ left \o right \in Seq(Rows) /\ Len(left \o right) = n - 1
      /\ \A k \in 1..(n - 1) :
           (left \o right)[k] = IF k <= i - 1 THEN left[k] ELSE right[k - (i - 1)]
  <2>1. left \o right \in Seq(Rows) /\ Len(left \o right) = (i - 1) + (n - i)
    <3>1. left \in Seq(Rows) /\ right \in Seq(Rows)
      BY <1>2, <1>3
    <3>2. left \o right \in Seq(Rows) /\ Len(left \o right) = Len(left) + Len(right)
      BY <3>1
    <3> QED
      BY <1>2, <1>3, <3>2
  <2>2. (i - 1) + (n - i) = n - 1
    BY <1>1
  <2>3. \A k \in 1..((i - 1) + (n - i)) :
          (left \o right)[k] = IF k <= i - 1 THEN left[k] ELSE right[k - (i - 1)]
    BY <1>1, <1>2, <1>3, SMTT(40)
  <2> QED
    BY <2>1, <2>2, <2>3
<1>6. ASSUME NEW k \in 1..(n - 1)
      PROVE  RemoveAt(es, i)[k] = IF k < i THEN es[k] ELSE es[k + 1]
  <2>1. CASE k < i
    BY <1>1, <1>2, <1>4, <1>5, <2>1
  <2>2. CASE ~(k < i)
    <3>1. k - (i - 1) \in 1..(n - i) /\ i + (k - (i - 1)) = k + 1 /\ ~(k <= i - 1)
      BY <1>1, <2>2
    <3> QED
      BY <1>3, <1>4, <1>5, <2>2, <3>1, ZenonT(60)
  <2> QED
    BY <2>1, <2>2
<1> DEFINE more == [es EXCEPT ![i].quantity = @ + 1]
           r == [es[i] EXCEPT !.quantity = @ + 1]
<1>7. r \in Rows
  <2>1. es[i] \in Rows /\ es[i].quantity + 1 \in Int
    BY <1>1, RowFields
  <2> QED
    BY <2>1 DEF Rows
<1> HIDE DEF r
<1>8. more = [ k \in 1..n |-> IF k = i THEN r ELSE es[k] ]
  BY <1>1 DEF r
<1>9. more \in Seq(Rows) /\ Len(more) = n
  <2>1. [ k \in 1..n |-> IF k = i THEN r ELSE es[k] ] \in [1..n -> Rows]
    BY <1>1, <1>7
  <2>2. [ k \in 1..n |-> IF k = i THEN r ELSE es[k] ] \in Seq(Rows)
    BY <1>1, <2>1
  <2> QED
    BY <1>1, <1>8, <2>2
<1>10. \A k \in 1..n : more[k] = IF k = i THEN r ELSE es[k]
  BY <1>8
<1> QED
  BY <1>4, <1>5, <1>6, <1>9, <1>10 DEF r

-----------------------------------------------------------------------------
(* What a changed fill leaves behind.                                      *)

\* How a row fits the position it finds: a fill opens one from nothing or sells
\* all of it, and costs a fee.
Fits(at, e) ==
  e.filled =>
    \/ e.action = "BUY" /\ at = 0 /\ e.quantity > 0 /\ e.fee > 0
    \/ /\ e.action = "SELL" /\ at > 0 /\ e.quantity = at
       /\ \E u \in Int : u > 0 /\ e.fee = at * u

LEMMA RowFits ==
  ASSUME FeeNum > 0, Solo, NEW p \in Prices, NEW a \in Atrs, NEW wick \in Wicks,
         NEW e \in Rows, Recorded(e, p, wick),
         Idle(e, p, a) \/ Sale(e, p, a) \/ Purchase(e, p, a)
  PROVE  Fits(quantity, e)
<1>1. /\ quantity \in Int /\ e.quantity \in Int /\ FeeNum \in Int
      /\ BuyPrice(p) \in Int /\ BuyPrice(p) > 0 /\ SellPrice(p) \in Int /\ SellPrice(p) > 0
      /\ e.fee = e.quantity * e.exec * FeeNum
  BY SoundTypes, RowFields, Constants, ExecutionPrices DEF Solo, Managed, Recorded
<1>2. CASE Idle(e, p, a)
  BY <1>2 DEF Idle, Fits
<1>3. CASE Sale(e, p, a)
  <2>1. /\ e.action = "SELL" /\ quantity > 0 /\ e.quantity = quantity
        /\ e.exec = SellPrice(p)
    BY <1>3 DEF Sale
  <2>2. SellPrice(p) * FeeNum \in Int /\ SellPrice(p) * FeeNum > 0
    BY <1>1, Product
  <2>3. quantity * SellPrice(p) * FeeNum = quantity * (SellPrice(p) * FeeNum)
    BY <1>1
  <2> QED
    BY <1>1, <2>1, <2>2, <2>3 DEF Fits
<1>4. CASE Purchase(e, p, a)
  <2>1. e.action = "BUY" /\ quantity = 0 /\ e.quantity > 0 /\ e.exec = BuyPrice(p)
    BY <1>4 DEF Purchase
  <2>2. e.quantity * BuyPrice(p) \in Int /\ e.quantity * BuyPrice(p) > 0
    BY <1>1, <2>1, Product
  <2>3. e.quantity * BuyPrice(p) * FeeNum > 0
    BY <1>1, <2>2, Product
  <2> QED
    BY <1>1, <2>1, <2>3 DEF Fits
<1> QED
  BY <1>2, <1>3, <1>4

\* A replay that has too many lots, or paid too little in fees and has no others.
Gap(F, M) ==
  /\ M.position >= 0
  /\ \/ F.position > M.position
     \/ F.fees < M.fees /\ (F.position = 0 \/ F.position = M.position)

LEMMA GapStays ==
  ASSUME NEW F \in Mirrors, NEW M \in Mirrors, NEW e \in Rows,
         Fits(M.position, e), Gap(F, M)
  PROVE  Gap(Apply(F, e), Apply(M, e))
<1>1. /\ F.position \in Int /\ F.fees \in Int /\ M.position \in Int /\ M.fees \in Int
      /\ e.quantity \in Int /\ e.fee \in Int
  BY MirrorFields, RowFields
<1>2. CASE ~e.filled
  BY <1>2, IdleMirrored
<1>3. CASE IsFill(e, "BUY") /\ M.position = 0 /\ e.quantity > 0 /\ e.fee > 0
  <2>1. /\ Apply(F, e).position = F.position + e.quantity
        /\ Apply(F, e).fees = F.fees + e.fee
        /\ Apply(M, e).position = M.position + e.quantity
        /\ Apply(M, e).fees = M.fees + e.fee
    BY <1>3, PurchaseMirrored
  <2> QED
    BY <1>1, <1>3, <2>1 DEF Gap
<1>4. CASE IsFill(e, "SELL") /\ M.position > 0 /\ e.quantity = M.position
           /\ \E u \in Int : u > 0 /\ e.fee = M.position * u
  <2>1. e.fee > 0
    BY <1>1, <1>4, Product
  <2>2. Apply(M, e).position = 0 /\ Apply(M, e).fees = M.fees + e.fee
    BY <1>4, WholeSaleMirrored
  <2>3. CASE F.position > M.position
    <3> DEFINE sold == Smaller(e.quantity, F.position)
    <3>1. sold = e.quantity
      BY <1>1, <1>4, <2>3 DEF Smaller
    <3>2. ~(e.quantity <= 0 \/ F.position <= 0)
      BY <1>1, <1>4, <2>3
    <3>3. ApplySell(F, e).position = F.position - sold
      BY <3>2 DEF ApplySell
    <3>4. Apply(F, e).position = F.position - M.position
      BY <1>4, <3>1, <3>3 DEF Apply, IsFill
    <3> QED
      BY <1>1, <2>2, <2>3, <3>4 DEF Gap
  <2>4. CASE F.fees < M.fees /\ F.position = M.position
    <3>1. Apply(F, e).position = 0 /\ Apply(F, e).fees = F.fees + e.fee
      BY <1>4, <2>4, WholeSaleMirrored
    <3> QED
      BY <1>1, <2>2, <2>4, <3>1 DEF Gap
  <2>5. CASE F.fees < M.fees /\ F.position = 0
    <3>1. Apply(F, e) = F
      BY <1>4, <2>5 DEF Apply, ApplySell, IsFill
    <3> QED
      BY <1>1, <2>1, <2>2, <2>5, <3>1 DEF Gap
  <2> QED
    BY <2>3, <2>4, <2>5 DEF Gap
<1> QED
  BY <1>2, <1>3, <1>4 DEF Fits, IsFill

\* Positions of rows that fit are never short.
LEMMA FitsLong ==
  ASSUME NEW M \in Mirrors, NEW e \in Rows, Fits(M.position, e), M.position >= 0
  PROVE  Apply(M, e) \in Mirrors /\ Apply(M, e).position >= 0
<1>1. CASE ~e.filled
  BY <1>1, IdleMirrored
<1>2. CASE IsFill(e, "BUY") /\ e.quantity > 0
  <2>1. Apply(M, e).position = M.position + e.quantity
    BY <1>2, PurchaseMirrored
  <2> QED
    BY <1>2, <2>1, ApplyMirrored, RowFields, MirrorFields
<1>3. CASE IsFill(e, "SELL") /\ M.position > 0 /\ e.quantity = M.position
  <2>1. Apply(M, e).position = 0
    BY <1>3, WholeSaleMirrored
  <2> QED
    BY <2>1, ApplyMirrored
<1> QED
  BY <1>1, <1>2, <1>3, ApplyMirrored DEF Fits, IsFill

OneMore(e) == [e EXCEPT !.quantity = @ + 1]

LEMMA OneMoreRow ==
  ASSUME NEW e \in Rows
  PROVE  /\ OneMore(e) \in Rows /\ OneMore(e).quantity = e.quantity + 1
         /\ OneMore(e).filled = e.filled /\ OneMore(e).action = e.action
         /\ OneMore(e).fee = e.fee /\ OneMore(e).ts = e.ts
<1>1. e.quantity + 1 \in Int
  BY RowFields
<1> QED
  BY <1>1 DEF OneMore, Rows

\* Deleting a fill, or giving it one more lot, opens the gap.
LEMMA GapOpens ==
  ASSUME NEW M \in Mirrors, NEW e \in Rows, e.filled, Fits(M.position, e), M.position >= 0
  PROVE  Gap(M, Apply(M, e)) /\ Gap(Apply(M, OneMore(e)), Apply(M, e))
<1>1. /\ M.position \in Int /\ M.fees \in Int /\ e.quantity \in Int /\ e.fee \in Int
      /\ OneMore(e) \in Rows /\ OneMore(e).quantity = e.quantity + 1
      /\ OneMore(e).filled /\ OneMore(e).action = e.action /\ OneMore(e).fee = e.fee
  BY MirrorFields, RowFields, OneMoreRow
<1>2. CASE e.action = "BUY" /\ M.position = 0 /\ e.quantity > 0 /\ e.fee > 0
  <2>1. Apply(M, e).position = M.position + e.quantity /\ Apply(M, e).fees = M.fees + e.fee
    BY <1>2, PurchaseMirrored DEF IsFill
  <2>2. OneMore(e).quantity > 0 /\ IsFill(OneMore(e), "BUY")
    BY <1>1, <1>2 DEF IsFill
  <2>3. Apply(M, OneMore(e)).position = M.position + OneMore(e).quantity
    BY <1>1, <2>2, PurchaseMirrored
  <2> QED
    BY <1>1, <1>2, <2>1, <2>3 DEF Gap
<1>3. CASE /\ e.action = "SELL" /\ M.position > 0 /\ e.quantity = M.position
           /\ \E u \in Int : u > 0 /\ e.fee = M.position * u
  <2>1. Apply(M, e).position = 0 /\ Apply(M, e).fees = M.fees + e.fee
    BY <1>3, WholeSaleMirrored DEF IsFill
  <2>2. e.fee > 0
    BY <1>1, <1>3, Product
  <2> DEFINE r == OneMore(e)
             q == e.quantity
             exitFee == (e.fee * q) \div (q + 1)
  <2>3. Smaller(r.quantity, M.position) = q
    BY <1>1, <1>3 DEF Smaller
  <2>4. ~(r.quantity <= 0 \/ M.position <= 0)
    BY <1>1, <1>3
  <2>5. ApplySell(M, r).position = M.position - q /\ ApplySell(M, r).fees = M.fees + exitFee
    BY <1>1, <2>3, <2>4 DEF ApplySell
  <2>6. Apply(M, r) = ApplySell(M, r)
    BY <1>1, <1>3 DEF Apply, IsFill
  <2> HIDE DEF r
  <2>7. exitFee < e.fee /\ exitFee \in Int
    <3> DEFINE x == e.fee * q
    <3>1. q + 1 \in Int /\ q + 1 > 0 /\ x \in Int
      BY <1>1, <1>3
    <3>2. exitFee \in Int /\ (q + 1) * exitFee <= x
      BY <3>1, Quotient
    <3>3. x < (q + 1) * e.fee
      BY <1>1, <2>2
    <3> HIDE DEF x, exitFee
    <3>4. ASSUME exitFee >= e.fee PROVE FALSE
      <4>1. e.fee * (q + 1) <= exitFee * (q + 1)
        BY <1>1, <3>1, <3>2, <3>4, Monotone
      <4>2. e.fee * (q + 1) = (q + 1) * e.fee /\ exitFee * (q + 1) = (q + 1) * exitFee
        BY <1>1, <3>1, <3>2
      <4>3. (q + 1) * e.fee \in Int /\ (q + 1) * exitFee \in Int
        BY <1>1, <3>1, <3>2
      <4> QED
        BY <3>1, <3>2, <3>3, <4>1, <4>2, <4>3
    <3> QED
      BY <1>1, <3>2, <3>4
  <2> HIDE DEF exitFee
  <2>8. Apply(M, r).position = 0 /\ Apply(M, r).fees = M.fees + exitFee
    BY <1>1, <1>3, <2>5, <2>6
  <2>9. Gap(M, Apply(M, e))
    BY <1>1, <1>3, <2>1 DEF Gap
  <2>10. Gap(Apply(M, r), Apply(M, e))
    BY <1>1, <2>1, <2>7, <2>8 DEF Gap
  <2> QED
    BY <2>9, <2>10 DEF r
<1> QED
  BY <1>2, <1>3 DEF Fits

\* Every row fits the position the rows before it leave.
Fitting(es) ==
  \E g : /\ MirrorTrail(g, MirrorStart, 0, es)
         /\ \A k \in 1..Len(es) : Fits(g[k - 1].position, es[k])

LEMMA FittingAppend ==
  ASSUME NEW es \in Seq(Rows), NEW e \in Rows, e.ts > 0, Fitting(es),
         Fits(FullReplay(es).position, e)
  PROVE  Fitting(Append(es, e))
<1> DEFINE n == Len(es)
           more == Append(es, e)
<1>1. n \in Nat
  OBVIOUS
<1>2. /\ more \in Seq(Rows) /\ Len(more) = n + 1 /\ more[n + 1] = e
      /\ \A k \in 1..n : more[k] = es[k]
  BY Appending
<1>3. PICK g : /\ MirrorTrail(g, MirrorStart, 0, es)
               /\ \A k \in 1..n : Fits(g[k - 1].position, es[k])
  BY DEF Fitting
<1> HIDE DEF more
<1>4. /\ g \in [0..n -> Mirrors] /\ g[0] = MirrorStart
      /\ \A k \in 1..n : g[k] = Moved(g[k - 1], 0, es[k])
  BY <1>3 DEF MirrorTrail
<1>5. FullReplay(es) = g[n]
  BY <1>4, ReplayNothing, TrailIsAdvance DEF FullReplay
<1> HIDE DEF n
<1>6. g[n] \in Mirrors /\ Moved(g[n], 0, e) \in Mirrors
  BY <1>1, <1>4, MovedMirrored
<1> DEFINE h == [ k \in 0..(n + 1) |-> IF k = n + 1 THEN Moved(g[n], 0, e) ELSE g[k] ]
<1>7. \A k \in 0..(n + 1) : k = n + 1 \/ k \in 0..n
  BY <1>1
<1>8. h \in [0..(n + 1) -> Mirrors] /\ h[0] = MirrorStart
  BY <1>1, <1>4, <1>6, <1>7
<1>9. ASSUME NEW k \in 1..(n + 1)
      PROVE  /\ h[k] = Moved(h[k - 1], 0, more[k])
             /\ Fits(h[k - 1].position, more[k])
  <2>1. k \in 0..(n + 1) /\ k - 1 \in 0..n /\ h[k - 1] = g[k - 1]
    BY <1>1
  <2>2. CASE k = n + 1
    <3>1. k - 1 = n
      BY <1>1, <2>2
    <3> QED
      BY <1>2, <1>5, <2>1, <2>2, <3>1
  <2>3. CASE k # n + 1
    <3>1. k \in 1..n /\ h[k] = g[k]
      BY <1>1, <2>1, <2>3
    <3> HIDE DEF h
    <3> QED
      BY <1>2, <1>3, <1>4, <2>1, <3>1
  <2> QED
    BY <2>2, <2>3
<1> HIDE DEF h
<1>10. MirrorTrail(h, MirrorStart, 0, more)
  BY <1>2, <1>8, <1>9 DEF MirrorTrail
<1> QED
  BY <1>2, <1>9, <1>10 DEF Fitting, more

\* A row changed or deleted, with the number of rows it is short.
Changed(es, i, other, d) ==
  /\ other \in Seq(Rows) /\ Len(other) = Len(es) - d
  /\ \A k \in 1..(i - 1) : other[k] = es[k]
  /\ \A k \in (i + 1)..Len(es) : other[k - d] = es[k]
  /\ d = 1 \/ (d = 0 /\ other[i] = OneMore(es[i]))

LEMMA TamperChanges ==
  ASSUME NEW es \in Seq(Rows), NEW i \in DOMAIN es
  PROVE  /\ Changed(es, i, RemoveAt(es, i), 1)
         /\ Changed(es, i, [es EXCEPT ![i].quantity = @ + 1], 0)
<1> DEFINE n == Len(es)
<1>1. n \in Nat /\ i \in 1..n
  OBVIOUS
<1>2. /\ RemoveAt(es, i) \in Seq(Rows) /\ Len(RemoveAt(es, i)) = n - 1
      /\ \A k \in 1..(n - 1) : RemoveAt(es, i)[k] = IF k < i THEN es[k] ELSE es[k + 1]
  BY TamperedRows
<1>3. /\ [es EXCEPT ![i].quantity = @ + 1] \in Seq(Rows)
      /\ Len([es EXCEPT ![i].quantity = @ + 1]) = n
      /\ \A k \in 1..n : [es EXCEPT ![i].quantity = @ + 1][k] =
                           IF k = i THEN OneMore(es[i]) ELSE es[k]
  BY TamperedRows DEF OneMore
<1> HIDE DEF n
<1>4. \A k \in 1..(i - 1) : k \in 1..(n - 1) /\ k < i /\ k \in 1..n /\ k # i
  BY <1>1
<1>5. \A k \in (i + 1)..n : /\ k - 1 \in 1..(n - 1) /\ ~(k - 1 < i) /\ (k - 1) + 1 = k
                            /\ k \in 1..n /\ k # i /\ k - 0 = k
  BY <1>1
<1>6. Changed(es, i, RemoveAt(es, i), 1)
  BY <1>2, <1>4, <1>5 DEF Changed, n
<1>7. Changed(es, i, [es EXCEPT ![i].quantity = @ + 1], 0)
  <2>1. n = n - 0
    BY <1>1
  <2> QED
    BY <1>1, <1>3, <1>4, <1>5, <2>1 DEF Changed, n
<1> QED
  BY <1>6, <1>7

\* What a replay makes of a changed fill is apart from what it makes of the true one.
LEMMA ChangeOpensGap ==
  ASSUME NEW es \in Seq(Rows), \A k \in 1..Len(es) : es[k].ts > 0, Fitting(es),
         NEW i \in 1..Len(es), es[i].filled, NEW other, NEW d, Changed(es, i, other, d)
  PROVE  Gap(FullReplay(other), FullReplay(es))
<1> DEFINE n == Len(es)
<1>1. n \in Nat /\ i \in 1..n /\ d \in {0, 1}
  BY DEF Changed
<1>2. PICK g : /\ MirrorTrail(g, MirrorStart, 0, es)
               /\ \A k \in 1..n : Fits(g[k - 1].position, es[k])
  BY DEF Fitting
<1>3. /\ other \in Seq(Rows) /\ Len(other) = n - d
      /\ \A k \in 1..(i - 1) : other[k] = es[k]
      /\ \A k \in (i + 1)..n : other[k - d] = es[k]
      /\ d = 1 \/ (d = 0 /\ other[i] = OneMore(es[i]))
  BY DEF Changed
<1>4. PICK f : /\ MirrorTrail(f, MirrorStart, 0, other)
               /\ Advance(MirrorStart, 0, other) = f[Len(other)]
  <2>1. MirrorStart \in Mirrors /\ other \in Seq(Rows)
    BY <1>3, ReplayNothing
  <2> QED
    BY <2>1, AdvanceTrail
<1>5. /\ g \in [0..n -> Mirrors] /\ g[0] = MirrorStart
      /\ \A k \in 1..n : g[k] = Moved(g[k - 1], 0, es[k])
  BY <1>2 DEF MirrorTrail
<1>6. FullReplay(es) = g[n]
  BY <1>5, ReplayNothing, TrailIsAdvance DEF FullReplay
<1>7. \A k \in 1..n : es[k] \in Rows /\ es[k].ts > 0
  OBVIOUS
<1> HIDE DEF n
<1>8. /\ f \in [0..(n - d) -> Mirrors] /\ f[0] = MirrorStart
      /\ \A k \in 1..(n - d) : f[k] = Moved(f[k - 1], 0, other[k])
      /\ FullReplay(other) = f[n - d]
  BY <1>3, <1>4 DEF MirrorTrail, FullReplay
<1>9. \A k \in 1..n : k - 1 \in 0..n /\ k \in 0..n
  BY <1>1
<1>10. \A k \in 1..n : g[k] = Apply(g[k - 1], es[k])
  BY <1>5, <1>7 DEF Moved, Later
<1> DEFINE Long(k) == g[k].position >= 0
           Ok(k) == IF k < i THEN f[k] = g[k] ELSE Gap(f[k - d], g[k])
           T == { k \in 0..n : ~(Long(k) /\ Ok(k)) }
<1>11. T = {}
  <2> SUFFICES ASSUME T # {} PROVE FALSE
    OBVIOUS
  <2>1. PICK m \in T : \A k \in T : m <= k
    <3>1. T \subseteq Nat
      BY <1>1
    <3> HIDE DEF T
    <3> QED
      BY <3>1, LeastNatural
  <2>2. Long(0) /\ Ok(0)
    <3>1. 0 < i
      BY <1>1
    <3> QED
      BY <1>5, <1>8, <3>1 DEF MirrorStart
  <2> HIDE DEF Long, Ok
  <2>3. m \in 0..n /\ ~(Long(m) /\ Ok(m)) /\ m # 0
    BY <2>1, <2>2
  <2>4. m \in 1..n /\ m - 1 \in 0..n /\ m - 1 \notin T
    <3>1. m \in 1..n /\ m - 1 \in 0..n /\ m - 1 < m
      BY <1>1, <2>3
    <3> HIDE DEF T
    <3> QED
      BY <1>1, <2>1, <3>1
  <2>5. Long(m - 1) /\ Ok(m - 1)
    BY <2>4
  <2> HIDE DEF T
  <2>6. /\ g[m - 1] \in Mirrors /\ g[m] \in Mirrors /\ es[m] \in Rows /\ es[m].ts > 0
        /\ g[m] = Apply(g[m - 1], es[m]) /\ Fits(g[m - 1].position, es[m])
        /\ g[m - 1].position >= 0
    BY <1>2, <1>5, <1>7, <1>9, <1>10, <2>4, <2>5 DEF Long
  <2>7. Long(m)
    BY <2>6, FitsLong DEF Long
  <2>8. CASE m < i
    <3>1. m \in 1..(i - 1) /\ m \in 1..(n - d) /\ m - 1 < i
      BY <1>1, <2>4, <2>8
    <3>2. f[m] = Moved(f[m - 1], 0, es[m]) /\ f[m - 1] = g[m - 1]
      BY <1>3, <1>8, <2>5, <3>1 DEF Ok
    <3>3. f[m] = g[m]
      BY <1>5, <2>4, <3>2
    <3> QED
      BY <2>3, <2>7, <2>8, <3>3 DEF Ok
  <2>9. CASE m = i
    <3>1. m - 1 < i /\ ~(m < i)
      BY <1>1, <2>9
    <3>2. f[m - 1] = g[m - 1]
      BY <2>5, <3>1 DEF Ok
    <3>3. Gap(g[m - 1], g[m]) /\ Gap(Apply(g[m - 1], OneMore(es[m])), g[m])
      BY <2>6, <2>9, GapOpens
    <3>4. CASE d = 1
      BY <2>3, <2>7, <3>1, <3>2, <3>3, <3>4 DEF Ok
    <3>5. CASE d = 0
      <4>1. m \in 1..(n - d) /\ m - d = m
        BY <1>1, <2>4, <3>5
      <4>2. other[m] = OneMore(es[m])
        BY <1>3, <2>9, <3>5
      <4>3. f[m] = Apply(g[m - 1], OneMore(es[m]))
        <5>1. f[m] = Moved(g[m - 1], 0, OneMore(es[m]))
          BY <1>8, <3>2, <4>1, <4>2
        <5>2. OneMore(es[m]).ts > 0
          BY <2>6, OneMoreRow
        <5> QED
          BY <5>1, <5>2 DEF Moved, Later
      <4> QED
        BY <2>3, <2>7, <3>1, <3>3, <4>1, <4>3 DEF Ok
    <3> QED
      BY <1>1, <3>4, <3>5
  <2>10. CASE m > i
    <3>1. /\ m \in (i + 1)..n /\ ~(m < i) /\ ~(m - 1 < i) /\ m - d \in 1..(n - d)
          /\ (m - d) - 1 = (m - 1) - d /\ (m - 1) - d \in 0..(n - d)
      BY <1>1, <2>4, <2>10
    <3>2. Gap(f[(m - 1) - d], g[m - 1]) /\ other[m - d] = es[m]
      BY <1>3, <2>5, <3>1 DEF Ok
    <3>3. f[m - d] = Apply(f[(m - 1) - d], es[m])
      <4>1. f[m - d] = Moved(f[(m - 1) - d], 0, es[m])
        BY <1>8, <3>1, <3>2
      <4> QED
        BY <2>6, <4>1 DEF Moved, Later
    <3>4. f[(m - 1) - d] \in Mirrors
      BY <1>8, <3>1
    <3>5. Gap(f[m - d], g[m])
      BY <2>6, <3>2, <3>3, <3>4, GapStays
    <3> QED
      BY <2>3, <2>7, <3>1, <3>5 DEF Ok
  <2> QED
    BY <1>1, <2>4, <2>8, <2>9, <2>10
<1>12. Ok(n)
  <2>1. n \in 0..n
    BY <1>1
  <2> HIDE DEF Ok, Long
  <2> QED
    BY <1>11, <2>1
<1>13. ~(n < i)
  BY <1>1
<1> QED
  BY <1>6, <1>8, <1>12, <1>13 DEF n

LEMMA NotLater ==
  ASSUME NEW e \in Rows, NEW cursor \in Nat, e.ts <= cursor
  PROVE  ~Later(e, cursor)
BY RowFields DEF Later

\* A replay that starts after the changed row does not see it.
LEMMA ChangeSkipped ==
  ASSUME NEW es \in Seq(Rows), NEW i \in 1..Len(es), NEW other, NEW d,
         Changed(es, i, other, d), NEW m \in Mirrors, NEW cursor, ~Later(es[i], cursor)
  PROVE  Advance(m, cursor, other) = Advance(m, cursor, es)
<1> DEFINE n == Len(es)
<1>1. n \in Nat /\ i \in 1..n /\ d \in {0, 1}
  BY DEF Changed
<1>2. PICK g : MirrorTrail(g, m, cursor, es) /\ Advance(m, cursor, es) = g[n]
  BY AdvanceTrail
<1>3. /\ other \in Seq(Rows) /\ Len(other) = n - d
      /\ \A k \in 1..(i - 1) : other[k] = es[k]
      /\ \A k \in (i + 1)..n : other[k - d] = es[k]
      /\ d = 1 \/ (d = 0 /\ other[i] = OneMore(es[i]))
  BY DEF Changed
<1>4. /\ g \in [0..n -> Mirrors] /\ g[0] = m
      /\ \A k \in 1..n : g[k] = Moved(g[k - 1], cursor, es[k])
  BY <1>2 DEF MirrorTrail
<1>5. es[i] \in Rows
  OBVIOUS
<1> HIDE DEF n
<1>6. g[i] = g[i - 1]
  BY <1>1, <1>4 DEF Moved
<1>7. ~Later(OneMore(es[i]), cursor)
  BY <1>5, OneMoreRow DEF Later
<1> DEFINE h == [ k \in 0..(n - d) |-> IF k < i THEN g[k] ELSE g[k + d] ]
<1>8. h[0] = m
  BY <1>1, <1>4
<1>9. h[n - d] = g[n]
  <2>1. n - d \in 0..(n - d) /\ (n - d) + d = n
    BY <1>1
  <2>2. CASE n - d < i
    <3>1. d = 1 /\ n = i
      BY <1>1, <2>2
    <3> QED
      BY <1>6, <2>1, <2>2, <3>1
  <2> QED
    BY <2>1, <2>2
<1>10. ASSUME NEW k \in 1..(n - d)
       PROVE  h[k] = Moved(h[k - 1], cursor, other[k])
  <2>1. k \in 0..(n - d) /\ k - 1 \in 0..(n - d)
    BY <1>1
  <2>2. /\ h[k] = IF k < i THEN g[k] ELSE g[k + d]
        /\ h[k - 1] = IF k - 1 < i THEN g[k - 1] ELSE g[(k - 1) + d]
    BY <2>1
  <2> HIDE DEF h
  <2>3. CASE k < i
    <3>1. k \in 1..(i - 1) /\ k \in 1..n /\ k - 1 < i
      BY <1>1, <2>1, <2>3
    <3> QED
      BY <1>3, <1>4, <2>2, <2>3, <3>1
  <2>4. CASE k >= i /\ d = 1
    <3>1. /\ k + 1 \in (i + 1)..n /\ (k + 1) - 1 = k /\ k + 1 \in 1..n /\ ~(k < i)
      BY <1>1, <2>1, <2>4
    <3>2. g[k + 1] = Moved(g[k], cursor, other[k])
      <4>1. other[(k + 1) - 1] = es[k + 1]
        BY <1>3, <2>4, <3>1
      <4>2. g[k + 1] = Moved(g[(k + 1) - 1], cursor, es[k + 1])
        BY <1>4, <3>1
      <4> QED
        BY <3>1, <4>1, <4>2
    <3>3. h[k - 1] = g[k]
      <4>1. CASE k = i
        <5>1. k - 1 < i
          BY <1>1, <4>1
        <5> QED
          BY <1>6, <2>2, <4>1, <5>1
      <4>2. CASE k # i
        <5>1. ~(k - 1 < i) /\ (k - 1) + d = k
          BY <1>1, <2>1, <2>4, <4>2
        <5> QED
          BY <2>2, <5>1
      <4> QED
        BY <4>1, <4>2
    <3> QED
      BY <2>2, <2>4, <3>1, <3>2, <3>3
  <2>5. CASE k >= i /\ d = 0
    <3>1. /\ ~(k < i) /\ k \in 1..n /\ k + d = k /\ (k - 1) + d = k - 1 /\ k - d = k
      BY <1>1, <2>1, <2>5
    <3>2. h[k] = g[k] /\ h[k - 1] = g[k - 1]
      BY <2>2, <3>1
    <3>3. CASE k = i
      <4>1. other[k] = OneMore(es[i])
        BY <1>3, <2>5, <3>3
      <4> QED
        BY <1>6, <1>7, <3>2, <3>3, <4>1 DEF Moved
    <3>4. CASE k # i
      <4>1. k \in (i + 1)..n
        BY <1>1, <2>5, <3>1, <3>4
      <4>2. other[k] = es[k]
        BY <1>3, <3>1, <4>1
      <4> QED
        BY <1>4, <3>1, <3>2, <4>2
    <3> QED
      BY <3>3, <3>4
  <2> QED
    BY <1>1, <2>1, <2>3, <2>4, <2>5
<1> HIDE DEF h
<1>11. Advance(m, cursor, other) = h[n - d]
  BY <1>3, <1>8, <1>10, TrailIsAdvance
<1> QED
  BY <1>2, <1>9, <1>11 DEF n

-----------------------------------------------------------------------------
(* The checkpoint and the verdict.                                         *)

LEMMA ReplayMirrored ==
  ASSUME NEW es \in Seq(Rows)
  PROVE  FullReplay(es) \in Mirrors
<1>1. MirrorStart \in Mirrors
  BY ReplayNothing
<1>2. PICK g : MirrorTrail(g, MirrorStart, 0, es) /\ Advance(MirrorStart, 0, es) = g[Len(es)]
  BY <1>1, AdvanceTrail
<1>3. Len(es) \in 0..Len(es)
  OBVIOUS
<1> QED
  BY <1>2, <1>3 DEF MirrorTrail, FullReplay

\* What the readers leave of the engine and its rows.
LEMMA JournaledKept ==
  ASSUME MaxOpenPositions <= 1, Journaled, UNCHANGED vars, trace' = trace,
         raised' = raised, stored' \in Seq(Rows), damage' = "" => stored' = trace
  PROVE  Journaled'
<1>1. Solo'
  BY SoloStep DEF Journaled
<1>2. /\ cash' = cash /\ quantity' = quantity
      /\ basis' = basis /\ realizedPnl' = realizedPnl /\ lastPrice' = lastPrice
      /\ lastTimestamp' = lastTimestamp
  BY DEF vars, account, clock
<1>3. Shows(FullReplay(trace'), cash', quantity', realizedPnl', basis')
  BY <1>2 DEF Journaled
<1>4. /\ trace' \in Seq(Rows)
      /\ Len(trace') <= lastTimestamp'
      /\ ~raised' => Len(trace') = lastTimestamp'
      /\ raised' => quantity' = 0
  <2>1. /\ trace \in Seq(Rows) /\ Len(trace) <= lastTimestamp
        /\ ~raised => Len(trace) = lastTimestamp
        /\ raised => quantity = 0
    BY DEF Journaled
  <2> QED
    <3>1. trace' \in Seq(Rows) /\ Len(trace') <= lastTimestamp'
      BY <1>2, <2>1
    <3>2. raised' <=> raised
      OBVIOUS
    <3> QED
      BY <1>2, <2>1, <3>1, <3>2
<1>7. damage' = "" => stored' = trace'
  BY <1>2
<1>5. \A k \in 1..Len(trace') : trace'[k].ts = k
  BY <1>2, Zenon DEF Journaled
<1>6. trace' # <<>> => trace'[Len(trace')].equity = cash' + quantity' * lastPrice' * Money
  BY <1>2, Zenon DEF Journaled
<1> QED
  BY <1>1, <1>3, <1>4, <1>5, <1>6, <1>7 DEF Journaled

\* The checkpoint, and what later rows make of it, as long as the rows it covers
\* are all that was changed.
Anchored ==
  /\ checkpoint.mirror \in Mirrors /\ checkpoint.cursor \in Nat
  /\ damage \in {"", "audited"} =>
       /\ checkpoint.cursor <= Len(trace)
       /\ checkpoint.cursor # 0 =>
            Advance(checkpoint.mirror, checkpoint.cursor, stored) = FullReplay(trace)
  /\ damage = "" => verdict # "FAIL"

LEMMA AnchoredInit == JournalInit => Anchored
<1> SUFFICES ASSUME JournalInit PROVE Anchored
  OBVIOUS
<1>1. trace = <<>> /\ checkpoint = NoCheckpoint /\ verdict = ""
  BY DEF JournalInit
<1>2. checkpoint.mirror = MirrorStart /\ checkpoint.cursor = 0 /\ Len(trace) = 0
  BY <1>1 DEF NoCheckpoint
<1>3. checkpoint.mirror \in Mirrors /\ checkpoint.cursor \in Nat /\ 0 <= 0
  BY <1>2, ReplayNothing
<1> QED
  BY <1>1, <1>2, <1>3 DEF Anchored

\* A new row moves the checkpoint's account and the replay alike.
LEMMA AnchoredRun ==
  ASSUME MaxOpenPositions <= 1, Journaled, Anchored, NEW p \in Prices, NEW a \in Atrs,
         NEW wick \in Wicks, NEW signal \in Action, Run(p, a, wick, signal)
  PROVE  Anchored'
<1>1. /\ trace \in Seq(Rows) /\ stored \in Seq(Rows) /\ Solo /\ Len(trace) \in Nat
      /\ ~raised => Len(trace) = lastTimestamp
  <2>1. /\ trace \in Seq(Rows) /\ stored \in Seq(Rows) /\ Solo
        /\ ~raised => Len(trace) = lastTimestamp
    BY DEF Journaled
  <2> QED
    BY <2>1
<1>2. /\ ~raised /\ verdict' = "" /\ checkpoint' = checkpoint /\ damage' = damage
  BY <1>1, RunCases
<1>3. checkpoint.mirror \in Mirrors /\ checkpoint.cursor \in Nat
  BY DEF Anchored
<1>4. CASE UNCHANGED <<trace, stored>>
  <2>1. trace' = trace /\ stored' = stored
    BY <1>4
  <2> QED
    BY <1>2, <2>1 DEF Anchored
<1>5. CASE \E e \in Rows : /\ trace' = Append(trace, e) /\ stored' = Append(stored, e)
                           /\ Recorded(e, p, wick)
  <2>1. PICK e \in Rows : /\ trace' = Append(trace, e) /\ stored' = Append(stored, e)
                          /\ Recorded(e, p, wick)
    BY <1>5
  <2> DEFINE n == Len(trace)
  <2>2. n \in Nat /\ e.ts = n + 1 /\ Len(trace') = n + 1
    <3>1. e.ts = lastTimestamp + 1
      BY <2>1 DEF Recorded
    <3>2. Len(Append(trace, e)) = Len(trace) + 1
      BY <1>1, Appending
    <3> QED
      BY <1>1, <1>2, <2>1, <3>1, <3>2
  <2> HIDE DEF n
  <2>3. e.ts > 0
    BY <2>2
  <2>4. ASSUME damage \in {"", "audited"}
        PROVE  /\ checkpoint.cursor <= Len(trace')
               /\ checkpoint.cursor # 0 =>
                    Advance(checkpoint.mirror, checkpoint.cursor, stored') =
                      FullReplay(trace')
    <3>1. checkpoint.cursor <= n
      BY <2>4 DEF Anchored, n
    <3>2. checkpoint.cursor <= n + 1 /\ checkpoint.cursor < e.ts
      BY <1>3, <2>2, <3>1
    <3>3. ASSUME checkpoint.cursor # 0
          PROVE  Advance(checkpoint.mirror, checkpoint.cursor, stored') = FullReplay(trace')
      <4> DEFINE was == Advance(checkpoint.mirror, checkpoint.cursor, stored)
      <4>1. was = FullReplay(trace)
        BY <2>4, <3>3 DEF Anchored
      <4>2. Advance(checkpoint.mirror, checkpoint.cursor, Append(stored, e)) =
              Moved(was, checkpoint.cursor, e)
        BY <1>1, <1>3, AdvanceAppend
      <4>3. Moved(was, checkpoint.cursor, e) = Apply(was, e)
        BY <1>3, <2>2, <3>2 DEF Moved, Later
      <4>4. FullReplay(Append(trace, e)) = Apply(FullReplay(trace), e)
        BY <1>1, <2>3, ReplayAppend
      <4> HIDE DEF was
      <4> QED
        BY <2>1, <4>1, <4>2, <4>3, <4>4
    <3> QED
      BY <2>2, <3>2, <3>3
  <2> QED
    BY <1>2, <1>3, <2>4 DEF Anchored
<1> QED
  BY <1>1, <1>4, <1>5, RunCases

\* A report of untouched rows agrees and moves the checkpoint to the last of them.
LEMMA ReportOfUntouched ==
  ASSUME Journaled, Anchored, Report, damage = ""
  PROVE  /\ verdict' = "PASS"
         /\ checkpoint' = [mirror |-> FullReplay(trace), cursor |-> Len(trace)]
<1>1. /\ trace \in Seq(Rows) /\ stored = trace /\ trace # <<>>
      /\ \A k \in 1..Len(trace) : trace[k].ts = k
      /\ trace[Len(trace)].equity = cash + quantity * lastPrice * Money
      /\ FullReplay(trace).cash = cash /\ FullReplay(trace).position = quantity
  <2>1. trace # <<>>
    BY DEF Report
  <2>2. Shows(FullReplay(trace), cash, quantity, realizedPnl, basis)
    BY DEF Journaled
  <2>3. FullReplay(trace).cash = cash /\ FullReplay(trace).position = quantity
    BY <2>2 DEF Shows
  <2>4. trace \in Seq(Rows) /\ stored = trace
    BY DEF Journaled
  <2>5. \A k \in 1..Len(trace) : trace[k].ts = k
    BY DEF Journaled
  <2>6. trace[Len(trace)].equity = cash + quantity * lastPrice * Money
    BY <2>1, Zenon DEF Journaled
  <2> QED
    BY <2>1, <2>3, <2>4, <2>5, <2>6
<1>2. Len(trace) \in 1..Len(trace)
  BY <1>1, Indexing
<1>3. checkpoint.cursor # 0 =>
        Advance(checkpoint.mirror, checkpoint.cursor, stored) = FullReplay(trace)
  BY DEF Anchored
<1>4. LiveAgrees(FullReplay(stored))
  BY <1>1 DEF LiveAgrees, EquityOf, Last
<1>5. Agree(FullReplay(stored), FullReplay(stored))
  BY DEF Agree
<1>6. Reconciled
  BY <1>1, <1>3, <1>4, <1>5 DEF Reconciled
<1>7. Last(trace).ts = Len(trace)
  BY <1>1, <1>2 DEF Last
<1> QED
  BY <1>1, <1>6, <1>7 DEF Report

LEMMA AnchoredReport ==
  ASSUME Journaled, Anchored, Report, damage = "audited" => ~Reconciled
  PROVE  Anchored'
<1>1. /\ trace \in Seq(Rows) /\ stored \in Seq(Rows)
      /\ \A k \in 1..Len(trace) : trace[k].ts = k
      /\ trace' = trace /\ stored' = stored /\ damage' = damage /\ trace # <<>>
  BY DEF Journaled, Report
<1>2. CASE damage = ""
  <2>1. /\ verdict' = "PASS"
        /\ checkpoint'.mirror = FullReplay(trace) /\ checkpoint'.cursor = Len(trace)
    <3>1. /\ verdict' = "PASS"
          /\ checkpoint' = [mirror |-> FullReplay(trace), cursor |-> Len(trace)]
      BY <1>2, ReportOfUntouched
    <3> QED
      BY <3>1
  <2>2. stored = trace
    BY <1>2 DEF Journaled
  <2>3. FullReplay(trace) \in Mirrors
    BY <1>1, ReplayMirrored
  <2>4. Len(trace) \in Nat /\ \A k \in 1..Len(trace) : ~Later(trace[k], Len(trace))
    BY <1>1 DEF Later
  <2>5. Advance(FullReplay(trace), Len(trace), trace) = FullReplay(trace)
    BY <1>1, <2>3, <2>4, NothingLater
  <2>6. /\ checkpoint'.mirror \in Mirrors /\ checkpoint'.cursor \in Nat
        /\ checkpoint'.cursor <= Len(trace')
        /\ Advance(checkpoint'.mirror, checkpoint'.cursor, stored') = FullReplay(trace')
    <3>1. Len(trace) <= Len(trace)
      BY <2>4
    <3> QED
      BY <1>1, <2>1, <2>2, <2>3, <2>4, <2>5, <3>1
  <2> QED
    BY <2>1, <2>6 DEF Anchored
<1>3. CASE damage = "audited"
  <2>1. checkpoint' = checkpoint
    BY <1>3 DEF Report
  <2> QED
    BY <1>1, <1>3, <2>1 DEF Anchored
<1>4. CASE damage \notin {"", "audited"}
  <2>1. FullReplay(stored) \in Mirrors
    BY <1>1, ReplayMirrored
  <2>2. stored # <<>> => Last(stored).ts \in Nat
    <3>1. ASSUME stored # <<>> PROVE stored[Len(stored)] \in Rows
      BY <1>1, <3>1
    <3> QED
      BY <3>1, RowFields DEF Last
  <2>3. checkpoint'.mirror \in Mirrors /\ checkpoint'.cursor \in Nat
    BY <2>1, <2>2 DEF Report, Anchored
  <2> QED
    BY <1>1, <1>4, <2>3 DEF Anchored
<1> QED
  BY <1>2, <1>3, <1>4

LEMMA SkippedThere ==
  ASSUME trace \in Seq(Rows), NEW i \in 1..Len(trace), NEW d,
         Changed(trace, i, stored', d), NEW m \in Mirrors, NEW cursor,
         ~Later(trace[i], cursor)
  PROVE  Advance(m, cursor, stored') = Advance(m, cursor, trace)
<1>1. \A es \in Seq(Rows) : \A j \in 1..Len(es) : \A n \in Mirrors : \A other, short, c :
        Changed(es, j, other, short) /\ ~Later(es[j], c) =>
          Advance(n, c, other) = Advance(n, c, es)
  BY ChangeSkipped
<1>2. \A j \in 1..Len(trace) : \A n \in Mirrors : \A other, short, c :
        Changed(trace, j, other, short) /\ ~Later(trace[j], c) =>
          Advance(n, c, other) = Advance(n, c, trace)
  BY <1>1, Zenon
<1>3. \A n \in Mirrors : \A other, short, c :
        Changed(trace, i, other, short) /\ ~Later(trace[i], c) =>
          Advance(n, c, other) = Advance(n, c, trace)
  BY <1>2, Zenon
<1>4. Changed(trace, i, stored', d) /\ ~Later(trace[i], cursor)
  OBVIOUS
<1> QED
  BY <1>3, <1>4, Zenon

\* Damage to a row the checkpoint covers is not seen from there.
LEMMA AnchoredTamper ==
  ASSUME Journaled, Anchored, NEW i \in DOMAIN stored, damage = "",
         damage' = Touches(i), verdict' = "", UNCHANGED <<trace, checkpoint>>,
         NEW d, Changed(stored, i, stored', d)
  PROVE  /\ Anchored' /\ stored' \in Seq(Rows) /\ damage' # ""
         /\ damage' = "audited" => stored[i].filled /\ checkpoint.cursor # 0
<1>1. /\ trace \in Seq(Rows) /\ stored = trace /\ i \in 1..Len(trace)
      /\ trace[i] \in Rows /\ trace' = trace /\ checkpoint' = checkpoint
  <2>1. trace \in Seq(Rows) /\ stored = trace
    BY DEF Journaled
  <2>2. i \in 1..Len(trace)
    BY <2>1, Indexing
  <2>3. trace[i] \in Rows
    BY <2>1, <2>2, Indexing
  <2> QED
    BY <2>1, <2>2, <2>3
<1>2. stored' \in Seq(Rows)
  BY DEF Changed
<1>3. damage' # "" /\ checkpoint.mirror \in Mirrors /\ checkpoint.cursor \in Nat
  BY DEF Touches, Anchored
<1>4. ASSUME damage' = "audited"
      PROVE  /\ stored[i].filled /\ checkpoint.cursor # 0
             /\ checkpoint.cursor <= Len(trace)
             /\ Advance(checkpoint.mirror, checkpoint.cursor, stored') = FullReplay(trace)
  <2>1. stored[i].filled /\ checkpoint.cursor # 0 /\ stored[i].ts <= checkpoint.cursor
    BY <1>4 DEF Touches
  <2>2. /\ checkpoint.cursor <= Len(trace)
        /\ Advance(checkpoint.mirror, checkpoint.cursor, trace) = FullReplay(trace)
    BY <1>1, <2>1 DEF Anchored
  <2>3. ~Later(trace[i], checkpoint.cursor)
    BY <1>1, <1>3, <2>1, NotLater
  <2>4. Advance(checkpoint.mirror, checkpoint.cursor, stored') =
          Advance(checkpoint.mirror, checkpoint.cursor, trace)
    <3>1. /\ trace \in Seq(Rows) /\ i \in 1..Len(trace) /\ checkpoint.mirror \in Mirrors
          /\ Changed(trace, i, stored', d)
      BY <1>1, <1>3
    <3> QED
      <4> DEFINE m == checkpoint.mirror
                 c == checkpoint.cursor
      <4>1. m \in Mirrors /\ ~Later(trace[i], c)
        BY <2>3, <3>1
      <4> HIDE DEF m, c
      <4>2. Advance(m, c, stored') = Advance(m, c, trace)
        BY <3>1, <4>1, SkippedThere
      <4> QED
        BY <4>2 DEF m, c
  <2> QED
    BY <2>1, <2>2, <2>4
<1>5. Anchored'
  BY <1>1, <1>3, <1>4 DEF Anchored
<1> QED
  BY <1>2, <1>3, <1>4, <1>5

\* A damaged account that the checkpoint covers: the replay shows it, whatever is
\* traded afterwards.
Sealed ==
  /\ Fitting(trace)
  /\ damage = "audited" =>
       /\ checkpoint.cursor # 0 /\ verdict # "PASS"
       /\ Gap(FullReplay(stored), FullReplay(trace))

LEMMA GapDisagrees ==
  ASSUME Journaled, Anchored, Sealed, damage = "audited"
  PROVE  ~Reconciled
<1>1. /\ checkpoint.cursor # 0
      /\ Advance(checkpoint.mirror, checkpoint.cursor, stored) = FullReplay(trace)
      /\ Gap(FullReplay(stored), FullReplay(trace))
  BY DEF Anchored, Sealed
<1> DEFINE F == FullReplay(stored)
           M == FullReplay(trace)
<1>2. F \in Mirrors /\ M \in Mirrors
  BY ReplayMirrored DEF Journaled
<1>3. F.position # M.position \/ F.fees # M.fees
  <2>1. /\ F.position \in Int /\ M.position \in Int /\ F.fees \in Int /\ M.fees \in Int
        /\ F.position > M.position \/ F.fees < M.fees
    BY <1>1, <1>2, MirrorFields DEF Gap
  <2> HIDE DEF F, M
  <2> QED
    BY <2>1
<1> QED
  BY <1>1, <1>3 DEF Reconciled, Agree

Accounted == Journaled /\ Anchored

LEMMA AccountedInit == JournalInit => Accounted
BY JournaledInit, AnchoredInit DEF Accounted

\* Rows stay rows; what was touched decides whether the fill was audited.
LEMMA TamperCases ==
  ASSUME Journaled, Tamper
  PROVE  /\ damage = "" /\ verdict' = "" /\ UNCHANGED vars /\ raised' = raised
         /\ trace' = trace /\ checkpoint' = checkpoint
         /\ \E i \in DOMAIN stored, d \in {0, 1} :
              damage' = Touches(i) /\ Changed(stored, i, stored', d)
<1>1. stored \in Seq(Rows)
  BY DEF Journaled
<1>2. /\ damage = "" /\ verdict' = "" /\ UNCHANGED vars /\ raised' = raised
      /\ trace' = trace /\ checkpoint' = checkpoint
  BY DEF Tamper
<1>3. PICK i \in DOMAIN stored :
        /\ damage' = Touches(i)
        /\ \/ stored' = RemoveAt(stored, i)
           \/ stored' = [stored EXCEPT ![i].quantity = @ + 1]
  BY DEF Tamper
<1>4. /\ Changed(stored, i, RemoveAt(stored, i), 1)
      /\ Changed(stored, i, [stored EXCEPT ![i].quantity = @ + 1], 0)
  BY <1>1, TamperChanges
<1>5. CASE stored' = RemoveAt(stored, i)
  BY <1>2, <1>3, <1>4, <1>5
<1>6. CASE stored' = [stored EXCEPT ![i].quantity = @ + 1]
  BY <1>2, <1>3, <1>4, <1>6
<1> QED
  BY <1>3, <1>5, <1>6

\* A report of a sealed account never agrees; without fees there is no seal, and the
\* report of an untouched account needs none.
LEMMA AccountedStep ==
  ASSUME MaxOpenPositions <= 1, Accounted, [JournalNext]_journalVars,
         Report /\ damage = "audited" => ~Reconciled
  PROVE  Accounted'
<1> USE DEF Accounted
<1>1. ASSUME NEW p \in Prices, NEW a \in Atrs, NEW wick \in Wicks,
             NEW signal \in Action, Run(p, a, wick, signal)
      PROVE  Accounted'
  BY <1>1, JournaledRun, AnchoredRun
<1>2. CASE Report
  <2>1. /\ UNCHANGED vars /\ trace' = trace /\ raised' = raised /\ stored' = stored
        /\ damage' = damage
    BY <1>2 DEF Report
  <2>2. stored' \in Seq(Rows) /\ (damage' = "" => stored' = trace)
    BY <2>1 DEF Journaled
  <2>3. Journaled'
    BY <2>1, <2>2, JournaledKept
  <2> QED
    BY <1>2, <2>3, AnchoredReport
<1>3. CASE Tamper
  <2>1. /\ damage = "" /\ verdict' = "" /\ UNCHANGED vars /\ raised' = raised
        /\ trace' = trace /\ checkpoint' = checkpoint
    BY <1>3, TamperCases
  <2>2. PICK i \in DOMAIN stored, d \in {0, 1} :
          damage' = Touches(i) /\ Changed(stored, i, stored', d)
    BY <1>3, TamperCases
  <2>3. Anchored' /\ stored' \in Seq(Rows) /\ damage' # ""
    BY <2>1, <2>2, AnchoredTamper
  <2>4. Journaled'
    BY <2>1, <2>3, JournaledKept
  <2> QED
    BY <2>3, <2>4
<1>4. CASE UNCHANGED journalVars
  <2>1. /\ UNCHANGED vars /\ trace' = trace /\ raised' = raised /\ stored' = stored
        /\ damage' = damage /\ checkpoint' = checkpoint /\ verdict' = verdict
    BY <1>4 DEF journalVars, readers
  <2>2. stored' \in Seq(Rows) /\ (damage' = "" => stored' = trace)
    BY <2>1 DEF Journaled
  <2>3. Journaled'
    BY <2>1, <2>2, JournaledKept
  <2>4. Anchored'
    BY <2>1 DEF Anchored
  <2> QED
    BY <2>3, <2>4
<1> QED
  BY <1>1, <1>2, <1>3, <1>4 DEF JournalNext

LEMMA AccountedPasses == Accounted => UntouchedPasses
<1> SUFFICES ASSUME Accounted, damage = "" PROVE UntouchedPasses
  BY DEF UntouchedPasses
<1>1. stored = trace /\ Shows(FullReplay(trace), cash, quantity, realizedPnl, basis)
  BY DEF Accounted, Journaled
<1>2. verdict # "FAIL"
  BY DEF Accounted, Anchored
<1> QED
  BY <1>1, <1>2 DEF UntouchedPasses, Shows

LEMMA SealedInit == JournalInit => Sealed
<1> SUFFICES ASSUME JournalInit PROVE Sealed
  OBVIOUS
<1>1. trace = <<>> /\ damage = ""
  BY DEF JournalInit
<1>2. MirrorStart \in Mirrors /\ <<>> \in Seq(Rows)
  BY ReplayNothing
<1>3. PICK g : MirrorTrail(g, MirrorStart, 0, <<>>)
  BY <1>2, AdvanceTrail
<1>4. \A k \in 1..Len(<<>>) : Fits(g[k - 1].position, <<>>[k])
  OBVIOUS
<1>5. Fitting(<<>>)
  BY <1>3, <1>4 DEF Fitting
<1> QED
  BY <1>1, <1>5 DEF Sealed

LEMMA SealedRun ==
  ASSUME MaxOpenPositions <= 1, FeeNum > 0, Accounted, Sealed, NEW p \in Prices,
         NEW a \in Atrs, NEW wick \in Wicks, NEW signal \in Action,
         Run(p, a, wick, signal)
  PROVE  Sealed'
<1>1. Journaled /\ Solo /\ trace \in Seq(Rows) /\ stored \in Seq(Rows)
  BY DEF Accounted, Journaled
<1>2. /\ verdict' = "" /\ checkpoint' = checkpoint /\ damage' = damage
  BY <1>1, RunCases
<1>3. CASE UNCHANGED <<trace, stored>>
  <2>1. trace' = trace /\ stored' = stored
    BY <1>3
  <2> QED
    BY <1>2, <2>1 DEF Sealed
<1>4. CASE \E e \in Rows :
                /\ trace' = Append(trace, e) /\ stored' = Append(stored, e)
                /\ Recorded(e, p, wick)
                /\ Idle(e, p, a) \/ Sale(e, p, a) \/ Purchase(e, p, a)
  <2>1. PICK e \in Rows :
                /\ trace' = Append(trace, e) /\ stored' = Append(stored, e)
                /\ Recorded(e, p, wick)
                /\ Idle(e, p, a) \/ Sale(e, p, a) \/ Purchase(e, p, a)
    BY <1>4
  <2>2. e.ts > 0
    <3>1. e.ts = lastTimestamp + 1 /\ lastTimestamp \in Nat
      BY <1>1, <2>1, RunCases DEF Recorded
    <3> QED
      BY <3>1
  <2> DEFINE M == FullReplay(trace)
             F == FullReplay(stored)
  <2>3. M.position = quantity
    BY <1>1 DEF Journaled, Shows
  <2>4. Fits(M.position, e)
    BY <1>1, <2>1, <2>3, RowFits
  <2>5. /\ M \in Mirrors /\ F \in Mirrors
        /\ FullReplay(Append(trace, e)) = Apply(M, e)
        /\ FullReplay(Append(stored, e)) = Apply(F, e)
    BY <1>1, <2>2, ReplayAppend
  <2>6. Fitting(Append(trace, e))
    BY <1>1, <2>2, <2>4, FittingAppend DEF Sealed
  <2>7. ASSUME damage = "audited" PROVE Gap(Apply(F, e), Apply(M, e))
    <3>1. Gap(F, M)
      BY <2>7 DEF Sealed
    <3> HIDE DEF F, M
    <3> QED
      BY <2>4, <2>5, <3>1, GapStays
  <2>8. damage = "audited" => checkpoint.cursor # 0
    BY DEF Sealed
  <2> HIDE DEF F, M
  <2> QED
    BY <1>2, <2>1, <2>5, <2>6, <2>7, <2>8 DEF Sealed
<1> QED
  BY <1>1, <1>3, <1>4, RunCases

LEMMA SealedStep ==
  ASSUME MaxOpenPositions <= 1, FeeNum > 0, Accounted, Sealed,
         [JournalNext]_journalVars
  PROVE  Sealed'
<1>1. ASSUME NEW p \in Prices, NEW a \in Atrs, NEW wick \in Wicks,
             NEW signal \in Action, Run(p, a, wick, signal)
      PROVE  Sealed'
  BY <1>1, SealedRun
<1>2. CASE Report
  <2>1. trace' = trace /\ stored' = stored /\ damage' = damage
    BY <1>2 DEF Report
  <2>2. CASE damage = "audited"
    <3>1. ~Reconciled
      BY <2>2, GapDisagrees DEF Accounted
    <3>2. verdict' = "FAIL" /\ checkpoint' = checkpoint
      BY <1>2, <3>1 DEF Report
    <3> QED
      BY <2>1, <3>2 DEF Sealed
  <2>3. CASE damage # "audited"
    BY <2>1, <2>3 DEF Sealed
  <2> QED
    BY <2>2, <2>3
<1>3. CASE Tamper
  <2>1. /\ damage = "" /\ verdict' = "" /\ trace' = trace /\ checkpoint' = checkpoint
        /\ Journaled /\ Anchored
    BY <1>3, TamperCases DEF Accounted
  <2>2. PICK i \in DOMAIN stored, d \in {0, 1} :
          damage' = Touches(i) /\ Changed(stored, i, stored', d)
    BY <2>1, <1>3, TamperCases
  <2>3. CASE damage' = "audited"
    <3>1. stored[i].filled /\ checkpoint.cursor # 0
      BY <2>1, <2>2, <2>3, AnchoredTamper
    <3>2. /\ trace \in Seq(Rows) /\ stored = trace /\ Fitting(trace)
          /\ \A k \in 1..Len(trace) : trace[k].ts = k
      BY <2>1 DEF Journaled, Sealed
    <3>3. i \in 1..Len(trace) /\ \A k \in 1..Len(trace) : trace[k].ts > 0
      BY <3>2, Indexing
    <3>4. trace[i].filled /\ Changed(trace, i, stored', d)
      BY <2>2, <3>1, <3>2
    <3>5. Gap(FullReplay(stored'), FullReplay(trace))
      BY <3>2, <3>3, <3>4, ChangeOpensGap
    <3> QED
      BY <2>1, <3>1, <3>2, <3>5 DEF Sealed
  <2>4. CASE damage' # "audited"
    BY <2>1, <2>4 DEF Sealed
  <2> QED
    BY <2>3, <2>4
<1>4. CASE UNCHANGED journalVars
  <2>1. /\ trace' = trace /\ stored' = stored /\ damage' = damage
        /\ checkpoint' = checkpoint /\ verdict' = verdict
    BY <1>4 DEF journalVars, readers
  <2> QED
    BY <2>1 DEF Sealed
<1> QED
  BY <1>1, <1>2, <1>3, <1>4 DEF JournalNext

\* The reconciliation passes as long as nobody touches the rows, and fails for good
\* once a fill that a checkpoint covers was deleted or altered: an engine with one
\* position and a fee rate above zero.
THEOREM VerdictsTell ==
  ASSUME MaxOpenPositions <= 1, FeeNum > 0
  PROVE  JournalSpec => []VerdictTellsDamage
<1>1. JournalInit => Accounted /\ Sealed
  BY AccountedInit, SealedInit
<1>2. Accounted /\ Sealed /\ [JournalNext]_journalVars => (Accounted /\ Sealed)'
  <2> SUFFICES ASSUME Accounted, Sealed, [JournalNext]_journalVars
               PROVE  (Accounted /\ Sealed)'
    OBVIOUS
  <2>1. damage = "audited" => ~Reconciled
    BY GapDisagrees DEF Accounted
  <2> QED
    BY <2>1, AccountedStep, SealedStep
<1>3. Accounted /\ Sealed => VerdictTellsDamage
  BY AccountedPasses DEF VerdictTellsDamage, AuditedFillsAreSealed, Sealed
<1> QED
  BY <1>1, <1>2, <1>3, PTL DEF JournalSpec

-----------------------------------------------------------------------------
(* Round trips and metrics.                                                *)

\* The sum of what a function makes of the trips grows by what it makes of one more.
LEMMA SumGrows ==
  ASSUME NEW v \in [Trips -> Int], NEW trips \in Seq(Trips), NEW t \in Trips,
         NEW more, more = Append(trips, t)
  PROVE  /\ SumOf([ i \in DOMAIN trips |-> v[trips[i]] ]) \in Int
         /\ SumOf([ i \in DOMAIN more |-> v[more[i]] ]) =
              SumOf([ i \in DOMAIN trips |-> v[trips[i]] ]) + v[t]
<1> DEFINE vs == [ i \in DOMAIN trips |-> v[trips[i]] ]
<1>1. PICK n \in Nat : n = Len(trips)
  OBVIOUS
<1>2. /\ DOMAIN trips = 1..n /\ DOMAIN more = 1..(n + 1)
      /\ more[n + 1] = t /\ \A k \in 1..n : more[k] = trips[k] /\ trips[k] \in Trips
  BY <1>1, Indexing
<1>3. v[t] \in Int /\ \A k \in 1..n : v[trips[k]] \in Int
  BY <1>2
<1>4. vs \in Seq(Int) /\ Len(vs) = n
  BY <1>2, <1>3
<1>5. [ i \in DOMAIN more |-> v[more[i]] ] = Append(vs, v[t])
  BY <1>2, <1>3, <1>4
<1> HIDE DEF vs
<1>6. SumOf(vs) \in Int /\ SumOf(Append(vs, v[t])) = SumOf(vs) + v[t]
  BY <1>3, <1>4, SumOfAppend
<1> QED
  BY <1>5, <1>6 DEF vs

Profit(trips) == SumOf([ i \in DOMAIN trips |-> Larger(trips[i].net, 0) ])
Loss(trips) == SumOf([ i \in DOMAIN trips |-> Larger(-trips[i].net, 0) ])

\* The sums of the metrics: the net is profit minus loss, and there is a loss if and
\* only if a trip made one.
Totals(trips) ==
  /\ NetOf(trips) \in Int /\ TotalOf("net", trips) = NetOf(trips)
  /\ Profit(trips) \in Int /\ Loss(trips) \in Int /\ Loss(trips) >= 0
  /\ NetOf(trips) = Profit(trips) - Loss(trips)
  /\ Loss(trips) # 0 <=> \E i \in DOMAIN trips : trips[i].net < 0

LEMMA TotalsOfNone == Totals(<<>>) /\ NetOf(<<>>) = 0
<1>1. SumOf(<<>>) = 0
  <2>1. <<>> \in Seq(Int) /\ \A i \in DOMAIN <<>> : <<>>[i] = 0
    OBVIOUS
  <2> QED
    BY <2>1, SumOfZeros
<1>2. DOMAIN <<>> = {}
  OBVIOUS
<1>3. /\ [ i \in DOMAIN <<>> |-> <<>>[i]["gross"] ] = <<>>
      /\ [ i \in DOMAIN <<>> |-> <<>>[i]["fees"] ] = <<>>
      /\ [ i \in DOMAIN <<>> |-> <<>>[i]["net"] ] = <<>>
      /\ [ i \in DOMAIN <<>> |-> Larger(<<>>[i].net, 0) ] = <<>>
      /\ [ i \in DOMAIN <<>> |-> Larger(-<<>>[i].net, 0) ] = <<>>
  BY <1>2
<1>4. /\ TotalOf("gross", <<>>) = 0 /\ TotalOf("fees", <<>>) = 0
      /\ TotalOf("net", <<>>) = 0 /\ Profit(<<>>) = 0 /\ Loss(<<>>) = 0
  BY <1>1, <1>3 DEF TotalOf, Profit, Loss
<1>5. NetOf(<<>>) = 0
  BY <1>4 DEF NetOf
<1> QED
  BY <1>2, <1>4, <1>5 DEF Totals

LEMMA TripFields ==
  ASSUME NEW t \in Trips
  PROVE  /\ t.gross \in Int /\ t.fees \in Int /\ t.net \in Int
         /\ t["gross"] = t.gross /\ t["fees"] = t.fees /\ t["net"] = t.net
         /\ Larger(t.net, 0) \in Int /\ Larger(-t.net, 0) \in Int
         /\ Larger(-t.net, 0) >= 0 /\ t.net = Larger(t.net, 0) - Larger(-t.net, 0)
         /\ Larger(-t.net, 0) # 0 <=> t.net < 0
<1>1. t.gross \in Int /\ t.fees \in Int /\ t.net \in Int
  BY DEF Trips
<1> QED
  BY <1>1 DEF Larger

\* One more trip.
LEMMA TotalsGrow ==
  ASSUME NEW trips \in Seq(Trips), NEW t \in Trips, t.net = t.gross - t.fees,
         Totals(trips)
  PROVE  /\ Totals(Append(trips, t))
         /\ NetOf(Append(trips, t)) = NetOf(trips) + t.net
<1> DEFINE more == Append(trips, t)
           gross == [ x \in Trips |-> x.gross ]
           fees == [ x \in Trips |-> x.fees ]
           net == [ x \in Trips |-> x.net ]
           won == [ x \in Trips |-> Larger(x.net, 0) ]
           lost == [ x \in Trips |-> Larger(-x.net, 0) ]
<1>1. PICK n \in Nat : n = Len(trips)
  OBVIOUS
<1>2. /\ DOMAIN trips = 1..n /\ DOMAIN more = 1..(n + 1)
      /\ more[n + 1] = t /\ \A k \in 1..n : more[k] = trips[k] /\ trips[k] \in Trips
      /\ more \in Seq(Trips)
  BY <1>1, Indexing
<1>3. /\ gross \in [Trips -> Int] /\ fees \in [Trips -> Int] /\ net \in [Trips -> Int]
      /\ won \in [Trips -> Int] /\ lost \in [Trips -> Int]
  BY TripFields
<1>4. ASSUME NEW s \in Seq(Trips)
      PROVE  /\ [ i \in DOMAIN s |-> s[i]["gross"] ] = [ i \in DOMAIN s |-> gross[s[i]] ]
             /\ [ i \in DOMAIN s |-> s[i]["fees"] ] = [ i \in DOMAIN s |-> fees[s[i]] ]
             /\ [ i \in DOMAIN s |-> s[i]["net"] ] = [ i \in DOMAIN s |-> net[s[i]] ]
             /\ [ i \in DOMAIN s |-> Larger(s[i].net, 0) ] =
                  [ i \in DOMAIN s |-> won[s[i]] ]
             /\ [ i \in DOMAIN s |-> Larger(-s[i].net, 0) ] =
                  [ i \in DOMAIN s |-> lost[s[i]] ]
  <2>1. \A i \in DOMAIN s : s[i] \in Trips
    BY Indexing
  <2> QED
    BY <2>1, TripFields
<1>5. /\ gross[t] = t.gross /\ fees[t] = t.fees /\ net[t] = t.net
      /\ won[t] = Larger(t.net, 0) /\ lost[t] = Larger(-t.net, 0)
  OBVIOUS
<1> DEFINE Sum(v, s) == SumOf([ i \in DOMAIN s |-> v[s[i]] ])
<1>6. \A v \in [Trips -> Int] : Sum(v, trips) \in Int /\ Sum(v, more) = Sum(v, trips) + v[t]
  <2> HIDE DEF more
  <2>1. more = Append(trips, t)
    BY DEF more
  <2> QED
    BY <2>1, SumGrows
<1>7. ASSUME NEW s \in Seq(Trips)
      PROVE  /\ TotalOf("gross", s) = Sum(gross, s) /\ TotalOf("fees", s) = Sum(fees, s)
             /\ TotalOf("net", s) = Sum(net, s)
             /\ Profit(s) = Sum(won, s) /\ Loss(s) = Sum(lost, s)
  <2> HIDE DEF gross, fees, net, won, lost
  <2> QED
    BY <1>4 DEF TotalOf, Profit, Loss
<1> HIDE DEF more, gross, fees, net, won, lost, Sum
<1>8. /\ TotalOf("gross", more) = TotalOf("gross", trips) + t.gross
      /\ TotalOf("fees", more) = TotalOf("fees", trips) + t.fees
      /\ TotalOf("net", more) = TotalOf("net", trips) + t.net
      /\ Profit(more) = Profit(trips) + Larger(t.net, 0)
      /\ Loss(more) = Loss(trips) + Larger(-t.net, 0)
      /\ TotalOf("gross", trips) \in Int /\ TotalOf("fees", trips) \in Int
      /\ TotalOf("net", trips) \in Int
  BY <1>2, <1>3, <1>5, <1>6, <1>7
<1>9. /\ NetOf(trips) \in Int /\ TotalOf("net", trips) = NetOf(trips)
      /\ Profit(trips) \in Int /\ Loss(trips) \in Int /\ Loss(trips) >= 0
      /\ NetOf(trips) = Profit(trips) - Loss(trips)
      /\ Loss(trips) # 0 <=> \E i \in DOMAIN trips : trips[i].net < 0
  BY DEF Totals
<1> DEFINE up == Larger(t.net, 0)
           down == Larger(-t.net, 0)
<1>13. /\ t.gross \in Int /\ t.fees \in Int /\ t.net \in Int /\ t.net = t.gross - t.fees
       /\ up \in Int /\ down \in Int /\ down >= 0 /\ t.net = up - down
       /\ down # 0 <=> t.net < 0
  BY TripFields
<1>14. Profit(more) = Profit(trips) + up /\ Loss(more) = Loss(trips) + down
  BY <1>8
<1> HIDE DEF up, down
<1>10. NetOf(more) = NetOf(trips) + t.net /\ NetOf(more) \in Int
  <2>1. /\ NetOf(more) = TotalOf("gross", more) - TotalOf("fees", more)
        /\ NetOf(trips) = TotalOf("gross", trips) - TotalOf("fees", trips)
    BY DEF NetOf
  <2>2. /\ TotalOf("gross", more) = TotalOf("gross", trips) + t.gross
        /\ TotalOf("fees", more) = TotalOf("fees", trips) + t.fees
        /\ TotalOf("gross", trips) \in Int /\ TotalOf("fees", trips) \in Int
    BY <1>8
  <2> QED
    BY <1>13, <2>1, <2>2, SMTT(40)
<1>11. /\ TotalOf("net", more) = NetOf(more)
       /\ Profit(more) \in Int /\ Loss(more) \in Int /\ Loss(more) >= 0
       /\ NetOf(more) = Profit(more) - Loss(more)
  <2>1. TotalOf("net", more) = TotalOf("net", trips) + t.net
    BY <1>8
  <2>2. TotalOf("net", more) = NetOf(more)
    BY <1>9, <1>10, <2>1
  <2>3. /\ Profit(more) \in Int /\ Loss(more) \in Int /\ Loss(more) >= 0
    BY <1>9, <1>13, <1>14, SMTT(40)
  <2>4. NetOf(more) = Profit(more) - Loss(more)
    <3>1. /\ NetOf(trips) = Profit(trips) - Loss(trips) /\ t.net = up - down
          /\ NetOf(more) = NetOf(trips) + t.net
          /\ Profit(trips) \in Int /\ Loss(trips) \in Int /\ up \in Int /\ down \in Int
      BY <1>9, <1>10, <1>13
    <3>2. \A a, b, c, d \in Int : (a - b) + (c - d) = (a + c) - (b + d)
      OBVIOUS
    <3>3. NetOf(more) = (Profit(trips) - Loss(trips)) + (up - down)
      BY <3>1
    <3> QED
      BY <1>14, <3>1, <3>2, <3>3
  <2> QED
    BY <2>2, <2>3, <2>4
<1>12. Loss(more) # 0 <=> \E i \in DOMAIN more : more[i].net < 0
  <2>1. (\E i \in DOMAIN more : more[i].net < 0) <=>
          t.net < 0 \/ \E i \in DOMAIN trips : trips[i].net < 0
    <3>1. \A k \in 1..(n + 1) : k = n + 1 \/ k \in 1..n
      OBVIOUS
    <3>2. n + 1 \in 1..(n + 1) /\ \A k \in 1..n : k \in 1..(n + 1)
      OBVIOUS
    <3> QED
      BY <1>2, <3>1, <3>2
  <2>2. Loss(more) # 0 <=> t.net < 0 \/ Loss(trips) # 0
    BY <1>9, <1>13, <1>14
  <2> QED
    BY <1>9, <2>1, <2>2
<1> QED
  BY <1>10, <1>11, <1>12 DEF Totals, more

\* The three metrics of the gate are one.
LEMMA TotalsViable ==
  ASSUME NEW trips \in Seq(Trips), Totals(trips)
  PROVE  Viable(trips) <=> NetOf(trips) > 0 /\ \E i \in DOMAIN trips : trips[i].net < 0
<1> DEFINE profit == Profit(trips)
           loss == Loss(trips)
           net == NetOf(trips)
<1>1. /\ net \in Int /\ TotalOf("net", trips) = net /\ profit \in Int /\ loss \in Int
      /\ loss >= 0 /\ net = profit - loss
      /\ loss # 0 <=> \E i \in DOMAIN trips : trips[i].net < 0
  BY DEF Totals
<1>2. ProfitFactor(trips) = IF loss # 0 THEN <<profit, loss>>
                            ELSE IF profit > 0 THEN Infinite ELSE Undefined
  BY DEF ProfitFactor, Profit, Loss
<1>3. Expectancy(trips)[1] = IF trips = <<>> THEN 0 ELSE net
  BY <1>1 DEF Expectancy, Undefined
<1>4. Viable(trips) <=> /\ net > 0 /\ Expectancy(trips)[1] > 0
                        /\ ProfitFactor(trips)[2] # 0
                        /\ ProfitFactor(trips)[1] > ProfitFactor(trips)[2]
  BY DEF Viable
<1> HIDE DEF profit, loss, net
<1>5. CASE loss = 0
  <2>1. ProfitFactor(trips)[2] = 0
    BY <1>2, <1>5 DEF Infinite, Undefined
  <2> QED
    BY <1>1, <1>4, <1>5, <2>1 DEF net
<1>6. CASE loss # 0
  <2>1. ProfitFactor(trips)[1] = profit /\ ProfitFactor(trips)[2] = loss
    BY <1>2, <1>6
  <2>2. trips # <<>>
    BY <1>1, <1>6
  <2>3. Viable(trips) <=> net > 0 /\ profit > loss
    BY <1>3, <1>4, <1>6, <2>1, <2>2
  <2>4. net > 0 => profit > loss
    BY <1>1
  <2> QED
    BY <1>1, <1>6, <2>3, <2>4 DEF net
<1> QED
  BY <1>5, <1>6

\* What a row says of the signal: it was followed unless an exit superseded it, and an
\* exit is a filled sell.
Told(e) ==
  /\ e.signal = e.action \/ e.reason \in ProtectiveReasons
  /\ e.reason \in ProtectiveReasons => e.filled /\ e.action = "SELL"

LEMMA RowTold ==
  ASSUME NEW p, NEW a, NEW wick, NEW e, Recorded(e, p, wick),
         Idle(e, p, a) \/ Sale(e, p, a) \/ Purchase(e, p, a)
  PROVE  Told(e)
<1>1. e.signal = e.action \/ e.reason \in ProtectiveReasons
  BY DEF Recorded
<1>2. CASE Idle(e, p, a)
  BY <1>1, <1>2 DEF Idle, Told
<1>3. CASE Sale(e, p, a)
  BY <1>1, <1>3 DEF Sale, Told
<1>4. CASE Purchase(e, p, a)
  <2>1. e.reason \notin ProtectiveReasons
    BY <1>4 DEF Purchase, ProtectiveReasons
  <2> QED
    BY <1>1, <2>1 DEF Told
<1> QED
  BY <1>2, <1>3, <1>4

\* execution_attribution: the buys that neither were executed nor rejected were
\* superseded.
LEMMA Attribution ==
  ASSUME trace \in Seq(Rows), \A k \in 1..Len(trace) : Told(trace[k])
  PROVE  SupersededBuys =
           Cardinality({ i \in DOMAIN trace :
                           trace[i].signal = "BUY" /\ trace[i].reason \in ProtectiveReasons })
<1> DEFINE D == DOMAIN trace
           S == { i \in D : trace[i].signal = "BUY" }
           E == { i \in D : IsFill(trace[i], "BUY") }
           R == { i \in D : ~trace[i].filled /\ trace[i].action = "BUY" }
           P == { i \in D : trace[i].signal = "BUY" /\ trace[i].reason \in ProtectiveReasons }
<1>1. D = 1..Len(trace) /\ Len(trace) \in Nat
  BY Indexing
<1>2. IsFiniteSet(D)
  BY <1>1, FS_Interval
<1>3. IsFiniteSet(E) /\ IsFiniteSet(R) /\ IsFiniteSet(P) /\ IsFiniteSet(S)
  <2> HIDE DEF D
  <2>1. E \in SUBSET D /\ R \in SUBSET D /\ P \in SUBSET D /\ S \in SUBSET D
    OBVIOUS
  <2> HIDE DEF E, R, P, S
  <2> QED
    BY <1>2, <2>1, FS_Subset
<1>4. \A i \in D : Told(trace[i])
  BY <1>1
<1> HIDE DEF D
<1>5. S = (E \cup R) \cup P /\ (E \cup R) \cap P = {} /\ E \cap R = {}
  <2>1. ASSUME NEW i \in D
        PROVE  /\ trace[i].signal = "BUY" <=>
                    \/ IsFill(trace[i], "BUY")
                    \/ ~trace[i].filled /\ trace[i].action = "BUY"
                    \/ trace[i].signal = "BUY" /\ trace[i].reason \in ProtectiveReasons
               /\ trace[i].action = "BUY" => trace[i].reason \notin ProtectiveReasons
               /\ IsFill(trace[i], "BUY") => trace[i].filled /\ trace[i].action = "BUY"
    BY <1>4 DEF Told, IsFill
  <2> QED
    BY <2>1
<1>6. /\ Cardinality(S) \in Nat /\ Cardinality(E) \in Nat /\ Cardinality(R) \in Nat
      /\ Cardinality(P) \in Nat
  <2> HIDE DEF S, E, R, P
  <2> QED
    BY <1>3, FS_CardinalityType
<1>7. BuySignals = Cardinality(S) /\ ExecutedBuys = Cardinality(E)
      /\ RejectedBuys = Cardinality(R)
  BY DEF BuySignals, ExecutedBuys, RejectedBuys, D
<1> HIDE DEF S, E, R, P
<1>8. Cardinality({}) = 0
  BY FS_EmptySet
<1>9. IsFiniteSet(E \cup R) /\ Cardinality(E \cup R) = Cardinality(E) + Cardinality(R)
  <2>1. IsFiniteSet(E \cup R)
        /\ Cardinality(E \cup R) =
             Cardinality(E) + Cardinality(R) - Cardinality(E \cap R)
    BY <1>3, FS_Union
  <2>2. Cardinality(E \cap R) = 0
    BY <1>5, <1>8
  <2> QED
    BY <1>6, <2>1, <2>2
<1>10. Cardinality(S) = Cardinality(E \cup R) + Cardinality(P)
  <2>1. Cardinality((E \cup R) \cup P) =
          Cardinality(E \cup R) + Cardinality(P) - Cardinality((E \cup R) \cap P)
    BY <1>3, <1>9, FS_Union
  <2>2. Cardinality((E \cup R) \cap P) = 0
    BY <1>5, <1>8
  <2>3. Cardinality(S) = Cardinality((E \cup R) \cup P)
    BY <1>5
  <2>4. Cardinality(E \cup R) \in Nat
    BY <1>6, <1>9
  <2> QED
    BY <1>6, <2>1, <2>2, <2>3, <2>4
<1>11. Cardinality(S) - Cardinality(E) - Cardinality(R) = Cardinality(P)
  BY <1>6, <1>9, <1>10
<1> QED
  BY <1>7, <1>11 DEF SupersededBuys, P, D

\* The lot that waits for its sale is the position, and what is in the trips is what
\* is in the portfolio's books.
LotIsPosition ==
  LET lot == Paired(trace).lot IN
  IF quantity = 0 THEN lot = NoEvent
  ELSE /\ lot \in Rows /\ lot.quantity = quantity
       /\ basis = quantity * lot.exec * FeeDen + lot.fee

Evaluated ==
  LET trips == Paired(trace).trips IN
  /\ LotIsPosition
  /\ Totals(trips)
  /\ cash + basis = InitialCash + NetOf(trips)
  /\ Len(trips) = Len(trades)
  /\ \A i \in 1..Len(trades) : trips[i].net = trades[i].pnl
  /\ \A k \in 1..Len(trace) : Told(trace[k])

LEMMA PairedNothing == Paired(<<>>) = NoTrips
<1>1. <<>> \in Seq(Rows) /\ Len(<<>>) = 0
  OBVIOUS
<1>2. PICK g : PairTrail(g, <<>>) /\ Paired(<<>>) = g[0]
  BY <1>1, PairedTrail
<1> QED
  BY <1>2 DEF PairTrail

LEMMA EvaluatedInit == JournalInit => Evaluated
<1> SUFFICES ASSUME JournalInit PROVE Evaluated
  OBVIOUS
<1>1. /\ trace = <<>> /\ cash = InitialCash /\ quantity = 0 /\ basis = 0 /\ trades = <<>>
  BY DEF JournalInit, Init
<1>2. Paired(trace).lot = NoEvent /\ Paired(trace).trips = <<>>
  BY <1>1, PairedNothing DEF NoTrips
<1>3. Totals(<<>>) /\ NetOf(<<>>) = 0
  BY TotalsOfNone
<1>4. cash + basis = InitialCash + 0
  BY <1>1, MoneyPositive
<1>5. LotIsPosition
  BY <1>1, <1>2 DEF LotIsPosition
<1>6. Len(trace) = 0 /\ Len(trades) = 0 /\ Len(<<>>) = 0
  BY <1>1
<1> QED
  BY <1>2, <1>3, <1>4, <1>5, <1>6 DEF Evaluated

\* A sale completes the round trip of the lot, with the trade's net PnL.
LEMMA TripIsTrade ==
  ASSUME NEW q \in Int, NEW buy \in Rows, NEW sell \in Rows, NEW p \in Prices,
         buy.quantity = q, sell.quantity = q, sell.exec = SellPrice(p),
         sell.fee = sell.quantity * sell.exec * FeeNum
  PROVE  /\ RoundTrip(buy, sell).net =
              SellProceeds(q, p) - (q * buy.exec * FeeDen + buy.fee)
         /\ RoundTrip(buy, sell).net =
              RoundTrip(buy, sell).gross - RoundTrip(buy, sell).fees
         /\ RoundTrip(buy, sell).entry = buy.ts /\ RoundTrip(buy, sell).exit = sell.ts
         /\ RoundTrip(buy, sell).reason = sell.reason
<1> DEFINE gross == (sell.exec - buy.exec) * q * FeeDen
<1>1. /\ buy.exec \in Int /\ buy.fee \in Int /\ sell.exec \in Int /\ sell.fee \in Int
      /\ FeeDen \in Int
  BY RowFields, Constants
<1>2. Smaller(buy.quantity, sell.quantity) = q
  BY DEF Smaller
<1>3. RoundTrip(buy, sell) =
        [entry |-> buy.ts, exit |-> sell.ts, gross |-> gross,
         fees |-> buy.fee + sell.fee, net |-> gross - buy.fee - sell.fee,
         reason |-> sell.reason]
  BY <1>2 DEF RoundTrip
<1>4. gross = q * sell.exec * FeeDen - q * buy.exec * FeeDen
  <2>1. (sell.exec - buy.exec) * q = q * sell.exec - q * buy.exec
    BY <1>1
  <2>2. \A x, y \in Int : (x - y) * FeeDen = x * FeeDen - y * FeeDen
    BY <1>1
  <2>3. q * sell.exec \in Int /\ q * buy.exec \in Int
    BY <1>1
  <2> QED
    BY <2>1, <2>2, <2>3, ZenonT(60)
<1> DEFINE in == q * buy.exec * FeeDen
           out == q * sell.exec * FeeDen
<1>5. in \in Int /\ out \in Int /\ gross = out - in
  BY <1>1, <1>4
<1>6. SellProceeds(q, p) = out - sell.fee
  BY FeeApart
<1> HIDE DEF gross, in, out
<1>7. gross - buy.fee - sell.fee = (out - sell.fee) - (in + buy.fee)
  BY <1>1, <1>5
<1>8. gross - buy.fee - sell.fee = gross - (buy.fee + sell.fee)
  BY <1>1, <1>5
<1> QED
  BY <1>3, <1>6, <1>7, <1>8 DEF in

LEMMA EvaluatedRun ==
  ASSUME MaxOpenPositions <= 1, Journaled, Evaluated, NEW p \in Prices, NEW a \in Atrs,
         NEW wick \in Wicks, NEW signal \in Action, Run(p, a, wick, signal)
  PROVE  Evaluated'
<1>1. Solo /\ trace \in Seq(Rows)
  BY DEF Journaled
<1>2. /\ cash \in Int /\ quantity \in Nat /\ basis \in Int /\ trades \in Seq(Trade)
  BY <1>1, SoundTypes DEF Solo, Managed, Trade
<1> DEFINE acc == Paired(trace)
<1>3. acc \in Pairings /\ acc.trips \in Seq(Trips) /\ acc = [lot |-> acc.lot, trips |-> acc.trips]
  <2>1. PICK g : PairTrail(g, trace) /\ Paired(trace) = g[Len(trace)]
    BY <1>1, PairedTrail
  <2>2. Len(trace) \in 0..Len(trace)
    BY <1>1
  <2>3. acc \in Pairings
    BY <2>1, <2>2 DEF PairTrail
  <2> QED
    BY <2>3 DEF Pairings
<1>4. /\ LotIsPosition /\ Totals(acc.trips) /\ cash + basis = InitialCash + NetOf(acc.trips)
      /\ Len(acc.trips) = Len(trades)
      /\ \A i \in 1..Len(trades) : acc.trips[i].net = trades[i].pnl
      /\ \A k \in 1..Len(trace) : Told(trace[k])
  BY DEF Evaluated
<1>5. CASE UNCHANGED account /\ UNCHANGED <<trace, stored>>
  <2>1. /\ trace' = trace /\ cash' = cash /\ quantity' = quantity /\ basis' = basis
        /\ trades' = trades
    BY <1>5 DEF account
  <2> QED
    BY <2>1 DEF Evaluated, LotIsPosition
<1>6. CASE \E e \in Rows :
                /\ trace' = Append(trace, e) /\ stored' = Append(stored, e)
                /\ Recorded(e, p, wick)
                /\ Idle(e, p, a) \/ Sale(e, p, a) \/ Purchase(e, p, a)
  <2>1. PICK e \in Rows :
                /\ trace' = Append(trace, e) /\ Recorded(e, p, wick)
                /\ Idle(e, p, a) \/ Sale(e, p, a) \/ Purchase(e, p, a)
    BY <1>6
  <2>2. Paired(trace') = Pair(acc, e)
    BY <1>1, <2>1, PairedAppend
  <2>3. \A k \in 1..Len(trace') : Told(trace'[k])
    <3>1. /\ Len(trace') = Len(trace) + 1 /\ trace'[Len(trace) + 1] = e /\ Len(trace) \in Nat
          /\ \A k \in 1..Len(trace) : trace'[k] = trace[k]
      BY <1>1, <2>1, Appending, Indexing
    <3>2. Told(e)
      BY <2>1, RowTold
    <3>3. \A k \in 1..(Len(trace) + 1) : k \in 1..Len(trace) \/ k = Len(trace) + 1
      BY <3>1
    <3> QED
      BY <1>4, <3>1, <3>2, <3>3
  <2>4. acc.lot \in Rows => acc.lot # NoEvent
    BY RowIsEvent
  <2> HIDE DEF acc
  <2>5. CASE Idle(e, p, a)
    <3>1. /\ cash' = cash /\ quantity' = quantity /\ basis' = basis /\ trades' = trades
          /\ ~IsFill(e, "BUY") /\ ~IsFill(e, "SELL")
      BY <2>5 DEF Idle, account, IsFill
    <3>2. Paired(trace') = acc
      BY <1>3, <2>1, <2>2, <3>1, PairCases
    <3>3. LotIsPosition'
      BY <1>4, <3>1, <3>2 DEF LotIsPosition, acc
    <3> QED
      BY <1>4, <2>3, <3>1, <3>2, <3>3 DEF Evaluated
  <2>6. CASE Purchase(e, p, a)
    <3>1. /\ IsFill(e, "BUY") /\ quantity = 0 /\ basis = 0 /\ quantity' = e.quantity
          /\ e.quantity > 0 /\ e.quantity \in Int /\ e.exec = BuyPrice(p)
          /\ basis' = BuyCost(e.quantity, p) /\ cash' = cash - BuyCost(e.quantity, p)
          /\ BuyCost(e.quantity, p) \in Int /\ trades' = trades
          /\ e.fee = e.quantity * BuyPrice(p) * FeeNum
      BY <2>1, <2>6, RowFields DEF Purchase, IsFill, Recorded
    <3>2. Paired(trace').lot = e /\ Paired(trace').trips = acc.trips
      BY <1>3, <2>2, <3>1, PairCases
    <3>3. basis' = quantity' * e.exec * FeeDen + e.fee
      BY <3>1, FeeApart
    <3>4. LotIsPosition'
      BY <2>1, <3>1, <3>2, <3>3 DEF LotIsPosition
    <3>5. cash' + basis' = cash + basis
      BY <1>2, <3>1
    <3> QED
      BY <1>4, <2>3, <3>1, <3>2, <3>4, <3>5 DEF Evaluated
  <2>7. CASE Sale(e, p, a)
    <3>1. /\ IsFill(e, "SELL") /\ quantity > 0 /\ e.quantity = quantity
          /\ e.exec = SellPrice(p) /\ e.fee = e.quantity * e.exec * FeeNum
          /\ quantity' = 0 /\ basis' = 0 /\ SellProceeds(quantity, p) \in Int
          /\ cash' = cash + SellProceeds(quantity, p)
      BY <2>1, <2>7 DEF Sale, IsFill, Recorded
    <3>2. PICK d \in Nat :
            trades' = Append(trades, [day |-> d, pnl |-> SellProceeds(quantity, p) - basis])
      BY <2>7 DEF Sale
    <3> DEFINE t == RoundTrip(acc.lot, e)
               pnl == SellProceeds(quantity, p) - basis
               tr == [day |-> d, pnl |-> pnl]
    <3>3. /\ acc.lot \in Rows /\ acc.lot # NoEvent /\ acc.lot.quantity = quantity
          /\ basis = quantity * acc.lot.exec * FeeDen + acc.lot.fee
      BY <1>4, <2>4, <3>1 DEF LotIsPosition, acc
    <3>4. t \in Trips /\ t.net = pnl /\ t.net = t.gross - t.fees
      BY <1>2, <2>1, <3>1, <3>3, RoundTrips, TripIsTrade
    <3>5. Paired(trace').lot = NoEvent /\ Paired(trace').trips = Append(acc.trips, t)
      <4>1. Pair(acc, e) = [lot |-> NoEvent, trips |-> Append(acc.trips, t)]
        BY <1>3, <2>1, <3>1, <3>3, PairCases
      <4> QED
        BY <2>2, <4>1
    <3> HIDE DEF t
    <3>6. pnl \in Int /\ tr \in Trade /\ tr.pnl = pnl
      BY <1>2, <3>1 DEF Trade
    <3> HIDE DEF pnl
    <3>7. /\ Totals(Append(acc.trips, t))
          /\ NetOf(Append(acc.trips, t)) = NetOf(acc.trips) + pnl
      BY <1>3, <1>4, <3>4, TotalsGrow
    <3>8. cash' + basis' = InitialCash + NetOf(Append(acc.trips, t))
      <4>1. cash' + basis' = (cash + basis) + pnl
        BY <1>2, <3>1 DEF pnl
      <4>2. NetOf(acc.trips) \in Int /\ InitialCash \in Int
        BY <1>4, MoneyPositive DEF Totals
      <4> QED
        BY <1>4, <3>6, <3>7, <4>1, <4>2
    <3> HIDE DEF tr
    <3>9. /\ Len(Append(acc.trips, t)) = Len(trades')
          /\ \A i \in 1..Len(trades') : Append(acc.trips, t)[i].net = trades'[i].pnl
      <4>1. trades' = Append(trades, tr)
        BY <3>2 DEF tr, pnl
      <4>2. /\ Len(trades') = Len(trades) + 1 /\ trades'[Len(trades) + 1] = tr
            /\ \A k \in 1..Len(trades) : trades'[k] = trades[k]
        BY <1>2, <3>6, <4>1, Appending
      <4>3. /\ Len(Append(acc.trips, t)) = Len(trades) + 1
            /\ Append(acc.trips, t)[Len(trades) + 1] = t
            /\ \A k \in 1..Len(trades) : Append(acc.trips, t)[k] = acc.trips[k]
        BY <1>3, <1>4, <3>4, Appending
      <4>4. Len(trades) \in Nat
        BY <1>2, Indexing
      <4>5. \A k \in 1..(Len(trades) + 1) : k \in 1..Len(trades) \/ k = Len(trades) + 1
        BY <4>4
      <4> QED
        BY <1>4, <3>4, <3>6, <4>2, <4>3, <4>5
    <3>10. LotIsPosition'
      BY <3>1, <3>5 DEF LotIsPosition
    <3> QED
      BY <2>3, <3>5, <3>7, <3>8, <3>9, <3>10 DEF Evaluated
  <2> QED
    BY <2>1, <2>5, <2>6, <2>7
<1> QED
  BY <1>1, <1>5, <1>6, RunCases

LEMMA EvaluatedStep ==
  ASSUME MaxOpenPositions <= 1, Journaled, Evaluated, [JournalNext]_journalVars
  PROVE  Evaluated'
<1>1. ASSUME NEW p \in Prices, NEW a \in Atrs, NEW wick \in Wicks,
             NEW signal \in Action, Run(p, a, wick, signal)
      PROVE  Evaluated'
  BY <1>1, EvaluatedRun
<1>2. CASE UNCHANGED vars /\ trace' = trace
  <2>1. /\ cash' = cash /\ quantity' = quantity /\ basis' = basis /\ trades' = trades
        /\ trace' = trace
    BY <1>2 DEF vars, account
  <2> QED
    BY <2>1 DEF Evaluated, LotIsPosition
<1>3. Report \/ Tamper \/ UNCHANGED journalVars => UNCHANGED vars /\ trace' = trace
  BY DEF Report, Tamper, journalVars, readers
<1> QED
  BY <1>1, <1>2, <1>3 DEF JournalNext

LEMMA EvaluatedHolds ==
  ASSUME Journaled, Evaluated
  PROVE  EvaluationIsOfTrades
<1> DEFINE trips == TradesFromTrace
<1>1. trips = Paired(trace).trips
  BY DEF TradesFromTrace
<1>2. /\ trace \in Seq(Rows) /\ Solo
      /\ trace # <<>> => trace[Len(trace)].equity = cash + quantity * lastPrice * Money
  <2>1. trace \in Seq(Rows) /\ Solo
    BY DEF Journaled
  <2>2. trace # <<>> => trace[Len(trace)].equity = cash + quantity * lastPrice * Money
    BY Zenon DEF Journaled
  <2> QED
    BY <2>1, <2>2
<1>3. trips \in Seq(Trips)
  <2>1. PICK g : PairTrail(g, trace) /\ Paired(trace) = g[Len(trace)]
    BY <1>2, PairedTrail
  <2>2. Len(trace) \in 0..Len(trace)
    BY <1>2
  <2>3. Paired(trace) \in Pairings
    BY <2>1, <2>2 DEF PairTrail
  <2> QED
    BY <1>1, <2>3 DEF Pairings
<1>4. /\ Totals(trips) /\ cash + basis = InitialCash + NetOf(trips)
      /\ Len(trips) = Len(trades)
      /\ \A i \in 1..Len(trades) : trips[i].net = trades[i].pnl
      /\ \A k \in 1..Len(trace) : Told(trace[k])
  BY <1>1 DEF Evaluated
<1> HIDE DEF trips
<1>5. DOMAIN trips = 1..Len(trades)
  BY <1>3, <1>4, Indexing
<1>6. quantity = 0 /\ trace # <<>> => Last(trace).equity = InitialCash + NetOf(trips)
  <2> SUFFICES ASSUME quantity = 0, trace # <<>>
               PROVE  trace[Len(trace)].equity = InitialCash + NetOf(trips)
    BY DEF Last
  <2>1. trace[Len(trace)].equity = cash + 0 * lastPrice * Money
    BY <1>2
  <2>2. cash \in Int /\ lastPrice \in Int /\ Money \in Int /\ basis = 0
    BY <1>2, MoneyPositive DEF Solo, Managed, Sound, TypeOK, NoBasisLeft
  <2>3. 0 * lastPrice * Money = 0
    BY <2>2
  <2>4. cash + 0 = cash
    BY <2>2
  <2> QED
    BY <1>4, <2>1, <2>2, <2>3, <2>4
<1>7. TripsAreTrades
  BY <1>2, <1>4, <1>5, <1>6, Attribution DEF TripsAreTrades, trips
<1>8. ViabilityNeedsALoss
  BY <1>3, <1>4, TotalsViable DEF ViabilityNeedsALoss, trips
<1> QED
  BY <1>7, <1>8 DEF EvaluationIsOfTrades

\* Sound rows of an engine with one position: the base of what readers make of them.
LEMMA JournaledStep ==
  ASSUME MaxOpenPositions <= 1, Journaled, [JournalNext]_journalVars
  PROVE  Journaled'
<1>1. ASSUME NEW p \in Prices, NEW a \in Atrs, NEW wick \in Wicks,
             NEW signal \in Action, Run(p, a, wick, signal)
      PROVE  Journaled'
  BY <1>1, JournaledRun
<1>2. CASE Report \/ UNCHANGED journalVars
  <2>1. /\ UNCHANGED vars /\ trace' = trace /\ raised' = raised /\ stored' = stored
        /\ damage' = damage
    BY <1>2 DEF Report, journalVars, readers
  <2>2. stored' \in Seq(Rows) /\ (damage' = "" => stored' = trace)
    BY <2>1 DEF Journaled
  <2> QED
    BY <2>1, <2>2, JournaledKept
<1>3. CASE Tamper
  <2>1. /\ UNCHANGED vars /\ raised' = raised /\ trace' = trace
    BY <1>3, TamperCases
  <2>2. PICK i \in DOMAIN stored, d \in {0, 1} :
          damage' = Touches(i) /\ Changed(stored, i, stored', d)
    BY <1>3, TamperCases
  <2>3. stored' \in Seq(Rows) /\ damage' # ""
    BY <2>2 DEF Changed, Touches
  <2> QED
    BY <2>1, <2>3, JournaledKept
<1> QED
  BY <1>1, <1>2, <1>3 DEF JournalNext

\* What the lab evaluates is what the portfolio did, and its viability gate is about
\* money made and a trade lost: for every session of an engine with one position.
THEOREM EvaluationIsHonest ==
  ASSUME MaxOpenPositions <= 1
  PROVE  JournalSpec => []EvaluationIsOfTrades
<1>1. JournalInit => Journaled /\ Evaluated
  BY JournaledInit, EvaluatedInit
<1>2. Journaled /\ Evaluated /\ [JournalNext]_journalVars => (Journaled /\ Evaluated)'
  BY JournaledStep, EvaluatedStep
<1>3. Journaled /\ Evaluated => EvaluationIsOfTrades
  BY EvaluatedHolds
<1> QED
  BY <1>1, <1>2, <1>3, PTL DEF JournalSpec

-----------------------------------------------------------------------------
(* What the audit of the exits finds.  A lot is a filled BUY at its place  *)
(* among the rows; the bars after it are what update_trailing has seen.    *)

TopsIn(es, lot, n) == {lot.exec} \cup { es[b].close * SlipDen : b \in (lot.ts + 1)..n }

RaisedIn(es, lot, n, s) ==
  /\ s > lot.stop
  /\ \E top \in TopsIn(es, lot, n), a \in Atrs \ {0} : s = top - TrailAtr * a * SlipDen

BelowIn(es, lot, n) ==
  lot.target # NoTarget => \A b \in (lot.ts + 1)..n : es[b].close * SlipDen < lot.target

\* The position and the lot it was opened with.
Following(es, lot, pos) ==
  /\ lot.ts \in 1..Len(es) /\ es[lot.ts] = lot
  /\ pos.target = lot.target
  /\ pos.highest \in TopsIn(es, lot, Len(es))
  /\ pos.stop = lot.stop \/ RaisedIn(es, lot, Len(es), pos.stop)
  /\ BelowIn(es, lot, Len(es))

\* What the rows say of a completed trip.
SaleReasons == ProtectiveReasons \cup {"llm_sell"}
Explained(es, trip) ==
  LET buy == es[trip.entry]
      sell == es[trip.exit]
  IN /\ trip.entry \in 1..Len(es) /\ trip.exit \in (trip.entry + 1)..Len(es)
     /\ trip.reason \in SaleReasons
     /\ trip.reason = "take_profit" =>
          buy.target # NoTarget /\ sell.high * SlipDen >= buy.target
     /\ trip.reason = "stop_loss" =>
          \/ sell.low * SlipDen <= buy.stop
          \/ \E s \in Int : RaisedIn(es, buy, trip.exit, s) /\ sell.close * SlipDen <= s
     /\ BelowIn(es, buy, trip.exit - 1)

Audited ==
  LET acc == Paired(trace) IN
  /\ IF position = Flat THEN acc.lot = NoEvent
     ELSE acc.lot \in Rows /\ Following(trace, acc.lot, position)
  /\ \A i \in 1..Len(acc.trips) : Explained(trace, acc.trips[i])

\* Rows that follow change nothing about the ones before.
Prolongs(fs, es) ==
  /\ Len(es) \in Nat /\ Len(fs) \in Nat /\ Len(es) <= Len(fs)
  /\ \A k \in 1..Len(es) : fs[k] = es[k]

LEMMA SameBars ==
  ASSUME NEW es, NEW fs, Prolongs(fs, es), NEW lot \in Rows, NEW n \in Int, n <= Len(es)
  PROVE  /\ \A s : RaisedIn(es, lot, n, s) <=> RaisedIn(fs, lot, n, s)
         /\ TopsIn(es, lot, n) = TopsIn(fs, lot, n)
         /\ BelowIn(es, lot, n) <=> BelowIn(fs, lot, n)
<1>1. lot.ts \in Nat
  BY RowFields
<1>2. \A b \in (lot.ts + 1)..n : fs[b] = es[b]
  <2>1. \A b \in (lot.ts + 1)..n : b \in 1..Len(es)
    BY <1>1 DEF Prolongs
  <2> QED
    BY <2>1 DEF Prolongs
<1>3. TopsIn(es, lot, n) = TopsIn(fs, lot, n)
  BY <1>2 DEF TopsIn
<1> QED
  BY <1>2, <1>3 DEF RaisedIn, BelowIn

LEMMA MoreBars ==
  ASSUME NEW es, NEW lot, NEW n \in Int, lot.ts \in Int
  PROVE  /\ TopsIn(es, lot, n) \subseteq TopsIn(es, lot, n + 1)
         /\ \A s : RaisedIn(es, lot, n, s) => RaisedIn(es, lot, n + 1, s)
<1>1. \A b \in (lot.ts + 1)..n : b \in (lot.ts + 1)..(n + 1)
  OBVIOUS
<1>2. TopsIn(es, lot, n) \subseteq TopsIn(es, lot, n + 1)
  BY <1>1 DEF TopsIn
<1> QED
  BY <1>2 DEF RaisedIn

\* A row more.
LEMMA OneRowMore ==
  ASSUME NEW es \in Seq(Rows), NEW e \in Rows
  PROVE  /\ Prolongs(Append(es, e), es)
         /\ Len(es) \in Nat /\ Len(Append(es, e)) = Len(es) + 1
         /\ Append(es, e)[Len(es) + 1] = e
<1>1. /\ Len(Append(es, e)) = Len(es) + 1 /\ Append(es, e)[Len(es) + 1] = e
      /\ \A k \in 1..Len(es) : Append(es, e)[k] = es[k]
  BY Appending
<1>2. Len(es) \in Nat
  BY Indexing
<1>3. Len(es) + 1 \in Nat /\ Len(es) <= Len(es) + 1
  BY <1>2
<1> QED
  BY <1>1, <1>2, <1>3 DEF Prolongs

LEMMA ExplainedStays ==
  ASSUME NEW es \in Seq(Rows), NEW fs, Prolongs(fs, es), NEW trip \in Trips,
         Explained(es, trip)
  PROVE  Explained(fs, trip)
<1>1. /\ Len(es) \in Nat /\ Len(fs) \in Nat /\ Len(es) <= Len(fs)
      /\ \A k \in 1..Len(es) : fs[k] = es[k]
  BY DEF Prolongs
<1>2. trip.entry \in 1..Len(es) /\ trip.exit \in (trip.entry + 1)..Len(es)
  BY DEF Explained
<1>3. /\ trip.exit \in 1..Len(es) /\ trip.exit - 1 \in Int /\ trip.exit - 1 <= Len(es)
      /\ trip.exit \in Int /\ trip.exit <= Len(es)
      /\ trip.entry \in 1..Len(fs) /\ trip.exit \in (trip.entry + 1)..Len(fs)
  BY <1>1, <1>2
<1>4. /\ fs[trip.entry] = es[trip.entry] /\ fs[trip.exit] = es[trip.exit]
      /\ es[trip.entry] \in Rows
  BY <1>1, <1>2, <1>3
<1>5. /\ \A s : RaisedIn(es, es[trip.entry], trip.exit, s) <=>
                RaisedIn(fs, es[trip.entry], trip.exit, s)
      /\ BelowIn(es, es[trip.entry], trip.exit - 1) <=>
           BelowIn(fs, es[trip.entry], trip.exit - 1)
  BY <1>3, <1>4, SameBars
<1> QED
  BY <1>3, <1>4, <1>5 DEF Explained

\* update_trailing: the position goes on following its lot.
LEMMA TrailingFollows ==
  ASSUME NEW es \in Seq(Rows), NEW e \in Rows, NEW lot \in Rows, NEW p \in Prices,
         NEW a \in Atrs, position \in Holding, position # Flat,
         Following(es, lot, position), e.close = p
  PROVE  LET fs == Append(es, e)
             n == Len(es) + 1
             pos == Trailed(p, a)
         IN /\ lot.ts \in 1..Len(es) /\ fs[lot.ts] = lot
            /\ pos.target = lot.target /\ pos.entry = position.entry
            /\ pos.highest \in TopsIn(fs, lot, n)
            /\ pos.stop = lot.stop \/ RaisedIn(fs, lot, n, pos.stop)
            /\ pos.stop \in Int /\ pos.target \in Int
<1> DEFINE fs == Append(es, e)
           m == Len(es)
           top == Larger(position.highest, p * SlipDen)
           up == top - TrailAtr * a * SlipDen
           pos == Trailed(p, a)
<1>1. /\ Prolongs(fs, es) /\ m \in Nat /\ Len(fs) = m + 1 /\ fs[m + 1] = e
  BY OneRowMore
<1>2. lot.ts \in 1..m /\ es[lot.ts] = lot /\ lot.ts \in Int
  <2>1. lot.ts \in 1..m /\ es[lot.ts] = lot
    BY DEF Following
  <2> QED
    BY <2>1
<1>3. fs[lot.ts] = lot
  BY <1>1, <1>2 DEF Prolongs
<1>4. /\ position.target = lot.target
      /\ position.highest \in TopsIn(es, lot, m)
      /\ position.stop = lot.stop \/ RaisedIn(es, lot, m, position.stop)
  BY DEF Following
<1>5. /\ TopsIn(es, lot, m) = TopsIn(fs, lot, m)
      /\ \A s : RaisedIn(es, lot, m, s) <=> RaisedIn(fs, lot, m, s)
  BY <1>1, SameBars
<1>6. /\ TopsIn(fs, lot, m) \subseteq TopsIn(fs, lot, m + 1)
      /\ \A s : RaisedIn(fs, lot, m, s) => RaisedIn(fs, lot, m + 1, s)
  <2>1. m \in Int
    BY <1>1
  <2> HIDE DEF m, fs
  <2> QED
    BY <1>2, <2>1, MoreBars, Zenon
<1>7. p * SlipDen \in TopsIn(fs, lot, m + 1)
  <2>1. m + 1 \in (lot.ts + 1)..(m + 1)
    BY <1>1, <1>2
  <2>2. fs[m + 1].close * SlipDen = p * SlipDen
    BY <1>1
  <2> HIDE DEF m, fs
  <2> QED
    BY <2>1, <2>2 DEF TopsIn
<1>8. /\ position.stop \in Int /\ position.highest \in Int /\ lot.stop \in Int
      /\ position.target \in Int /\ p * SlipDen \in Int /\ TrailAtr * a * SlipDen \in Int
  <2>1. /\ position.stop \in Int /\ position.highest \in Int /\ position.target \in Int
    BY DEF Holding, NoTarget
  <2>2. lot.stop \in Int
    BY RowFields
  <2>3. TrailAtr \in Int /\ a \in Int /\ p \in Int /\ SlipDen \in Int
    BY Constants, EngineAssumption DEF EngineAssumption
  <2> QED
    BY <2>1, <2>2, <2>3
<1>9. /\ pos.highest = top /\ pos.target = position.target /\ pos.entry = position.entry
      /\ pos.stop = IF a = 0 THEN position.stop ELSE Larger(position.stop, up)
  BY DEF Trailed, Holding
<1> HIDE DEF pos, fs, m
<1>10. top \in TopsIn(fs, lot, m + 1) /\ top \in Int
  BY <1>4, <1>5, <1>6, <1>7, <1>8 DEF Larger
<1> HIDE DEF top
<1>11. position.stop = lot.stop \/ RaisedIn(fs, lot, m + 1, position.stop)
  BY <1>4, <1>5, <1>6
<1>12. CASE pos.stop = position.stop
  BY <1>3, <1>2, <1>4, <1>8, <1>9, <1>10, <1>11, <1>12 DEF pos, fs, m
<1>13. CASE pos.stop # position.stop
  <2>1. a # 0 /\ pos.stop = up /\ up > position.stop /\ up \in Int
    BY <1>8, <1>9, <1>10, <1>13 DEF Larger
  <2>2. position.stop >= lot.stop
    BY <1>8, <1>11 DEF RaisedIn
  <2>3. up > lot.stop
    BY <1>8, <2>1, <2>2
  <2>4. RaisedIn(fs, lot, m + 1, pos.stop)
    BY <1>10, <2>1, <2>3 DEF RaisedIn
  <2> QED
    BY <1>2, <1>3, <1>4, <1>8, <1>9, <1>10, <2>1, <2>4 DEF pos, fs, m
<1> QED
  BY <1>12, <1>13

\* A bar that does not end the position is below its target.
LEMMA OneBarBelow ==
  ASSUME NEW fs, NEW lot \in Rows, NEW n \in Nat, BelowIn(fs, lot, n),
         lot.target # NoTarget => fs[n + 1].close * SlipDen < lot.target
  PROVE  BelowIn(fs, lot, n + 1)
<1>1. \A b \in (lot.ts + 1)..(n + 1) : b \in (lot.ts + 1)..n \/ b = n + 1
  BY RowFields
<1> QED
  BY <1>1 DEF BelowIn

LEMMA IdleFollows ==
  ASSUME NEW es \in Seq(Rows), NEW e \in Rows, NEW lot \in Rows, NEW p \in Prices,
         NEW a \in Atrs, Sound, position # Flat, ~MustExit(p, a),
         Following(es, lot, position), e.close = p
  PROVE  Following(Append(es, e), lot, Trailed(p, a))
<1> DEFINE fs == Append(es, e)
           n == Len(es)
           pos == Trailed(p, a)
<1>1. /\ Prolongs(fs, es) /\ n \in Nat /\ Len(fs) = n + 1 /\ fs[n + 1] = e
  BY OneRowMore
<1>2. position \in Holding
  BY DEF Sound, TypeOK
<1>3. /\ lot.ts \in 1..n /\ fs[lot.ts] = lot
      /\ pos.target = lot.target
      /\ pos.highest \in TopsIn(fs, lot, n + 1)
      /\ pos.stop = lot.stop \/ RaisedIn(fs, lot, n + 1, pos.stop)
      /\ pos.target \in Int
  BY <1>2, TrailingFollows
<1>4. pos # Flat
  BY Trailing
<1>5. BelowIn(fs, lot, n)
  <2>1. n <= n /\ n \in Int /\ BelowIn(es, lot, n)
    BY <1>1 DEF Following
  <2> QED
    BY <1>1, <2>1, SameBars
<1>6. lot.target # NoTarget => fs[n + 1].close * SlipDen < lot.target
  <2>1. ~TargetHit(p, pos)
    BY DEF MustExit
  <2>2. p * SlipDen \in Int
    BY ExecutionPrices
  <2> HIDE DEF pos, fs, n
  <2> QED
    BY <1>1, <1>3, <1>4, <2>1, <2>2 DEF TargetHit
<1> HIDE DEF fs, pos, n
<1>7. BelowIn(fs, lot, n + 1)
  BY <1>1, <1>5, <1>6, OneBarBelow
<1>8. lot.ts \in 1..(n + 1)
  BY <1>1, <1>3
<1>9. Following(fs, lot, pos)
  BY <1>1, <1>3, <1>7, <1>8 DEF Following
<1> QED
  BY <1>9 DEF fs, pos

\* The sale of a position explains itself by the rows from its lot to the sale.
LEMMA SaleExplained ==
  ASSUME NEW es \in Seq(Rows), NEW e \in Rows, NEW lot \in Rows, NEW p \in Prices,
         NEW a \in Atrs, NEW wick \in Wicks, NEW trip, Sound, position # Flat,
         Following(es, lot, position),
         e.close = p, e.high = p + wick, e.low = p - wick, e.ts = Len(es) + 1,
         \/ e.reason = ExitReason(p, Trailed(p, a)) /\ MustExit(p, a)
         \/ e.reason = "llm_sell",
         trip.entry = lot.ts, trip.exit = e.ts, trip.reason = e.reason
  PROVE  Explained(Append(es, e), trip)
<1> DEFINE fs == Append(es, e)
           n == Len(es)
           pos == Trailed(p, a)
<1>1. /\ Prolongs(fs, es) /\ n \in Nat /\ Len(fs) = n + 1 /\ fs[n + 1] = e
  BY OneRowMore
<1>2. position \in Holding
  BY DEF Sound, TypeOK
<1>3. /\ lot.ts \in 1..n /\ fs[lot.ts] = lot
      /\ pos.target = lot.target
      /\ pos.stop = lot.stop \/ RaisedIn(fs, lot, n + 1, pos.stop)
      /\ pos.stop \in Int /\ pos.target \in Int
  BY <1>2, TrailingFollows
<1>4. pos # Flat
  BY Trailing
<1>5. BelowIn(fs, lot, n)
  <2>1. n <= n /\ n \in Int /\ BelowIn(es, lot, n)
    BY <1>1 DEF Following
  <2> QED
    BY <1>1, <2>1, SameBars
<1>6. /\ wick \in Nat /\ p \in Int /\ SlipDen \in Int /\ SlipDen > 0 /\ p * SlipDen \in Int
  BY Constants, JournalAssumption, ExecutionPrices DEF JournalAssumption
<1>7. wick * SlipDen \in Int /\ wick * SlipDen >= 0
  BY <1>6, Product
<1>8. /\ e.high * SlipDen = p * SlipDen + wick * SlipDen
      /\ e.low * SlipDen = p * SlipDen - wick * SlipDen
  BY <1>6
<1>9. /\ p * SlipDen <= e.high * SlipDen /\ e.low * SlipDen <= p * SlipDen
      /\ e.high * SlipDen \in Int /\ e.low * SlipDen \in Int
  BY <1>6, <1>7, <1>8
<1>10. ASSUME MustExit(p, a) PROVE StopHit(p, pos) \/ TargetHit(p, pos)
  BY <1>10 DEF MustExit
<1> HIDE DEF fs, pos, n
<1>11. e.reason \in SaleReasons
  BY DEF ExitReason, SaleReasons, ProtectiveReasons, pos
<1>12. e.reason = "take_profit" => lot.target # NoTarget /\ e.high * SlipDen >= lot.target
  <2> SUFFICES ASSUME e.reason = "take_profit"
               PROVE  lot.target # NoTarget /\ e.high * SlipDen >= lot.target
    OBVIOUS
  <2>1. MustExit(p, a) /\ "take_profit" = ExitReason(p, pos)
    BY DEF pos
  <2>2. ~StopHit(p, pos)
    BY <2>1 DEF ExitReason
  <2>3. TargetHit(p, pos)
    BY <1>10, <2>1, <2>2
  <2>4. lot.target # NoTarget /\ p * SlipDen >= lot.target /\ lot.target \in Int
    BY <1>3, <2>3 DEF TargetHit
  <2> QED
    BY <1>6, <1>9, <2>4
<1>13. e.reason = "stop_loss" =>
         \/ e.low * SlipDen <= lot.stop
         \/ \E s \in Int : RaisedIn(fs, lot, n + 1, s) /\ e.close * SlipDen <= s
  <2> SUFFICES ASSUME e.reason = "stop_loss"
               PROVE  \/ e.low * SlipDen <= lot.stop
                      \/ \E s \in Int : RaisedIn(fs, lot, n + 1, s) /\ e.close * SlipDen <= s
    OBVIOUS
  <2>1. "stop_loss" = ExitReason(p, pos)
    BY DEF pos
  <2>2. StopHit(p, pos)
    BY <2>1 DEF ExitReason
  <2>3. p * SlipDen <= pos.stop
    BY <2>2 DEF StopHit
  <2>4. CASE pos.stop = lot.stop
    BY <1>3, <1>6, <1>9, <2>3, <2>4
  <2>5. CASE RaisedIn(fs, lot, n + 1, pos.stop)
    BY <1>3, <2>3, <2>5
  <2> QED
    BY <1>3, <2>4, <2>5
<1>14. /\ trip.exit = n + 1 /\ n + 1 \in (lot.ts + 1)..(n + 1) /\ (n + 1) - 1 = n
       /\ lot.ts \in 1..(n + 1)
  <2>1. trip.exit = n + 1
    BY DEF n
  <2> QED
    BY <1>1, <1>3, <2>1
<1>15. Explained(fs, trip)
  <2>1. fs[trip.entry] = lot /\ fs[trip.exit] = e
    BY <1>1, <1>3, <1>14
  <2> QED
    BY <1>1, <1>5, <1>11, <1>12, <1>13, <1>14, <2>1 DEF Explained
<1> QED
  BY <1>15 DEF fs

\* A purchase is a lot that the new position follows.
LEMMA PurchaseFollows ==
  ASSUME NEW es \in Seq(Rows), NEW e \in Rows, NEW p \in Prices, NEW a \in Atrs, NEW q,
         e.ts = Len(es) + 1, e.exec = BuyPrice(p),
         e.stop = Bracket(q, p, a).stop, e.target = Bracket(q, p, a).target
  PROVE  Following(Append(es, e), e, Bracket(q, p, a)) /\ Bracket(q, p, a) # Flat
<1> DEFINE fs == Append(es, e)
           n == Len(es)
           pos == Bracket(q, p, a)
<1>1. n \in Nat /\ Len(fs) = n + 1 /\ fs[n + 1] = e
  BY OneRowMore
<1>2. pos.highest = e.exec /\ pos.entry = e.exec
  BY DEF Bracket
<1>3. pos # Flat
  <2>1. pos.entry > 0 /\ Flat.entry = 0
    BY <1>2, ExecutionPrices DEF Flat
  <2> HIDE DEF pos
  <2> QED
    BY <2>1
<1> HIDE DEF fs, pos, n
<1>4. e.ts = n + 1 /\ pos.target = e.target /\ pos.stop = e.stop
  BY DEF n, pos
<1>5. n + 1 \in 1..(n + 1) /\ ((n + 1) + 1)..(n + 1) = {}
  BY <1>1
<1>6. BelowIn(fs, e, n + 1)
  BY <1>4, <1>5 DEF BelowIn
<1>7. e.exec \in TopsIn(fs, e, n + 1)
  BY DEF TopsIn
<1>8. Following(fs, e, pos)
  BY <1>1, <1>2, <1>4, <1>5, <1>6, <1>7 DEF Following
<1> QED
  BY <1>3, <1>8 DEF fs, pos

LEMMA PairingOf ==
  ASSUME NEW es \in Seq(Rows)
  PROVE  /\ Paired(es) \in Pairings /\ Paired(es).trips \in Seq(Trips)
         /\ Len(Paired(es).trips) \in Nat
         /\ \A i \in 1..Len(Paired(es).trips) : Paired(es).trips[i] \in Trips
<1>1. PICK g : PairTrail(g, es) /\ Paired(es) = g[Len(es)]
  BY PairedTrail
<1>2. Len(es) \in 0..Len(es)
  OBVIOUS
<1>3. Paired(es) \in Pairings
  BY <1>1, <1>2 DEF PairTrail
<1>4. Paired(es).trips \in Seq(Trips)
  BY <1>3 DEF Pairings
<1> QED
  BY <1>3, <1>4, Indexing

LEMMA AuditedInit == JournalInit => Audited
<1> SUFFICES ASSUME JournalInit PROVE Audited
  OBVIOUS
<1>1. trace = <<>> /\ position = Flat
  BY DEF JournalInit, Init
<1>2. Paired(trace).lot = NoEvent /\ Paired(trace).trips = <<>>
  BY <1>1, PairedNothing DEF NoTrips
<1>3. 1..Len(<<>>) = {}
  OBVIOUS
<1> QED
  BY <1>1, <1>2, <1>3 DEF Audited

LEMMA AuditedRun ==
  ASSUME MaxOpenPositions <= 1, Journaled, Audited, NEW p \in Prices, NEW a \in Atrs,
         NEW wick \in Wicks, NEW signal \in Action, Run(p, a, wick, signal)
  PROVE  Audited'
<1>1. Solo /\ Sound /\ trace \in Seq(Rows)
  BY DEF Journaled, Solo, Managed
<1> DEFINE acc == Paired(trace)
<1>2. /\ acc \in Pairings /\ acc.trips \in Seq(Trips) /\ Len(acc.trips) \in Nat
      /\ \A i \in 1..Len(acc.trips) : acc.trips[i] \in Trips
  BY <1>1, PairingOf
<1>3. /\ IF position = Flat THEN acc.lot = NoEvent
         ELSE acc.lot \in Rows /\ Following(trace, acc.lot, position)
      /\ \A i \in 1..Len(acc.trips) : Explained(trace, acc.trips[i])
  BY DEF Audited
<1>4. CASE trace' = trace /\ position = Flat /\ position' = Flat
  BY <1>3, <1>4 DEF Audited
<1>5. CASE \E e \in Rows :
                /\ trace' = Append(trace, e) /\ stored' = Append(stored, e)
                /\ Recorded(e, p, wick)
                /\ Idle(e, p, a) \/ Sale(e, p, a) \/ Purchase(e, p, a)
  <2>1. PICK e \in Rows :
                /\ trace' = Append(trace, e) /\ Recorded(e, p, wick)
                /\ Idle(e, p, a) \/ Sale(e, p, a) \/ Purchase(e, p, a)
    BY <1>5
  <2>2. Paired(trace') = Pair(acc, e)
    BY <1>1, <2>1, PairedAppend
  <2>3. /\ e.close = p /\ e.high = p + wick /\ e.low = p - wick
        /\ e.stop = position'.stop /\ e.target = position'.target
    BY <2>1 DEF Recorded
  <2>4. e.ts = Len(trace) + 1
    <3>1. ~raised
      BY <1>1, RunCases
    <3> QED
      BY <2>1, <3>1 DEF Journaled, Recorded
  <2>5. \A i \in 1..Len(acc.trips) : Explained(trace', acc.trips[i])
    <3>1. Prolongs(trace', trace)
      BY <1>1, <2>1, OneRowMore
    <3> QED
      BY <1>1, <1>2, <1>3, <3>1, ExplainedStays
  <2>6. acc.lot \in Rows => acc.lot # NoEvent
    BY RowIsEvent
  <2> HIDE DEF acc
  <2>7. CASE Idle(e, p, a)
    <3>1. ~IsFill(e, "BUY") /\ ~IsFill(e, "SELL") /\ position' = Trailed(p, a)
          /\ ~MustExit(p, a)
      BY <2>7 DEF Idle, IsFill
    <3>2. Paired(trace') = acc
      BY <1>2, <2>2, <3>1, PairCases
    <3>3. CASE position = Flat
      <4>1. position' = Flat
        BY <3>1, <3>3 DEF Trailed
      <4> QED
        BY <1>3, <2>5, <3>2, <3>3, <4>1 DEF Audited
    <3>4. CASE position # Flat
      <4>1. acc.lot \in Rows /\ Following(trace, acc.lot, position)
        BY <1>3, <3>4
      <4>2. Following(Append(trace, e), acc.lot, Trailed(p, a))
        BY <1>1, <2>3, <3>1, <3>4, <4>1, IdleFollows
      <4>3. Trailed(p, a) # Flat
        BY <1>1, <3>4, Trailing
      <4> QED
        BY <2>1, <2>5, <3>1, <3>2, <4>1, <4>2, <4>3 DEF Audited
    <3> QED
      BY <3>3, <3>4
  <2>8. CASE Purchase(e, p, a)
    <3>1. /\ IsFill(e, "BUY") /\ e.exec = BuyPrice(p)
          /\ position' = Bracket(e.quantity, p, a)
      BY <2>8 DEF Purchase, IsFill
    <3>2. Paired(trace').lot = e /\ Paired(trace').trips = acc.trips
      BY <1>2, <2>2, <3>1, PairCases
    <3>3. /\ Following(Append(trace, e), e, Bracket(e.quantity, p, a))
          /\ Bracket(e.quantity, p, a) # Flat
      BY <1>1, <2>3, <2>4, <3>1, PurchaseFollows
    <3> QED
      BY <2>1, <2>5, <3>1, <3>2, <3>3 DEF Audited
  <2>9. CASE Sale(e, p, a)
    <3>1. /\ IsFill(e, "SELL") /\ position # Flat /\ position' = Flat
          /\ \/ e.reason = ExitReason(p, Trailed(p, a)) /\ MustExit(p, a)
             \/ e.reason = "llm_sell"
      BY <2>9 DEF Sale, IsFill
    <3>2. acc.lot \in Rows /\ acc.lot # NoEvent /\ Following(trace, acc.lot, position)
      BY <1>3, <2>6, <3>1
    <3> DEFINE t == RoundTrip(acc.lot, e)
    <3>3. /\ t \in Trips /\ t.entry = acc.lot.ts /\ t.exit = e.ts
          /\ t.reason = e.reason
      <4>1. t \in Trips
        BY <3>2, RoundTrips
      <4> QED
        BY <4>1 DEF RoundTrip
    <3>4. Paired(trace').lot = NoEvent /\ Paired(trace').trips = Append(acc.trips, t)
      <4>1. Pair(acc, e) = [lot |-> NoEvent, trips |-> Append(acc.trips, t)]
        BY <1>2, <3>1, <3>2, PairCases
      <4> QED
        BY <2>2, <4>1
    <3> HIDE DEF t
    <3>5. Explained(trace', t)
      <4>1. Explained(Append(trace, e), t)
        BY <1>1, <2>3, <2>4, <3>1, <3>2, <3>3, SaleExplained
      <4> QED
        BY <2>1, <4>1
    <3>6. /\ Len(Append(acc.trips, t)) = Len(acc.trips) + 1
          /\ Append(acc.trips, t)[Len(acc.trips) + 1] = t
          /\ \A k \in 1..Len(acc.trips) : Append(acc.trips, t)[k] = acc.trips[k]
      BY <1>2, <3>3, Appending
    <3>7. \A k \in 1..(Len(acc.trips) + 1) : k \in 1..Len(acc.trips) \/ k = Len(acc.trips) + 1
      BY <1>2
    <3>8. \A k \in 1..Len(Append(acc.trips, t)) : Explained(trace', Append(acc.trips, t)[k])
      BY <2>5, <3>5, <3>6, <3>7
    <3> QED
      BY <3>1, <3>4, <3>8 DEF Audited
  <2> QED
    BY <2>1, <2>7, <2>8, <2>9
<1> QED
  BY <1>1, <1>4, <1>5, RunCases

LEMMA AuditedStep ==
  ASSUME MaxOpenPositions <= 1, Journaled, Audited, [JournalNext]_journalVars
  PROVE  Audited'
<1>1. ASSUME NEW p \in Prices, NEW a \in Atrs, NEW wick \in Wicks,
             NEW signal \in Action, Run(p, a, wick, signal)
      PROVE  Audited'
  BY <1>1, AuditedRun
<1>2. CASE position' = position /\ trace' = trace
  BY <1>2 DEF Audited
<1>3. Report \/ Tamper \/ UNCHANGED journalVars => position' = position /\ trace' = trace
  BY DEF Report, Tamper, journalVars, readers, vars
<1> QED
  BY <1>1, <1>2, <1>3 DEF JournalNext

\* The bar at a place is the row of that time, and so is the opening of a trip.
LEMMA BarsOf ==
  ASSUME Journaled, NEW trip, Explained(trace, trip)
  PROVE  /\ Opening(trip) = trace[trip.entry]
         /\ Bars(trip) = (trip.entry + 1)..trip.exit
         /\ trip.entry \in Nat /\ trip.exit \in Nat
         /\ trip.entry \in 1..Len(trace) /\ trip.exit \in 1..Len(trace)
<1>1. trace \in Seq(Rows) /\ \A k \in 1..Len(trace) : trace[k].ts = k
  BY DEF Journaled
<1>2. Len(trace) \in Nat /\ DOMAIN trace = 1..Len(trace)
  BY <1>1, Indexing
<1>3. trip.entry \in 1..Len(trace) /\ trip.exit \in (trip.entry + 1)..Len(trace)
  BY DEF Explained
<1>4. ToSet(trace) = { trace[k] : k \in 1..Len(trace) }
  BY <1>2 DEF ToSet
<1>5. trace[trip.entry] \in ToSet(trace) /\ trace[trip.entry].ts = trip.entry
  BY <1>1, <1>3, <1>4
<1>6. \A e \in ToSet(trace) : e.ts = trip.entry => e = trace[trip.entry]
  BY <1>1, <1>4
<1>7. Opening(trip) = trace[trip.entry]
  BY <1>5, <1>6 DEF Opening
<1>8. /\ trip.entry \in Nat /\ trip.exit \in Nat /\ trip.exit \in 1..Len(trace)
      /\ \A b \in (trip.entry + 1)..trip.exit : b \in 1..Len(trace)
  BY <1>2, <1>3
<1>9. Bars(trip) = (trip.entry + 1)..trip.exit
  BY <1>1, <1>2, <1>8 DEF Bars
<1> QED
  BY <1>3, <1>7, <1>8, <1>9

LEMMA AuditedHolds ==
  ASSUME Journaled, Audited
  PROVE  AuditExplainsExits
<1>1. trace \in Seq(Rows) /\ \A k \in 1..Len(trace) : trace[k].ts = k
  BY DEF Journaled
<1>2. /\ TradesFromTrace = Paired(trace).trips
      /\ DOMAIN TradesFromTrace = 1..Len(TradesFromTrace)
  <2>1. Paired(trace).trips \in Seq(Trips)
    BY <1>1, PairingOf
  <2> QED
    BY <2>1, Indexing DEF TradesFromTrace
<1> SUFFICES ASSUME NEW i \in 1..Len(TradesFromTrace)
             PROVE  LET trip == TradesFromTrace[i]
                        before == { b \in Bars(trip) : trace[b].ts < trip.exit }
                        target == Opening(trip).target
                    IN /\ Classified(trip) = "TAKE_PROFIT_EXIT" => TargetTouches(trip) # {}
                       /\ Classified(trip) = "INITIAL_OR_BELOW_ENTRY_STOP_EXIT" =>
                            \/ StopTouches(trip) # {}
                            \/ \E b \in Bars(trip), s \in RaisedStops(trip) :
                                 trace[b].ts = trip.exit /\ trace[b].close * SlipDen <= s
                       /\ target # NoTarget =>
                            \A b \in before : trace[b].close * SlipDen < target
  BY <1>2 DEF AuditExplainsExits
<1> DEFINE trip == TradesFromTrace[i]
<1>3. Explained(trace, trip)
  BY <1>2 DEF Audited
<1> HIDE DEF trip
<1> DEFINE buy == trace[trip.entry]
           n == trip.exit
<1>4. /\ Opening(trip) = buy /\ Bars(trip) = (trip.entry + 1)..n
      /\ trip.entry \in Nat /\ n \in Nat /\ n \in 1..Len(trace) /\ trip.entry \in 1..Len(trace)
      /\ n \in (trip.entry + 1)..n
  <2>1. n \in (trip.entry + 1)..Len(trace)
    BY <1>3 DEF Explained
  <2> QED
    BY <1>3, <2>1, BarsOf
<1>5. /\ trip.reason \in SaleReasons
      /\ trip.reason = "take_profit" =>
           buy.target # NoTarget /\ trace[n].high * SlipDen >= buy.target
      /\ trip.reason = "stop_loss" =>
           \/ trace[n].low * SlipDen <= buy.stop
           \/ \E s \in Int : RaisedIn(trace, buy, n, s) /\ trace[n].close * SlipDen <= s
      /\ BelowIn(trace, buy, n - 1)
  BY <1>3 DEF Explained
<1>6. buy.ts = trip.entry /\ trace[n].ts = n
  BY <1>1, <1>4
<1>7. /\ Classified(trip) = "TAKE_PROFIT_EXIT" => trip.reason = "take_profit"
      /\ Classified(trip) = "INITIAL_OR_BELOW_ENTRY_STOP_EXIT" => trip.reason = "stop_loss"
  BY <1>5 DEF Classified, SaleReasons, ProtectiveReasons
<1> HIDE DEF n, buy
<1>8. trip.reason = "take_profit" => TargetTouches(trip) # {}
  BY <1>4, <1>5 DEF TargetTouches
<1>9. trip.reason = "stop_loss" =>
        \/ StopTouches(trip) # {}
        \/ \E b \in Bars(trip), s \in RaisedStops(trip) :
             trace[b].ts = trip.exit /\ trace[b].close * SlipDen <= s
  <2>1. ASSUME NEW s \in Int, RaisedIn(trace, buy, n, s) PROVE s \in RaisedStops(trip)
    <3>1. PICK top \in TopsIn(trace, buy, n), a \in Atrs \ {0} :
            s = top - TrailAtr * a * SlipDen
      BY <2>1 DEF RaisedIn
    <3>2. top \in {Opening(trip).exec} \cup { trace[b].close * SlipDen : b \in Bars(trip) }
      BY <1>4, <1>6, <3>1 DEF TopsIn
    <3>3. s > Opening(trip).stop
      BY <1>4, <2>1 DEF RaisedIn
    <3> QED
      <4> DEFINE tops == {Opening(trip).exec} \cup { trace[b].close * SlipDen : b \in Bars(trip) }
                 D == { tp - TrailAtr * at * SlipDen : tp \in tops, at \in Atrs \ {0} }
      <4>1. RaisedStops(trip) = { z \in D : z > Opening(trip).stop }
        BY DEF RaisedStops
      <4>2. top \in tops
        BY <3>2
      <4> HIDE DEF tops
      <4>3. s \in D
        BY <3>1, <4>2
      <4> HIDE DEF D
      <4> QED
        BY <3>3, <4>1, <4>3
  <2>2. trace[n].low * SlipDen <= buy.stop => n \in StopTouches(trip)
    BY <1>4 DEF StopTouches
  <2>3. n = trip.exit
    BY DEF n
  <2> QED
    BY <1>4, <1>5, <1>6, <2>1, <2>2, <2>3
<1>10. Opening(trip).target # NoTarget =>
         \A b \in { c \in Bars(trip) : trace[c].ts < trip.exit } :
           trace[b].close * SlipDen < Opening(trip).target
  <2> SUFFICES ASSUME buy.target # NoTarget, NEW b \in Bars(trip), trace[b].ts < n
               PROVE  trace[b].close * SlipDen < buy.target
    BY <1>4 DEF n
  <2>1. b \in (trip.entry + 1)..n
    BY <1>4
  <2>2. b \in 1..Len(trace)
    BY <1>4, <2>1
  <2>3. b < n
    BY <1>1, <2>2
  <2>4. b \in (buy.ts + 1)..(n - 1)
    BY <1>4, <1>6, <2>1, <2>3
  <2> QED
    BY <1>5, <2>4 DEF BelowIn
<1> QED
  BY <1>7, <1>8, <1>9, <1>10 DEF trip

\* The ATR experiment's audit of touches explains every exit of every session of an
\* engine with one position: the engine's stops and targets are the ones of the rows.
THEOREM AuditIsExplained ==
  ASSUME MaxOpenPositions <= 1
  PROVE  JournalSpec => []AuditExplainsExits
<1>1. JournalInit => Journaled /\ Audited
  BY JournaledInit, AuditedInit
<1>2. Journaled /\ Audited /\ [JournalNext]_journalVars => (Journaled /\ Audited)'
  BY JournaledStep, AuditedStep
<1>3. Journaled /\ Audited => AuditExplainsExits
  BY AuditedHolds
<1> QED
  BY <1>1, <1>2, <1>3, PTL DEF JournalSpec
=============================================================================
