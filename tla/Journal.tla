------------------------------ MODULE Journal ------------------------------
(***************************************************************************)
(* A session of the paper engine and those who read its trace.  Runners    *)
(* (the paper runner, the lab's session runner, the ledgers of the         *)
(* research phases) feed one candle after the other to on_price and write  *)
(* an event for each.  From these events alone                             *)
(*   - the lab rebuilds round trips and metrics (walk_forward.py,          *)
(*     metrics.py, viability.py),                                          *)
(*   - the ATR experiment audits stops and targets of every trade,         *)
(*   - the certification rebuilds the whole account and compares it with a *)
(*     checkpoint of its own (accounting_reconciliation.py), which is what *)
(*     is to notice that someone changed the rows in between.              *)
(* Money is counted as in RiskRules; an execution price in 1/SlipDen.      *)
(***************************************************************************)
EXTENDS PaperEngine, SequencesExt

CONSTANTS
  Wicks,       \* how far the high and the low of a candle are from its close
  MaxTampers   \* bound: changes to stored rows

ASSUME JournalAssumption == Wicks \subseteq Nat /\ MaxTampers \in Nat

VARIABLES
  trace,       \* the events as the runner made them
  stored,      \* the events as the database has them
  raised,      \* on_price raised: the runner is gone
  checkpoint,  \* accounting_book: the mirror and its cursor last_event_ms
  verdict,     \* accounting_status of the last report, "" before it
  damage       \* history: what was done to the stored rows

readers == <<trace, stored, raised, checkpoint, verdict, damage>>
journalVars == <<vars, readers>>

-----------------------------------------------------------------------------
(* The runner: one candle, one call of on_price, one event.                *)

\* The event of the call just made.  An exit supersedes whatever signal the
\* strategy gave.
EventOf(signal, p, wick) ==
  LET exec == IF event'.action = "BUY" THEN BuyPrice(p) ELSE SellPrice(p)
      q == IF event'.action = "BUY" THEN quantity' - quantity ELSE quantity - quantity'
  IN [ts |-> lastTimestamp', signal |-> signal, action |-> event'.action,
      filled |-> event'.filled, reason |-> event'.reason, exec |-> exec,
      quantity |-> q, fee |-> q * exec * FeeNum,
      equity |-> cash' + quantity' * p * Money,
      close |-> p, high |-> p + wick, low |-> p - wick,
      stop |-> position'.stop, target |-> position'.target]

Run(p, a, wick, signal) ==
  /\ ~raised /\ lastTimestamp < MaxTimestamp
  /\ OnPrice(p, a, lastTimestamp + 1)
  /\ signal = event'.action \/ event'.reason \in ProtectiveReasons
  /\ raised' = (event'.reason = "ValueError")
  /\ IF raised' THEN UNCHANGED <<trace, stored>>
     ELSE /\ trace' = Append(trace, EventOf(signal, p, wick))
          /\ stored' = Append(stored, EventOf(signal, p, wick))
  /\ verdict' = ""
  /\ UNCHANGED <<checkpoint, damage>>

-----------------------------------------------------------------------------
(* Readers of the trace: round trips and metrics.                          *)

IsFill(e, act) == e.filled /\ e.action = act
NoEvent == [none |-> TRUE]

RoundTrip_forgets_entry_fee(buy, sell) ==
  LET q == Smaller(buy.quantity, sell.quantity)
      gross == (sell.exec - buy.exec) * q * FeeDen
  IN [entry |-> buy.ts, exit |-> sell.ts, gross |-> gross, fees |-> sell.fee,
      net |-> gross - sell.fee, reason |-> sell.reason]

RoundTrip(buy, sell) ==
  LET q == Smaller(buy.quantity, sell.quantity)
      gross == (sell.exec - buy.exec) * q * FeeDen
  IN [entry |-> buy.ts, exit |-> sell.ts, gross |-> gross,
      fees |-> buy.fee + sell.fee, net |-> gross - buy.fee - sell.fee,
      reason |-> sell.reason]

\* trades_from_trace: each filled BUY is paired with the next filled SELL.
Pair(acc, e) ==
  IF IsFill(e, "BUY") THEN [acc EXCEPT !.lot = e]
  ELSE IF IsFill(e, "SELL") /\ acc.lot # NoEvent
  THEN [lot |-> NoEvent, trips |-> Append(acc.trips, RoundTrip(acc.lot, e))]
  ELSE acc
Paired(events) == FoldLeft(Pair, [lot |-> NoEvent, trips |-> <<>>], events)
TradesFromTrace == Paired(trace).trips

\* compute_metrics, as far as the gates look at it.  A ratio is a pair; the
\* profit factor of a session without a losing trade is infinite.
TotalOf(field, trips) == SumOf([ i \in DOMAIN trips |-> trips[i][field] ])
NetOf(trips) == TotalOf("gross", trips) - TotalOf("fees", trips)
Infinite == <<1, 0>>
Undefined == <<0, 0>>
ProfitFactor(trips) ==
  LET profit == SumOf([ i \in DOMAIN trips |-> Larger(trips[i].net, 0) ])
      loss == SumOf([ i \in DOMAIN trips |-> Larger(-trips[i].net, 0) ])
  IN IF loss # 0 THEN <<profit, loss>>
     ELSE IF profit > 0 THEN Infinite ELSE Undefined
Expectancy(trips) ==
  IF trips = <<>> THEN Undefined
  ELSE <<TotalOf("net", trips), Len(trips)>>

\* AbsoluteViabilityEvidence.passed: every metric finite, defined and positive.
Viable(trips) ==
  /\ NetOf(trips) > 0
  /\ Expectancy(trips)[1] > 0
  /\ ProfitFactor(trips)[2] # 0 /\ ProfitFactor(trips)[1] > ProfitFactor(trips)[2]

\* execution_attribution: what became of the strategy's signals.
BuySignals == Cardinality({ i \in DOMAIN trace : trace[i].signal = "BUY" })
ExecutedBuys == Cardinality({ i \in DOMAIN trace : IsFill(trace[i], "BUY") })
RejectedBuys ==
  Cardinality({ i \in DOMAIN trace : ~trace[i].filled /\ trace[i].action = "BUY" })
SupersededBuys == BuySignals - ExecutedBuys - RejectedBuys

-----------------------------------------------------------------------------
(* The ATR experiment: for every trade the bars after the entry, up to the *)
(* exit, that touch the stop and the target it was opened with.            *)

Bars_before_exit(trip) ==
  { i \in DOMAIN trace : trace[i].ts \in (trip.entry + 1)..(trip.exit - 1) }
Bars(trip) == { i \in DOMAIN trace : trace[i].ts \in (trip.entry + 1)..trip.exit }
Opening(trip) == CHOOSE e \in ToSet(trace) : e.ts = trip.entry
TargetTouches(trip) ==
  LET target == Opening(trip).target IN
  { i \in Bars(trip) : target # NoTarget /\ trace[i].high * SlipDen >= target }
StopTouches(trip) ==
  { i \in Bars(trip) : trace[i].low * SlipDen <= Opening(trip).stop }

\* The stops update_trailing can have raised the one of the entry to.
RaisedStops(trip) ==
  LET tops == {Opening(trip).exec} \cup { trace[b].close * SlipDen : b \in Bars(trip) }
  IN  { s \in { top - TrailAtr * a * SlipDen : top \in tops, a \in Atrs \ {0} } :
          s > Opening(trip).stop }
Classified(trip) ==
  CASE trip.reason = "stop_loss" -> "INITIAL_OR_BELOW_ENTRY_STOP_EXIT"
    [] trip.reason = "trailing_stop" -> "PROFIT_TRAILING_EXIT"
    [] trip.reason = "take_profit" -> "TAKE_PROFIT_EXIT"
    [] trip.reason = "llm_sell" -> "STRATEGY_EXIT"

-----------------------------------------------------------------------------
(* The accounting mirror.  `paid` is average_entry times the position.     *)

MirrorStart == [cash |-> InitialCash, position |-> 0, paid |-> 0, entryFees |-> 0,
                realized |-> 0, fees |-> 0]

ApplyBuy(m, e) ==
  [m EXCEPT !.cash = @ - e.quantity * e.exec * FeeDen - e.fee,
            !.position = @ + e.quantity,
            !.paid = @ + e.quantity * e.exec * FeeDen,
            !.entryFees = @ + e.fee,
            !.fees = @ + e.fee]

ApplySell(m, e) ==
  LET sold == Smaller(e.quantity, m.position)
      paid == (m.paid * sold) \div m.position
      entryFees == (m.entryFees * sold) \div m.position
      exitFee == (e.fee * sold) \div e.quantity
      proceeds == sold * e.exec * FeeDen
  IN IF e.quantity <= 0 \/ m.position <= 0 THEN m
     ELSE [cash |-> m.cash + proceeds - exitFee, position |-> m.position - sold,
           paid |-> m.paid - paid, entryFees |-> m.entryFees - entryFees,
           realized |-> m.realized + proceeds - paid - entryFees - exitFee,
           fees |-> m.fees + exitFee]

Apply(m, e) ==
  IF IsFill(e, "BUY") /\ e.quantity > 0 THEN ApplyBuy(m, e)
  ELSE IF IsFill(e, "SELL") THEN ApplySell(m, e) ELSE m

\* The events after a cursor; none is at time 0.
Later_cursor_included(e, cursor) == e.ts >= cursor
Later(e, cursor) == e.ts > cursor
Advance(m, cursor, events) ==
  FoldLeft(LAMBDA acc, e : IF Later(e, cursor) THEN Apply(acc, e) ELSE acc, m, events)
FullReplay(events) == Advance(MirrorStart, 0, events)

\* Open positions are marked at the close of the last candle.
EquityOf(m) == m.cash + m.position * lastPrice * Money

NoCheckpoint == [mirror |-> MirrorStart, cursor |-> 0]

\* reconcile_with_book: all events, the checkpoint and the events after it, and
\* the equity of the last event must agree exactly.  The average entry is not
\* compared unless both positions are open, the entry fees never are.
Agree(full, incremental) ==
  /\ full.cash = incremental.cash /\ full.position = incremental.position
  /\ full.position > 0 => full.paid = incremental.paid
  /\ full.realized = incremental.realized /\ full.fees = incremental.fees
LiveAgrees(full) == stored # <<>> => Last(stored).equity = EquityOf(full)

Reconciled ==
  LET full == FullReplay(stored)
      incremental == Advance(checkpoint.mirror, checkpoint.cursor, stored)
  IN checkpoint.cursor = 0 \/ (Agree(full, incremental) /\ LiveAgrees(full))

\* A report: the checkpoint moves on only if the accounts agree.  The first one,
\* and one whose checkpoint has no cursor, takes the events as they are.
Report ==
  /\ verdict = "" /\ trace # <<>>
  /\ verdict' = IF Reconciled THEN "PASS" ELSE "FAIL"
  /\ checkpoint' =
       IF ~Reconciled THEN checkpoint
       ELSE [mirror |-> FullReplay(stored),
             cursor |-> IF stored = <<>> THEN 0 ELSE Last(stored).ts]
  /\ UNCHANGED <<vars, trace, stored, raised, damage>>

\* Somebody changes the rows of paper_trade_events: one is deleted, or a fill has
\* another quantity.
Touches(i) ==
  IF ~stored[i].filled THEN "no fill" ELSE IF checkpoint.cursor = 0 THEN "unanchored"
  ELSE IF stored[i].ts <= checkpoint.cursor THEN "audited" ELSE "fresh"
Tamper ==
  /\ damage = "" /\ MaxTampers > 0
  /\ \E i \in DOMAIN stored :
       /\ damage' = Touches(i)
       /\ \/ stored' = RemoveAt(stored, i)
          \/ /\ stored[i].filled
             /\ stored' = [stored EXCEPT ![i].quantity = @ + 1]
  /\ verdict' = ""
  /\ UNCHANGED <<vars, trace, raised, checkpoint>>

-----------------------------------------------------------------------------

JournalInit ==
  /\ Init
  /\ trace = <<>> /\ stored = <<>> /\ raised = FALSE
  /\ checkpoint = NoCheckpoint /\ verdict = "" /\ damage = ""

JournalNext ==
  \/ \E p \in Prices, a \in Atrs, wick \in Wicks, signal \in Action :
       Run(p, a, wick, signal)
  \/ Report
  \/ Tamper

JournalSpec == JournalInit /\ [][JournalNext]_journalVars

-----------------------------------------------------------------------------
(* Properties.                                                             *)

\* Three readers rebuild from the events what the portfolio did: the lab's round
\* trips are its trades with their net PnL, a flat session ends with the initial
\* equity plus their total (equity_final of the lab's metrics), and a BUY signal
\* that was neither executed nor rejected lost to an exit of the same candle.
TripsAreTrades ==
  LET trips == TradesFromTrace IN
  /\ Len(trips) = Len(trades)
  /\ \A i \in DOMAIN trips : trips[i].net = trades[i].pnl
  /\ quantity = 0 /\ trace # <<>> => Last(trace).equity = InitialCash + NetOf(trips)
  /\ SupersededBuys =
       Cardinality({ i \in DOMAIN trace :
                       trace[i].signal = "BUY" /\ trace[i].reason \in ProtectiveReasons })

\* The viability gate asks for three metrics, but they say one thing: a session
\* is viable if and only if it made money and at least one trade lost, because
\* a profit factor without losses is infinite and fails closed.
ViabilityNeedsALoss ==
  LET trips == TradesFromTrace IN
  Viable(trips) <=> NetOf(trips) > 0 /\ \E i \in DOMAIN trips : trips[i].net < 0

\* What the lab evaluates is what the portfolio did.
EvaluationIsOfTrades == TripsAreTrades /\ ViabilityNeedsALoss

\* The audit of touches explains the engine's exits: a take profit touched its
\* target; a trade that left below its entry by a stop touched the stop it was
\* opened with, or closed at one that a price since the entry had pulled up; and no
\* bar before the exit closed at the target.
AuditExplainsExits ==
  \A i \in DOMAIN TradesFromTrace :
    LET trip == TradesFromTrace[i]
        before == { b \in Bars(trip) : trace[b].ts < trip.exit }
        target == Opening(trip).target
    IN /\ Classified(trip) = "TAKE_PROFIT_EXIT" => TargetTouches(trip) # {}
       /\ Classified(trip) = "INITIAL_OR_BELOW_ENTRY_STOP_EXIT" =>
            \/ StopTouches(trip) # {}
            \/ \E b \in Bars(trip), s \in RaisedStops(trip) :
                 trace[b].ts = trip.exit /\ trace[b].close * SlipDen <= s
       /\ target # NoTarget => \A b \in before : trace[b].close * SlipDen < target

\* Untouched rows always reconcile, at whatever candles reports are written, and
\* the mirror is the engine's portfolio in every component.
UntouchedPasses ==
  damage = "" =>
    LET m == FullReplay(stored) IN
    /\ verdict # "FAIL"
    /\ m.cash = cash /\ m.position = quantity /\ m.realized = realizedPnl
    /\ m.paid + m.entryFees = basis

\* A fill that a checkpoint covers cannot be deleted or altered any more without
\* every later report failing, whatever is traded afterwards.
AuditedFillsAreSealed == damage = "audited" => verdict # "PASS"

\* The verdict of a reconciliation: PASS on what nobody touched, and never again
\* once an audited fill was.
VerdictTellsDamage == UntouchedPasses /\ AuditedFillsAreSealed
=============================================================================
