# Verification of the Self-Evaluating Trading Agent

TLA+ models of the paper-trading runtime, its data pipeline and the research tools around it, the
TLC runs that check them on small instances, and TLAPS proofs of what matters most. Product code
is `src/src/` (Python, hexagonal: `domain`, `application`, `infrastructure`, `interfaces`, `lab`);
the evaluation scripts of the research phases are in `src/harness/scripts` and `src/docs/phases`.
`PROJECT.json` is the index: components, runs, the source lines of every definition, the mutants
that show each property can fail, hazards, findings and theorems.

## 1. The system

| part | state it keeps | operations | talks to |
|---|---|---|---|
| **Paper engine, risk, portfolio** (`paper_engine.py`, `domain/risk`, `domain/portfolio`) | cash, quantity, average entry, realised PnL; one position with stop, target, highest price; peak equity; PnL of the UTC day; kill switch; counters | `on_price` (exits, verdict, fill, mark), kill-switch activate/reset | called by the paper runner, once per closed candle |
| **Paper session** (`paper_runner.py` service and CLI, `recovery.py`, `backfill.py`, `connection_supervisor.py`, repositories) | database rows (`market_candles`, `paper_trade_events`, `system_state`), one open transaction, the runner's in-memory history, the stream | restore by replay, backfill, subscribe, receive, commit, reconnect, report | Bybit REST and WebSocket, Postgres, the engine |
| **Certification** (`certification_snapshot.py`, runner CLI) | `certification-state.json`: phase, anchor, frozen and current identity, accounting checkpoint with cursor, heartbeats | operator START, periodic rewrite, invalidate, archive | written by the runner's report, edited by the operator |
| **Accounting reconciliation and the other readers of a session's events** (`accounting_reconciliation.py`, `lab/walk_forward.py`, `metrics.py`, `viability.py`, phase 22's exit audit) | the events; a checkpoint of the mirrored account | rebuild the account, compare three ways, rebuild round trips, audit exits | certification, lab |
| **Market worker** (`market_data_service.py`, `orderbook.py`, `market_worker.py`, `bybit/ws.py`) | a book per symbol, one health flag, the transaction of candles and features | snapshot, delta, gap and re-subscribe, kline, feature window, reconnect | Bybit WebSocket, Postgres |
| **Medallion layers and refresh** (`infrastructure/medallion`) | files, `.part` files and manifests of three layers, the refresh status file | `plan_refresh`/`run_refresh`, `download_day`, two `transform_day`, command lines | Bybit's archive, a daily timer, an operator |
| **Medallion gold** (`gold.py`, `m9b_common_window.py`) | content-addressed datasets; ledger, trades and summary of runs | create, validate, read, write outputs | the two silver layers |
| **Medallion replay** (`replay.py`) | one position, account, pending decisions and exit, two clocks | a trade: confirm candles, decide, exit, enter, evaluate risk | gold, risk rules |
| **Lab** (`lab/`, evaluation scripts) | registry of specs and runs, reports, promotion file | register, evaluate, compare, gate, promote | the frozen dataset, git, files |
| **Strategies and regimes** (`domain/trading`, `domain/indicators`, `lab/strategies`, `regime_confirmation.py`) | trackers, confirmation streak | `on_candle` | runner, replay, lab |
| **LLM agent, memory and reflection** (`domain/llm`, `deepseek.py`, `memory_writer.py`, `memory_retriever.py`, `memory_comparison.py`) | budget, `memory_items` | decide with retries and fall back, reflect, retrieve, compare | DeepSeek, Postgres |
| **Orders** (`trade_client.py`, `domain/trading/orders`, `reconciliation.py`) | tracked orders | create, cancel, retry, list, reconcile | Bybit demo account |
| Schema backfill; approvals and audit; historical data; API, settings, observability | mostly none | one-off migration, registries, REST paging, read-only views | |

### Where it is hard

* **Crashes.** The engine and the runner's history move in memory before their candle and event
  are committed; a restart rebuilds both by replaying the database and refuses to go on when
  replay differs from what is stored. The registry, the gold outputs and the refresh have their
  own half-written states.
* **Handoff.** Backfill over REST, subscription and a second backfill overlap with a stream that
  may start late, break, or repeat a candle.
* **Unreliable streams and answers.** Book deltas may be lost, repeated or overtaken by a snapshot;
  a timed-out order may have been accepted.
* **Files.** Manifests, refresh status, certification and promotion files are read, changed and
  written back, by processes that may be killed between two writes, or that hold an old copy.
* **Guards.** Kill switch, drawdown and daily loss decide together with exits, trailing and
  sizing, in an order that is easy to break; the replay repeats it on a second clock.
* **Time.** A decision may use only what was known before it: frozen splits, causal series,
  trades of the same millisecond, memories of trades that had ended.
* **Two implementations of one thing.** Trackers and series, the portfolio and its mirror, the
  engine's events and those who rebuild trades from them.

Each hazard with its line is in `PROJECT.json`, with the properties that are about it.

## 2. Modules

```
RiskRules <- PaperEngine  <- Journal, MCPaperEngine                LongOnlyAccount <-- implemented by PaperEngine, Replay
          <- Replay       <- ReplayProofs, MCReplay                DecisionJournal <-- implemented by PaperSession
PaperEngine <- Journal    <- PaperEngineProofs, MCJournal
PaperSession              <- PaperSessionProofs, MCPaperSession
Certification             <- CertificationProofs, MCCertification
MarketData                <- MarketDataProofs, MCMarketData
Medallion                 <- MedallionProofs, MCMedallion
Files <- Lab, Promotion, Gold          <- ResearchProofs  \
Indicators <- Strategies; Agent; Orders <- ServicesProofs  >- MCServices
```

`<-` reads "extended by". Modules of components that share state are composed (Journal runs the
whole engine and its readers together); the others are separate because the code couples them by
narrow facts. PaperSession represents an event by what the engine's result depends on (the candles
before it and the kill switch), which is all that replay needs from PaperEngine. Certification
takes from PaperSession that candles are processed in order and that a journal that does not
replay stops the runner; what its one-sum ledger stands for is Journal. Gold says which files a
replay reads, Replay what it does with them. Lab names a session by what decides it; what a
session of the engine yields is Journal.

### RiskRules, PaperEngine

RiskRules is the arithmetic engine and replay share: fills, guards, sizing, exit levels. In
PaperEngine one action, `OnPrice`, is the whole of `PaperEngine.on_price`: day roll-over,
protective exits, trailing, verdict of `RiskEngine.evaluate`, position sizing, the buy that may
raise halfway, the exit, `mark_to_market`. `Activate` and `Reset` are the kill switch. The
strategy's decision and intensity are any.

Abstractions: floats are exact integers (money in units in which slippage and fees do not round);
quantities are whole lots, so sizes below a lot are the rejection `zero_size`; percentages are per
mille. A floating-point rounding error is outside the model. The hard-coded 1.001 with which the
code cuts a buy to the available cash is kept.

`LongOnlyAccount` is what a portfolio promises: deposit, pay for an opening from flat, sell all
of it. `ImplementsLongOnlyAccount` is the refinement; `ReplayIsLongOnlyAccount` is that of the
other engine.

### Journal

Extends PaperEngine: a runner feeds candles to `OnPrice` and writes one event each, and those who
read the events are operators over them: `TradesFromTrace` and the metrics and viability verdict
of a trade list, execution attribution, the audit of touched stops and targets, and the account
that `accounting_reconciliation` rebuilds: `Apply` is the mirror's step for one event, `Advance`
takes the steps of the events that are `Later` than a cursor, `FullReplay` those of all. `Report` is
the three-way comparison with checkpoint and cursor, `Tamper` a row deleted or changed in between.

The audit compares the bars with the stop of the entry, the engine exits at the trailed one. That a
stop loss which touched no initial stop left at a stop pulled up since is stated with
`RaisedStops`: the stops that `update_trailing` can reach from the closes since the entry, the exit
bar's included. It is not enough to look at the rows before the exit, because the trailing stop may
pass the price on the very bar that then sells.

### PaperSession

Environment: `CandleCloses`, `ServeSubscription`, `Disconnect`, `SetKillSwitch`. Process:
`Restore` (`restore_runner`), `FirstBackfill`, `Subscribe`, `SecondBackfill`
(`recover_and_handoff`), `Receive`, `Commit`, `ReceiveFails`, `Reconnect`, `Report` (`_run_loop`)
and `Crash` at any point. The open transaction is a variable of its own: its rows are visible to
the session's own queries and vanish with the process. `DecisionJournal` is the append-only,
replayable journal the database must be.

Left out: a second symbol (the runner restores and backfills only the first), certification file.

### Certification

`Launch` is the start of the CLI with or without `--start-certification`, on the old session or a
fresh one, with any build. `BeginReport`/`FinishReport` split the periodic write where the code
awaits: what `FinishReport` writes is computed from what `BeginReport` read. `Invalidate`,
`Archive` and `Tamper` are an operator's and an outsider's hands. The ledger that the code mirrors
component by component is one sum here (`LedgerOf`, over the events of some times: `Ledger` of all,
`LedgerAfter` a cursor); a checkpoint is that sum and a cursor; the ten identity
keys are one build number.

Left out because each is a function of a single write: critical errors, report names, safeguard
drills, market gaps, counters; also an unreadable file or checkpoint, and a missing mark.

### MarketData

One connection after the other, a `MarketDataService` each: `Connect`, `HandleSnapshot`,
`HandleDelta`, `HandleGap`, `HandleKline`, and `LoopEnds` (health, feature window, commit). The
exchange changes its true books and may lose a delta, send it twice or let a snapshot overtake.
No clock: the receive timeout may expire whenever nothing is there, a feature window end at any
event. Sizes are abstracted to levels that are there or not.

### Medallion

Three layers with the steps of one operation apart (begin, build the `.part`, write the manifest,
rename), and the refresh around them (plan from manifests and status, run, record, resume). The
content of a file is the version of the published file it comes from. Reading one file is atomic;
so is replacing the manifest. The capacity guard is a nondeterministic outcome. What aggregation
computes and the schema backfill are left out.

### Gold

`create_dataset` step by step (hash the trade files, check the candles' lineage, publish under the
hash of all it refers to), then a reader (the replay's CLI or the common-window runner): validate,
read candles and trades again, write the ledger, or trades and summary. A hash is its preimage, a
silver file the version it was made from. `SilverChanges` rebuilds, damages and moves silver files;
`Kill` ends builder or reader at any step.

### Replay

One step per phase of `_Engine.run` for a trade of the tape: confirm the candles that ended before
it, ask the strategy, fill a pending exit, drain decisions, evaluate stop, target, trailing and
mark. At the end of the tape the last candle is confirmed, decisions without a trade are counted,
and a pending exit or an open position is closed. Both sizing modes, with the risk engine's
verdicts in the second. Candles are built from the tape, as silver does. The scenario's PnL
adjustments are left out.

### Lab, Promotion

Lab: an evaluation process of one of four phases (opening the splits, registering specs, running
both sessions twice, registering runs, drift checks, classification and gate, report and markdown)
with `Checkout`, `Killed` between and inside its writes, the conflict rules of the registry, and
the readers of development, walk-forward and holdout rows with their authorizations. The drift
check compares the baseline's metrics at the commit with the anchor's; any function of the commit
may stand for them (`BaselineMetrics`). Code has the three parts the identities distinguish: a
strategy's listed sources, the kernel bundle, and what neither lists. Promotion: the file with its
seal, any number of holders of `Promotion` objects, each stepping from whatever copy it has, and an
outsider who edits the file.

### Indicators, Strategies

Series over a whole sequence (`Ema`, `Rsi`, `Atr`, `Adx`, Bollinger, Donchian) as recursive
functions, and the trackers that compute them candle by candle. `OnCandle` is the baseline with its
trackers and BTC filters, the two channel strategies over preloaded series, and the regime
confirmation. Integers round down, in series and tracker alike.

### Agent, Orders

Agent: `PersistReflection`, `Retrieve`, and a comparison's two questions (`CallModel`,
`Answered`, `RetryModel`, the three ways to hold) split at every await, so that comparisons sharing an agent interleave. Orders: `Post`,
retries and giving up, an exchange that accepts, trades, cancels and answers late or never,
listings, tracked orders and their reconciliation. Nothing in `src/` calls the trade client yet,
so its caller is any; that the exchange refuses an `orderLinkId` it has seen is taken from the
client's use of it.

## 3. Runs

The longest run takes about two minutes with two workers.

| run | question | result |
|---|---|---|
| `MCPaperEngine` | default rules (one position, stop required), three prices, three ATRs, two UTC days, 5 calls | 7 properties hold |
| `MCJournal` | all capital in one position at a fee of 2% (above the hard-coded 0.1%), 4 candles with wicks, one change of the stored rows between reports | cash never negative though `on_price` raises; readers of the events agree with the engine; damage is noticed |
| `MCPaperSession` | everything the environment may do, 4 candles, 2 crashes | the database stays a replayable journal |
| `MCPaperSessionHandoff` | connection never breaks, subscription served at once | no candle skipped, restarts reproduce, all persisted in the end |
| `MCPaperSessionOverlap` | two candles close between subscribe and second backfill | **violated**: finding 1 |
| `MCCertification` | 3 candles, 2 builds, 2 sessions, one crash, tampering; the operator archives before a new START and edits while no report is written | anchor, evidence, checkpoint, audit hold |
| `MCMarketData` | two books, one delta lost, one twice, one disconnect | books are real; gaps heal |
| `MCMarketDataHealth` | health after a gap | **violated**: finding 2 |
| `MCMedallion` | one kill or write error, then a resumed refresh, an operator, a revision, a range that runs into the frozen splits | files, manifests, lineage and status agree; frozen days untouched; a refresh that reports OK lacks the candles of at most one day per interruption |
| `MCMedallionResume` | two failures, nothing killed | every day is complete in the end |
| `MCReplay` | every tape of 5 trades (gaps 0, 1, 2 ms), candles of 2 ms, both sizing modes | exits follow triggers, no look-ahead, a long-only account |
| `MCServices` | lab, promotion, gold, strategies, agent and orders, one after the other | 11 properties hold |

`MCServices` puts the six smaller tools into one instance. They share no state in the code (files
of their own, processes of their own), so that a product of their states would show nothing; the
tool is chosen in the first state and the others rest.

Why the bounds are enough. A violation needs few steps of few actors: each property is broken
by a mutant of the code under the run's own bounds.

* Engine: five calls are enough for open, trail, exit, re-open and a second exit over a day's end.
* Journal: four candles give two round trips or one with a trailing stop in between; a change may
  fall before the first report, below a cursor or above it.
* Session: four candles give one before, one in and two after a handoff, two crashes a crash of a
  recovery.
* Market: one lost and one repeated delta on three updates give every order of gap, snapshot and
  stale delta for a book, the second book shares flag and transaction.
* Medallion: two days and two timeframes are the least where a day may be half there. With one
  interruption the bound of `OkMeansCompleteButTorn` is reached (a refresh killed among a day's
  candle files, the next one OK with the day torn), and a second torn day would break it.
* Certification: two events are one below and one above a cursor.
* Replay: five trades hold a signal, its fill, the candle after it, a trigger and the exit, two
  of them in one millisecond or one candle.
* Lab: two evaluations (one interrupted, one that finds its files), three commits, one of which
  changes the kernel bundle and the baseline's metrics (a drift) and one only what no identity
  lists, metrics unchanged; five rows are two of
  development, two of walk-forward and one of holdout. Promotion: two holders, one of them behind,
  histories one longer than the three accepted entries, one edit by hand.
* Gold: two days, two versions, two changes (one undone, or one of each layer).
* Strategies: six pairs of candles of three shapes pass every warm-up and leave a crossing, a
  channel break, an exit and a confirmation streak after it.
* Agent: two comparisons at the limit, two trades, three moments (before both ends, between,
  after). Orders: one request with two attempts of each kind; requests have nothing in common but
  the exchange, and the proof is for any number of them.

Not assumed away but outside a run's environment, and what then happens:

* `KillToggles = TRUE` in the handoff: replay uses today's switch for the past (`recovery.py:37`),
  and a restart after a change raises `RecoveryDivergenceError`.
* `LateAck` or `Disconnects` in the handoff: candles are skipped for good, because nothing waits
  for the acknowledgement and a reconnect never backfills.
* `QuietEdits = FALSE`: an `INVALIDATED` written while a report awaits is lost, an archived
  certification comes back, five and six steps deep.
* `ArchiveFirst = FALSE`: a START over an invalidated or never started file keeps heartbeats,
  checkpoint and session id of what was before, so old days count as evidence and the accounting
  fails for good, although the runner's warning invites exactly this ("reactivate with
  --start-certification").
* `OneAtATime = FALSE`: two processes read-modify-write `manifest.json` without a lock and lose an
  entry.
* `MaxInterrupts = 1` in `MCMedallionResume`: a kill between manifest and rename (`bronze.py:397`)
  leaves an entry whose day `plan_refresh` takes for complete and never builds again. The layer
  above it then fails at every refresh (`FAILED_PARTIAL`) until an operator rebuilds the day, so
  that `EveryDayRefreshed` does not hold.
* `QuietSilver = FALSE`: files that change between validation and reading are replayed under the
  old dataset's name.
* `MaxOpenPositions > 1`: a second buy overwrites the stop of the first one's lots.

Seen in the runs and allowed by the properties, because no document promises otherwise or because
the promise is not about it:

* A kill or a write error among a day's candle files (`candles.py:442` records one timeframe at a
  time) leaves the day torn. `plan_refresh` takes one timeframe for the whole day
  (`refresh.py:224`), so that the next refresh reports OK or OK_NOOP and no later one finishes it.
  The design promises only that completed days stay and that the next run takes up the rest
  (`docs/design/phase-24-medallion-refresh-automation.md:138`). `OkMeansCompleteButTorn` says how
  much can be lost: one day's candles per interruption, and nothing of Bronze or Silver.
* The first report has no checkpoint: when the last BUY and its candle's event are deleted before
  it, full and incremental account lack it both and agree.
* A kernel change that the bundle does not list (`domain.time.day`, `lab.session_runner`) leaves
  experiment ids as they are; a rerun at another commit then conflicts with the registered run and
  ends as an error, never as wrong evidence.
* A promotion's history may get shorter when a holder that was overtaken writes its copy; every
  entry that is left was earned.
* A caller may see an error for an order that lives (a 5xx after acceptance, then a refused
  duplicate).

### Fairness

* Session: weak fairness of the process's own steps (`restart: unless-stopped`,
  `compose.yaml`), of the exchange serving a subscription and of candles closing with the clock.
  Crashes are bounded, never forced.
* Certification: weak fairness of restart and of beginning a report; strong fairness of finishing
  one, since a failed report is tried again at the next turn of the loop and a database does not
  fail for ever.
* Market data: weak fairness of the loop and of the exchange serving subscriptions.
* Medallion: weak fairness of the refresh and of its timer (daily, `Persistent`, with
  `Restart=on-failure`) and of the days passing.

The other modules state safety only: a killed evaluation, build or order call is repeated by a
human, or not at all.

### Findings

1. `paper_runner.py:411` — the overlap of backfill and stream is said to be harmless
   (`recovery.py:73-74`), but an older candle raises `OutOfOrderTimestampError` and ends the process.
2. `market_data_service.py:152` — a gap's STALE is overwritten with HEALTHY in the same loop turn.

Their exact quotations are in `PROJECT.json`.

## 4. Proofs

Every theorem is about the specification of a module, for every value of its constants that the
module's named assumption allows: any number of candles, days, symbols, holders, commits, crashes
or attempts where the runs have two or three. What a theorem assumes beyond that is a hypothesis
of its own, and each is a bound the code itself does not keep (section 3 says what happens
outside).

| module | theorem | states | hypothesis |
|---|---|---|---|
| `PaperEngineProofs` | `TypeCorrect`, `BooksAlwaysBalance`, `CashStaysNonNegative` | `TypeOK`, `BooksBalance`, `CashNeverNegative` | |
| | `NothingUnmanaged`, `LossIsBounded`, `PeakAlwaysDominates`, `HaltStaysFinal`, `EngineImplementsAccount` | `NoUnmanagedExposure`, `LossBounded`, `PeakDominates`, `HaltIsFinal`, `ImplementsLongOnlyAccount` | at most one position |
| | `EngineStateStays`, `StepsStaySafe` | `EngineStateHolds`, `StepsAreSafe` | at most one position |
| | `JournalRunsTheEngine` | a session with its readers is a behaviour of the engine | |
| | `EvaluationIsHonest`, `AuditIsExplained` | `EvaluationIsOfTrades`, `AuditExplainsExits` | at most one position |
| | `VerdictsTell` | `VerdictTellsDamage` | at most one position, `FeeNum > 0` |
| `PaperSessionProofs` | `RunnerIsReplayable`, `EvidenceStartsWithSession`, `SessionKeepsJournal` | `SessionIsReplayable`, `NoEvidenceBeforeStart`, `ImplementsDecisionJournal` | |
| | `SessionSurvivesRestarts` | `RestartIsSeamless` | `~LateAck`, `~Disconnects`, `~KillToggles` |
| `CertificationProofs` | `AnchorStaysTheStart`, `InvalidatedStays` | `AnchorIsTheStart`, `InvalidatedUntilStart` | `QuietEdits` |
| | `EvidenceStaysOwn` | `EvidenceIsItsOwn` | `QuietEdits`, `ArchiveFirst` |
| `MarketDataProofs` | `BooksStayReal` | `BooksAreReal` | |
| `MedallionProofs` | `FrozenUntouched` | `FrozenSplitsUntouched` | |
| | `LayersStayTrue` | `LayersAgree` | `OneAtATime` |
| | `OkIsCompleteButTorn` | `OkMeansCompleteButTorn` | `OneAtATime` |
| `ReplayProofs` | `ExitsFollowFirstTrigger`, `EntriesTakeFirstEligibleTrade` | `ExitsFollowTriggers`, `FirstEligibleTrade` | |
| | `SizedReplayIsLongOnlyAccount` | `ReplayIsLongOnlyAccount` | `Room`, sized entries |
| `ServicesProofs` | `KnowledgeIsOfThePast`, `OverspentByOneAnswerEach` | `NoLeakage`, `SpendingBounded` | for the second a dearest answer, finitely many comparisons |
| | `OneOrderPerRequest` | `OrderedOnce` | |
| | `NothingLooksAhead`, `TrackersFollowSeries`, `ScriptsCountDecisions`, `ConfirmationMeansStreak` | `NoLookAhead`, `TrackersAreSeries`, `DiagnosticsAgree`, `ConfirmedMeansStreak` | |
| `ResearchProofs` | `OnlyEarnedPromotions`, `EvidenceStaysBacked`, `SplitsStayKept` | `PromotionsAreEarned`, `EvidenceIsBacked`, `SplitsAreKept` | |
| | `DatasetsJoinTheirOwn` | a half of `OutputsAreOfTheirDataset` | |
| | `OutputsStayOfTheirDataset` | `OutputsAreOfTheirDataset` | `QuietSilver` |

### The engine

The inductive invariant is `Sound == TypeOK /\ Covered /\ peak >= InitialCash`. Types alone are
not inductive: that a sale cannot exceed what is held needs `Covered` (the position never manages
more than the portfolio holds), and the drawdown argument needs a peak that never falls under the
deposit. Lemmas about quotients and products, fills, sizing and funding come first; then one lemma
per phase of `OnPrice` (marking, trailing, closing, waiting, buying), combined in `SoundStep`. The
later theorems strengthen `Sound` with one conjunct each and reuse the same case split
(`StepCases`).

What holds between two candles is `Between == BracketHolds /\ DaysPassed /\ PnlMatchesTrades`. The
PnL of the day and of the session are sums over trades. `SumOf` is shown to be its partial sums,
and two sums to be equal, by the least place where they are not. `DaysPassed` is the part that is
easy to miss: trades carry days that are over or today, so the day that a roll-over begins has no
trades yet and its PnL really is 0. `StepsAreSafe` is proved action by action from the same
invariant. The assumption of one position is needed: with two the model violates the properties.

### The journal

Everything the readers compute is a fold, and the library's folds choose the elements of a set of
places. `PairedTrail` and `AdvanceTrail` first turn a fold into a trail: a function on 0..n whose
value at k is one step away from its value at k - 1. Such a table exists and is unique because
there is no least k without one. `PairedAppend` and `AdvanceAppend` follow: one event more is one
step more. `RunCases` then says what one call of the runner can write: an idle row, the sale of
the whole position, a purchase from flat, or nothing at all and the end (`ValueError`).

* `VerdictsTell`. `Journaled` holds the rows: the n-th has time n, and the mirror of all of them
  shows the portfolio (`Shows`: cash, position, realised PnL, and paid plus entry fees are the
  basis). `Anchored` holds the checkpoint of rows nobody touched: it is the mirror up to its cursor,
  so that going on from it and starting over agree. `Sealed` is about touched rows under the
  cursor, and its induction is about two replays, of the rows as they are and as they were made.
  `Gap` is what keeps them apart: the damaged one has lots too many, or it has paid less in fees and
  has no lots or the right ones. A deleted sale or an enlarged purchase opens the first, a deleted
  purchase or an enlarged sale the second; every later fill that the true account can make
  (`Fits`) leads from a gap to a gap, and neither kind reconciles. This is where `FeeNum > 0`
  enters: without fees, the deleted purchase of a round trip at no profit (whose sale then finds
  nothing to sell) leaves no trace in cash, realised PnL or position, and the reconciliation would
  pass.
* `EvaluationIsHonest`. `Evaluated` joins the open lot with the position (`LotIsPosition`: its cost
  and fee are the basis) and each completed trip with its trade. What is in the books is the total
  of the trips. The attribution of signals is counting: a row's signal was executed, rejected, or
  superseded by an exit (`Told`). The viability gate follows from sums (`TotalsViable`).
* `AuditIsExplained`. `Audited` follows the open position from its lot: target as in its row, highest
  price one of the closes since, stop the lot's or one raised from such a price (`Following`). A
  sale completes a trip that these rows explain (`Explained`), and later rows change nothing about
  it (`ExplainedStays`).

### The session

`SessionInv` is `TypeOK`, `CandlesOrdered` (what the runner remembers, the open transaction and the
committed rows are one increasing sequence), `EventsOfCandles` (one event per candle, computed from
exactly the candles before it), `AfterStart`, `Phases` (what is known at each point of start-up)
and `ReportedIsRecoverable`. Restore, both backfills and the stream end in one lemma about
processing candles one after the other; that an ordered listing of a set is unique is proved by
counting. The refinement of `DecisionJournal` needs nothing more: only a commit changes the
committed events, and it appends.

`SeamlessInv` adds `NoSkippedCandle`, `KillsOff` and `StreamContinues` (what the stream will deliver
follows the newest candle without a gap). Each of the three hypotheses is one of the code's known
gaps; with them, no restart diverges however often the process crashes.

### Certification

`AnchorStaysTheStart` and `InvalidatedStays` rest on `Anchored`, which adds to the property that
what a report read is still the file when it writes (`ReadIsFresh`). This is exactly what the await
breaks when somebody edits the file meanwhile.

`EvidenceStaysOwn` adds `Evident`: the written events are in the order of their times and each
carries the ledger up to it as its equity; the stored ones were written; a file nobody reported to
is blank; all that is counted lies after the START; and the book is honest. The step that matters is
a report after tampering. It passes only if the last stored event carries the sum of the stored
ones, and that event was written, so the sum is that of all events written up to it, whatever
is missing in between. `ArchiveFirst` is needed because a START over an old v2 file keeps its days
and its book.

### Market data, Medallion

`MarketInv` says of every message in flight that it tells the truth about some version of the
exchange's book (`queue \in Seq(Delivered)`) and of a book that nothing is missing between the
snapshot and the sequence number it claims. Losing, repeating and overtaking messages only removes
or reorders true messages, so truth survives it and only the sequence check has to be argued.

Medallion has three invariants, one for each theorem. `Typed /\ FrozenApart`: also what a step holds
in hand has no entry of a frozen day. `LayersInv` adds `Alone` (the operator waits for the refresh)
and, for every worker, `Proceeds`: at each of its steps it knows the manifests as they are, which of
its outputs are there and what its input is.

`OkInv` allows any number of kills and write errors. It adds `Cascade`: a layer's day is in a
manifest only where the layer below is complete, so that a stranded Bronze or Silver entry makes
the layer above fail and never lets a refresh end with OK. `TornByInterrupts` counts: the torn days
other than the one under work are at most as many as the interruptions. `PlanReaches` says that a
running refresh has each day's candles in its plan, or some of them are there already. When the plan is
empty, every day has begun candles, so by `Cascade` a complete Silver and Bronze, and what lacks is
what `TornByInterrupts` has counted.

### Replay

`ReplayInv` follows the two clocks: the trade at hand is on the tape, decisions are younger than the
trade before (`DecisionsFresh`), a position is older than its exit, a pending exit was triggered by
the trade just before. From these the two errors that the code raises for a pending exit without a
position cannot be raised. `Books` is the balance of the account. The refinement of
`LongOnlyAccount` needs `Room`: size is computed at the decision's price and paid at the fill's, and
nothing in the code stops the price from jumping by more than the allocation leaves. The mode with
a fixed size has no check of the cash at all, so its refinement holds only for the run's prices and
is model-checked.

### Lab, promotion, gold

`EvaluationBacked` and `ReportBacked` use that files are only ever added to (`FilesStay`): what an
evaluation still holds, or has left to write, agrees with what is registered. `ServedAsGuarded`
keeps for every row served the authorization it was served under; that the windows of a split
partition it is proved for every number of windows by the least row that is in none or in two.
`HistoriesEarned` covers held objects and the sealed file alike: an outsider's edit breaks the
seal, so that only earned histories are loaded. `DatasetsJoined` holds whatever happens to silver,
`OutputsKnown` when silver is left alone between validation and reading.

### Agent, orders

`NoLeakage` is about trades' ends, while the code compares closing times, so `MemoriesKnown` joins
the writer's guard (a closing time is not before the trade's end) with the retriever's (a closing
time is before the state asked about), and carries both through every await of a comparison.
`SpendingInv` counts what is spent together with what every awaited answer may still cost: a
comparison that asks has checked the limit, so the limit is passed by less than one answer each.

`OrdersInv` has four parts: everything on its way or at the exchange carries the link of its request
(`LinksKept`), so that a duplicate can be told (`OnePerRequest`); what was listed or tracked as
closed is closed (`ClosedStays`), however late a listing is used; a consistent report agrees with
the book it was made of (`ReportTrue`). The assumption about the exchange is the guard of `Accept`.

### Strategies

A series is a recursive function, of which nothing is known until it is shown to exist. `EmaExists`
and `WilderExists` build it entry by entry (there is no least length without one), which gives the
equations of `Ema` and `Wilder`. From these, `Prefix` does the rest: a series of the beginning of a
data set is the beginning of its series (`EmaCausal`, `WilderCausal`, `AdxCausal`, `BandCausal`), so
every decision is (`DecisionsCausal`), and `NothingLooksAhead` follows. `ScriptsCountDecisions` is a
corollary: what was decided as a candle came is what the whole data set says of it.

`TrackersFollowSeries` joins a tracker's two lives: while it collects its seed the buffer is the
data set itself (for Wilder's trackers all but the first entry), afterwards its value is the last of
the series. They meet in the first mean, a sum over places 1 to p here and 2 to p+1 there; the
library's sum takes the elements of a set in an arbitrary order, so `SumsOfRest` shows that the
order does not matter. Prices must be natural numbers, because both mark the warm-up with None.
`ConfirmationMeansStreak` needs to know since when the pending regime has held (`Tracks`); that only
one streak reaches the end (`OneLastStreak`) makes the tracker's count and the set that the property
counts grow together.

### Only model-checked

* All liveness (`EveryCandlePersisted`, `EveryDayRefreshed`, `GapHeals`, `EventsAudited`): fairness
  and `ENABLED` are outside the prover's reach.
* The replay with a fixed size as a long-only account, for the reason above.

## 5. Not modelled, and the plan

* **Schema backfill**: a one-off migration of manifest metadata.
* **Approvals and audit**: two in-memory registries nothing in `src/` calls.
* **Historical data; API, settings, observability**: paging, read-only views and configuration.
* **Back-test engine, bootstrap, sensitivity, parameter learning**: sequential floating-point
  computations with no protocol; the metrics that gates read are in Journal.
* **MACD, swing levels, volume features, lessons and similarity, prompts and answers**: what is
  decided from them is any choice in the models.
* **Phase 22's further experiments and Phase 21's attribution beyond what Journal has**: each is a
  fold over a session's trace like the ones that are there.

Worth doing next: PaperSession with two symbols (one engine, only the first is restored); a
clock per channel in MarketData, for the klines that keep arriving beside a silent book; the
certification's daily statements. Every safety invariant of the passing runs has a theorem. Proofs
still worth having: that the component-wise account of Journal refines the one sum of Certification,
and the journal's theorems for more than one open position, where a lot is no longer the position.
