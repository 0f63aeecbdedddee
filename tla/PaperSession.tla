----------------------------- MODULE PaperSession -----------------------------
(***************************************************************************)
(* The process around the paper runner: it restores its memory by          *)
(* replaying the candles and events of the session, backfills the candles  *)
(* that closed while it was away, subscribes to the exchange's stream,     *)
(* backfills again and then processes one confirmed candle after the       *)
(* other, committing after each.  One symbol and timeframe; candles are    *)
(* numbered in the order they close.                                       *)
(*                                                                         *)
(* What the trading pipeline computes for a candle depends on the candles  *)
(* processed before it and on the kill switch the runner holds, so an      *)
(* event is represented by exactly these.                                  *)
(***************************************************************************)
EXTENDS Integers, Sequences, FiniteSets, SequencesExt

CONSTANTS
  MaxCandles,     \* bound: candles the exchange closes
  MaxStops,       \* bound: times the process crashes
  Revised,        \* candles whose REST values differ from the stream's
  LateAck,        \* may a candle close between sending and serving subscribe?
  Disconnects,    \* may the connection break?
  KillToggles     \* may an operator change the persisted kill switch?

ASSUME SessionAssumption ==
  /\ {MaxCandles, MaxStops} \subseteq Nat
  /\ Revised \subseteq 1..MaxCandles
  /\ {LateAck, Disconnects, KillToggles} \subseteq BOOLEAN

VARIABLES
  closed,       \* exchange: candles 1..closed have closed
  conn,         \* exchange's end of the stream: "down", "sent" or "serving"
  buffer,       \* confirmed candles delivered and not yet received
  killSwitch,   \* system_state["kill_switch"].active
  candles,      \* committed market_candles of the session
  events,       \* committed paper_trade_events
  newCandles, newEvents, \* rows written in the open transaction
  pc,           \* where the process is
  history,      \* candles the runner's memory has processed, in order
  lastRest,     \* did the last of them come from REST?
  ownKill,      \* the kill switch the runner restored
  reported,     \* candles whose events the last periodic report counts
  failure,      \* why the process stopped last
  stops,        \* how often it crashed (bounds the model)
  anchor        \* history: candles closed when the session first started

exchange == <<closed, conn, buffer>>
database == <<candles, events>>
transaction == <<newCandles, newEvents>>
memory == <<history, lastRest, ownKill>>
vars == <<exchange, killSwitch, database, transaction, pc, memory, reported,
          failure, stops, anchor>>

Candle == 1..MaxCandles
Newest(S) == IF S = {} THEN 0 ELSE CHOOSE k \in S : \A j \in S : j <= k
Last0(s) == IF s = <<>> THEN 0 ELSE s[Len(s)]

\* ORDER BY timestamp: the rows of S, the oldest first.
InOrder(S) ==
  CHOOSE s \in [1..Cardinality(S) -> S] : \A m, n \in DOMAIN s : m < n => s[m] < s[n]

\* Rows the session's own queries see: committed ones and its own.
VisibleCandles == candles \cup newCandles
VisibleEvents == events \cup newEvents

\* PaperTradeEvent of candle k, processed after the candles of h under kill
\* switch ks.
EventOf(k, h, ks) == [candle |-> k, after |-> ToSet(h), kill |-> ks]
Event == [candle : Candle, after : SUBSET Candle, kill : BOOLEAN]

-----------------------------------------------------------------------------
(* The environment: exchange, network, operator.                           *)

\* The exchange pushes a candle to the connections it serves when it closes.
CandleCloses ==
  /\ closed < MaxCandles
  /\ LateAck \/ conn # "sent"
  /\ closed' = closed + 1
  /\ buffer' = IF conn = "serving" THEN Append(buffer, closed + 1) ELSE buffer
  /\ UNCHANGED <<conn, killSwitch, database, transaction, pc, memory, reported,
                 failure, stops, anchor>>

\* The subscribe message takes effect; its acknowledgement is not awaited.
ServeSubscription ==
  /\ conn = "sent"
  /\ conn' = "serving"
  /\ UNCHANGED <<closed, buffer, killSwitch, database, transaction, pc, memory,
                 reported, failure, stops, anchor>>

\* What was delivered can still be read, what was under way is lost.
Disconnect ==
  /\ Disconnects
  /\ conn # "down"
  /\ conn' = "down"
  /\ \E n \in 0..Len(buffer) : buffer' = SubSeq(buffer, 1, n)
  /\ UNCHANGED <<closed, killSwitch, database, transaction, pc, memory,
                 reported, failure, stops, anchor>>

SetKillSwitch ==
  /\ KillToggles
  /\ killSwitch' = ~killSwitch
  /\ UNCHANGED <<exchange, database, transaction, pc, memory, reported,
                 failure, stops, anchor>>

-----------------------------------------------------------------------------
(* The process.                                                            *)

\* Closing the database session discards the open transaction.
RollBack == newCandles' = {} /\ newEvents' = {}

\* The process ends: its memory, its connection and its open transaction go.
Stop(why) ==
  /\ pc' = "down" /\ failure' = why
  /\ history' = <<>> /\ lastRest' = FALSE /\ ownKill' = FALSE
  /\ RollBack
  /\ conn' = "down" /\ buffer' = <<>>
  /\ UNCHANGED <<closed, killSwitch, database, reported, anchor>>

\* A crash, a failed commit or REST call, exhausted connection attempts, the
\* deadline: at any point.
Crash ==
  /\ pc # "down"
  /\ stops < MaxStops
  /\ stops' = stops + 1
  /\ Stop("crash")

\* The events replaying the committed candles gives, under the kill switch as
\* it is now.
ReplayedEvents(s) ==
  {EventOf(s[n], SubSeq(s, 1, n - 1), killSwitch) : n \in DOMAIN s}

\* restore_runner: replay must meet a persisted event for every candle, equal
\* to the one it computes.
Restore ==
  LET s == InOrder(candles) IN
  /\ pc = "down"
  /\ anchor' = IF anchor = -1 THEN closed ELSE anchor
  /\ IF \E k \in candles : \A e \in events : e.candle # k
     THEN /\ failure' = "recovery_gap"
          /\ UNCHANGED <<pc, memory>>
     ELSE IF ~(ReplayedEvents(s) \subseteq events)
     THEN /\ failure' = "recovery_divergence"
          /\ UNCHANGED <<pc, memory>>
     ELSE /\ pc' = "restored"
          /\ history' = s
          /\ lastRest' = FALSE
          /\ ownKill' = killSwitch
          /\ failure' = "none"
  /\ UNCHANGED <<exchange, killSwitch, database, transaction, reported, stops>>

\* An existing row wins over a new one: upsert_paper and add both say
\* ON CONFLICT DO NOTHING.
AddCandles(ks) == newCandles' = newCandles \cup (ks \ candles)
AddEvents(es) ==
  newEvents' = newEvents \cup
    {e \in es : \A old \in VisibleEvents : old.candle # e.candle}

\* handle_candle for the candles of s in turn: advance the memory, then write
\* candle and event.
Process(s, rest) ==
  LET made == {EventOf(s[n], history \o SubSeq(s, 1, n - 1), ownKill) :
                 n \in DOMAIN s}
  IN /\ history' = history \o s
     /\ lastRest' = IF s = <<>> THEN lastRest ELSE rest
     /\ AddCandles(ToSet(s))
     /\ AddEvents(made)
     /\ UNCHANGED ownKill

\* BackfillService.backfill: the closed candles after the last persisted one;
\* a session without candles is not backfilled.
Missing_one_page ==
  IF VisibleCandles = {} \/ Newest(VisibleCandles) = closed THEN <<>>
  ELSE <<Newest(VisibleCandles) + 1>>
Missing_from_the_start == [n \in 1..(closed - Newest(VisibleCandles)) |->
                             Newest(VisibleCandles) + n]
Missing ==
  IF VisibleCandles = {} THEN <<>>
  ELSE [n \in 1..(closed - Newest(VisibleCandles)) |->
          Newest(VisibleCandles) + n]

Backfill(from, to) ==
  /\ pc = from
  /\ pc' = to
  /\ Process(Missing, TRUE)
  /\ UNCHANGED <<exchange, killSwitch, database, reported, failure, stops,
                 anchor>>

\* ConnectionSupervisor: a new connection, then the subscribe message.
Connect ==
  /\ conn' = "sent"
  /\ buffer' = <<>>
  /\ UNCHANGED <<closed, killSwitch, database, transaction, memory, reported,
                 failure, stops, anchor>>

\* recover_and_handoff: backfill, subscribe, backfill.
FirstBackfill == Backfill("restored", "backfilled")
Subscribe == pc = "backfilled" /\ Connect /\ pc' = "subscribed"
SecondBackfill_skipped ==
  /\ pc = "subscribed" /\ pc' = "running"
  /\ UNCHANGED <<exchange, killSwitch, database, transaction, memory, reported,
                 failure, stops, anchor>>
SecondBackfill == Backfill("subscribed", "running")

\* In the loop a broken or silent connection is replaced; nothing is fetched.
Reconnect ==
  /\ pc = "running"
  /\ buffer = <<>>
  /\ conn = "down" \/ Disconnects
  /\ Connect
  /\ UNCHANGED pc

\* handle_candle on the stream: older candles and a second, different version of
\* the last one raise, its repetition is dropped without a commit.
Fails(k) ==
  IF k < Last0(history) THEN "out_of_order"
  ELSE IF k = Last0(history) /\ lastRest /\ k \in Revised
       THEN "duplicate_candle" ELSE "none"

Receive ==
  /\ pc = "running"
  /\ buffer # <<>>
  /\ LET k == Head(buffer) IN
     /\ Fails(k) = "none"
     /\ IF k = Last0(history)
        THEN UNCHANGED <<pc, memory, transaction>>
        ELSE Process(<<k>>, FALSE) /\ pc' = "committing"
  /\ buffer' = Tail(buffer)
  /\ UNCHANGED <<closed, conn, killSwitch, database, reported, failure, stops,
                 anchor>>

ReceiveFails ==
  /\ pc = "running"
  /\ buffer # <<>>
  /\ Fails(Head(buffer)) # "none"
  /\ Stop(Fails(Head(buffer)))
  /\ UNCHANGED stops

CommitRows_forgets_events == candles' = VisibleCandles /\ UNCHANGED events
CommitRows_replaces ==
  /\ candles' = newCandles
  /\ events' = newEvents
CommitRows ==
  /\ candles' = VisibleCandles
  /\ events' = VisibleEvents

Commit ==
  /\ pc = "committing"
  /\ pc' = "running"
  /\ CommitRows
  /\ newCandles' = {} /\ newEvents' = {}
  /\ UNCHANGED <<exchange, killSwitch, memory, reported, failure, stops, anchor>>

\* The periodic report reads the session's events in the same transaction.
Report ==
  /\ pc = "running"
  /\ reported' = {e.candle : e \in VisibleEvents}
  /\ UNCHANGED <<exchange, killSwitch, database, transaction, pc, memory,
                 failure, stops, anchor>>

-----------------------------------------------------------------------------

Init ==
  /\ closed = 0 /\ conn = "down" /\ buffer = <<>>
  /\ killSwitch = FALSE
  /\ candles = {} /\ events = {} /\ newCandles = {} /\ newEvents = {}
  /\ pc = "down"
  /\ history = <<>> /\ lastRest = FALSE /\ ownKill = FALSE
  /\ reported = {}
  /\ failure = "none" /\ stops = 0
  /\ anchor = -1

Environment ==
  CandleCloses \/ ServeSubscription \/ Disconnect \/ SetKillSwitch

Step ==
  \/ Restore \/ FirstBackfill \/ Subscribe \/ SecondBackfill
  \/ Receive \/ ReceiveFails \/ Commit \/ Reconnect

Next == Environment \/ Step \/ Report \/ Crash

Spec == Init /\ [][Next]_vars

\* The process is restarted when it ends and its steps go on; the exchange
\* serves subscriptions and its candles close with the clock.  Nothing need fail.
FairSpec ==
  Spec /\ WF_vars(Step) /\ WF_vars(ServeSubscription) /\ WF_vars(CandleCloses)
-----------------------------------------------------------------------------
(* Properties.                                                             *)

Failure == {"none", "crash", "recovery_gap", "recovery_divergence",
            "out_of_order", "duplicate_candle"}

\* Types; a process that is down holds nothing.
TypeOK ==
  /\ closed \in 0..MaxCandles
  /\ conn \in {"down", "sent", "serving"}
  /\ buffer \in Seq(Candle) /\ history \in Seq(Candle)
  /\ {killSwitch, ownKill, lastRest} \subseteq BOOLEAN
  /\ candles \subseteq Candle /\ newCandles \subseteq Candle
  /\ events \subseteq Event /\ newEvents \subseteq Event
  /\ pc \in {"down", "restored", "backfilled", "subscribed", "running",
              "committing"}
  /\ reported \subseteq Candle
  /\ failure \in Failure /\ stops \in 0..MaxStops
  /\ anchor \in -1..MaxCandles
  /\ pc = "down" => history = <<>> /\ VisibleEvents = events /\ conn = "down"

\* The runner's memory is at every moment what replaying the rows of the
\* session would rebuild: each candle once, in order, none besides.
MemoryIsReplayable ==
  pc # "down" => history = InOrder(VisibleCandles)

\* handle_candle persists candle and event together: no candle without exactly
\* one event, committed or not, so that replay meets no RecoveryGapError.
EventPerCandle ==
  /\ candles = {e.candle : e \in events}
  /\ VisibleCandles = {e.candle : e \in VisibleEvents}
  /\ Cardinality(VisibleEvents) = Cardinality(VisibleCandles)

\* Replay is deterministic: every event was computed from exactly the candles
\* that precede it in the session, backfilled or streamed.
EventsReplay ==
  \A e \in VisibleEvents : e.after = {k \in VisibleCandles : k < e.candle}

\* Fresh session bootstrap (backfill.py:48-51): no candle that had closed before
\* the session first started ever enters it, after crashes either.
NoEvidenceBeforeStart == \A k \in VisibleCandles : k > anchor

\* The handoff of recover_and_handoff has no loss window: between the first
\* candle of a session and its last none is missing.
NoSkippedCandle ==
  \A k \in VisibleCandles : \A j \in VisibleCandles :
    \A i \in j..k : i \in VisibleCandles

\* The overlap of the second backfill with the stream is harmless: it never makes
\* handle_candle raise.
OverlapIsHarmless == failure # "out_of_order"

\* A restart reproduces the session: replay never diverges from the persisted
\* events, with the kill switch active or not.
RestartReproduces == failure # "recovery_divergence"

\* With a subscription served at once, crashes and restarts leave no trace in the
\* session: no candle is missing and no replay ever diverges.
RestartIsSeamless == NoSkippedCandle /\ RestartReproduces

\* A periodic report may count events that are not committed yet; a crash then
\* loses only events the next backfill computes again.
ReportedIsRecoverable ==
  \A k \in reported : k \in candles \/ (candles # {} /\ k > Newest(candles))

\* Memory, open transaction and database always tell one replayable story.
SessionIsReplayable ==
  TypeOK /\ MemoryIsReplayable /\ EventPerCandle /\ EventsReplay /\ ReportedIsRecoverable

\* The committed events are an append-only, replayable journal.
Journal == INSTANCE DecisionJournal WITH journal <- events
ImplementsDecisionJournal == Journal!Spec

\* Every candle that closes once a session has committed rows is committed in
\* the end, or waits in the open transaction for the next candle to close.
EveryCandlePersisted ==
  \A k \in Candle :
    (candles # {} /\ k = closed)
      ~> (k \in candles \/ (k \in newCandles /\ closed = MaxCandles))
=============================================================================
