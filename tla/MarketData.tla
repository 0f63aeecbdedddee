------------------------------ MODULE MarketData ------------------------------
(***************************************************************************)
(* The market worker: one stream connection after the other, each with a   *)
(* MarketDataService of its own that keeps an order book per symbol from a *)
(* snapshot and numbered deltas, watches its health, stores the confirmed  *)
(* candles and, once per window, features of every book, and commits them. *)
(*                                                                         *)
(* The exchange keeps the true book of every symbol.  It may leave a delta *)
(* out, send one twice, or let a snapshot overtake deltas already sent.    *)
(* Time is abstracted: the receive timeout may expire whenever nothing is  *)
(* there to receive, and a feature window may end at any event.            *)
(***************************************************************************)
EXTENDS Integers, Sequences, FiniteSets

CONSTANTS
  Symbols,
  Levels,          \* price levels of a book
  Bids,            \* those of them on the bid side; the others are asks
  MaxUpdates,      \* bound: symbol -> changes of its true book
  MaxLost,         \* bound: deltas the exchange leaves out
  MaxTwice,        \* bound: deltas it sends twice
  MaxCandles,      \* bound: candles it confirms
  MaxDisconnects   \* bound: broken connections

ASSUME MarketAssumption ==
  /\ Bids \subseteq Levels /\ IsFiniteSet(Levels) /\ IsFiniteSet(Symbols)
  /\ {MaxLost, MaxTwice, MaxCandles, MaxDisconnects} \subseteq Nat
  /\ MaxUpdates \in [Symbols -> Nat]

VARIABLES
  truth,           \* symbol -> every version of its book, newest last
  lost, twice, candles, disconnects, \* counters of the bounded events
  pending,         \* symbols whose subscribe message is not served yet
  served,          \* symbols whose changes the connection receives
  queue,           \* messages delivered and not yet received
  pc,              \* "connect", "recv" or "handled" (end of the loop body)
  books,           \* MarketDataService._books: symbol -> levels, id
  health,          \* MarketDataService._health
  written, stored, \* candles upserted in the open transaction, committed ones
  features,        \* symbol -> the book of its last feature row
  broken           \* history: symbols with a gap since their last snapshot

exchange == <<truth, lost, twice, candles>>
stream == <<pending, served, queue>>
service == <<books, health, broken>>
vars == <<exchange, disconnects, stream, pc, service, written, stored, features>>

Book == SUBSET Levels          \* the levels with a size above zero
NoBook == [levels |-> {}, id |-> 0]
Known == {s \in Symbols : books[s].id > 0}

Version(s) == Len(truth[s])
Snapshot(s) == [kind |-> "snapshot", symbol |-> s, id |-> Version(s),
                levels |-> truth[s][Version(s)]]

-----------------------------------------------------------------------------
(* The exchange and the network.                                           *)

\* A level of the book of s appears or vanishes; the delta that says so is sent
\* once, twice or not at all.
BookChanges(s, l) ==
  LET old == truth[s][Version(s)]
      new == IF l \in old THEN old \ {l} ELSE old \cup {l}
      delta == [kind |-> "delta", symbol |-> s, id |-> Version(s) + 1,
                level |-> l, there |-> l \notin old]
  IN
  /\ Version(s) <= MaxUpdates[s]
  /\ truth' = [truth EXCEPT ![s] = Append(@, new)]
  /\ \/ /\ queue' = IF s \in served THEN Append(queue, delta) ELSE queue
        /\ UNCHANGED <<lost, twice>>
     \/ /\ s \in served /\ lost < MaxLost
        /\ lost' = lost + 1
        /\ UNCHANGED <<queue, twice>>
     \/ /\ s \in served /\ twice < MaxTwice
        /\ twice' = twice + 1
        /\ queue' = queue \o <<delta, delta>>
        /\ UNCHANGED lost
  /\ UNCHANGED <<candles, disconnects, pending, served, pc, service, written,
                 stored, features>>

\* Serving a subscription starts with a snapshot, which may overtake deltas.
ServeSubscription(s) ==
  /\ s \in pending
  /\ pending' = pending \ {s}
  /\ served' = served \cup {s}
  /\ queue' \in {Append(queue, Snapshot(s)), <<Snapshot(s)>> \o queue}
  /\ UNCHANGED <<exchange, disconnects, pc, service, written, stored, features>>

CandleConfirmed ==
  /\ pc # "connect"
  /\ candles < MaxCandles
  /\ candles' = candles + 1
  /\ queue' = Append(queue, [kind |-> "kline", candle |-> candles + 1])
  /\ UNCHANGED <<truth, lost, twice, disconnects, pending, served, pc, service,
                 written, stored, features>>

-----------------------------------------------------------------------------
(* The worker.                                                             *)

\* run_with_reconnect builds a new service, which subscribes every symbol.
Connect ==
  /\ pc = "connect"
  /\ pc' = "recv"
  /\ pending' = Symbols /\ served' = {} /\ queue' = <<>>
  /\ books' = [s \in Symbols |-> NoBook]
  /\ health' = "stale"
  /\ broken' = {}
  /\ UNCHANGED <<exchange, disconnects, written, stored, features>>

RollBack == written' = {}

\* The connection breaks: the database session is closed with its transaction.
Disconnect ==
  /\ pc # "connect"
  /\ disconnects < MaxDisconnects
  /\ disconnects' = disconnects + 1
  /\ pc' = "connect"
  /\ pending' = {} /\ served' = {} /\ queue' = <<>>
  /\ RollBack
  /\ UNCHANGED <<exchange, service, stored, features>>

\* No message within stale_timeout_seconds: the connection is kept.
Timeout ==
  /\ pc = "recv" /\ queue = <<>>
  /\ health' = "stale"
  /\ UNCHANGED <<exchange, disconnects, stream, pc, books, broken, written,
                 stored, features>>

\* OrderBook.is_healthy and _refresh_health after a message just arrived.
TwoSided(b) == b.levels \cap Bids # {} /\ b.levels \ Bids # {}
Refreshed(B) ==
  IF /\ \E s \in Symbols : B[s].id > 0
     /\ \A s \in Symbols : B[s].id > 0 => TwoSided(B[s])
  THEN "healthy" ELSE "stale"

\* _handle_event receives the first message; the loop body ends with LoopEnds.
Handle(kind) ==
  /\ pc = "recv" /\ queue # <<>>
  /\ Head(queue).kind = kind
  /\ pc' = "handled"

HandleSnapshot ==
  LET m == Head(queue) IN
  /\ Handle("snapshot")
  /\ books' = [books EXCEPT ![m.symbol] = [levels |-> m.levels, id |-> m.id]]
  /\ health' = Refreshed(books')
  /\ broken' = broken \ {m.symbol}
  /\ queue' = Tail(queue)
  /\ UNCHANGED <<exchange, disconnects, pending, served, written, stored,
                 features>>

Gap(m) == books[m.symbol].id = 0 \/ m.id > books[m.symbol].id + 1

\* A delta that follows the book's version is applied, an older one ignored.
Applied_applies_old_deltas(b, m) ==
  [levels |-> IF m.there THEN b.levels \cup {m.level} ELSE b.levels \ {m.level},
   id |-> m.id]
Applied(b, m) ==
  IF m.id <= b.id THEN b
  ELSE [levels |-> IF m.there THEN b.levels \cup {m.level}
                   ELSE b.levels \ {m.level},
        id |-> m.id]

HandleDelta ==
  LET m == Head(queue) IN
  /\ Handle("delta")
  /\ ~Gap(m)
  /\ books' = [books EXCEPT ![m.symbol] = Applied(@, m)]
  /\ health' = Refreshed(books')
  /\ queue' = Tail(queue)
  /\ UNCHANGED <<exchange, disconnects, pending, served, broken, written,
                 stored, features>>

Resubscribe_not_sent(s) == UNCHANGED pending
Resubscribe(s) == pending' = pending \cup {s}

\* A gap: STALE, and the symbol is subscribed again; its book stays as it is.
HandleGap ==
  LET m == Head(queue) IN
  /\ Handle("delta")
  /\ Gap(m)
  /\ health' = "stale"
  /\ Resubscribe(m.symbol)
  /\ broken' = IF books[m.symbol].id = 0 THEN broken ELSE broken \cup {m.symbol}
  /\ queue' = Tail(queue)
  /\ UNCHANGED <<exchange, disconnects, served, books, written, stored, features>>

Upsert(k) == written' = written \cup {k}

HandleKline ==
  /\ Handle("kline")
  /\ Upsert(Head(queue).candle)
  /\ queue' = Tail(queue)
  /\ UNCHANGED <<exchange, disconnects, pending, served, service, stored,
                 features>>

AggregateFeatures ==
  features' = [s \in Symbols |->
                 IF s \in Known /\ TwoSided(books[s]) THEN books[s]
                 ELSE features[s]]

RefreshHealth == health' = Refreshed(books)

Commit == stored' = stored \cup written

\* The rest of the loop body: at the end of a window the features are inserted
\* and everything committed; the health is refreshed in any case.
LoopEnds ==
  /\ pc = "handled"
  /\ pc' = "recv"
  /\ \/ /\ AggregateFeatures
        /\ Commit
        /\ written' = {}
     \/ UNCHANGED <<features, stored, written>>
  /\ RefreshHealth
  /\ UNCHANGED <<exchange, disconnects, stream, books, broken>>

-----------------------------------------------------------------------------

Init ==
  /\ truth = [s \in Symbols |-> <<Levels>>]
  /\ lost = 0 /\ twice = 0 /\ candles = 0 /\ disconnects = 0
  /\ pending = {} /\ served = {} /\ queue = <<>>
  /\ pc = "connect"
  /\ books = [s \in Symbols |-> NoBook]
  /\ health = "stale"
  /\ written = {} /\ stored = {}
  /\ features = [s \in Symbols |-> NoBook]
  /\ broken = {}

Exchange ==
  \/ \E s \in Symbols, l \in Levels : BookChanges(s, l)
  \/ \E s \in Symbols : ServeSubscription(s)
  \/ CandleConfirmed

Step ==
  \/ Connect \/ HandleSnapshot \/ HandleDelta \/ HandleGap \/ HandleKline
  \/ LoopEnds

Next == Exchange \/ Step \/ Timeout \/ Disconnect

Spec == Init /\ [][Next]_vars

\* The worker's loop goes on and the exchange serves every subscription.
FairSpec ==
  Spec /\ WF_vars(Step) /\ \A s \in Symbols : WF_vars(ServeSubscription(s))
-----------------------------------------------------------------------------
(* Properties.                                                             *)

Versions(s) == 0..(MaxUpdates[s] + 1)
IsBook(b, s) == b.levels \in Book /\ b.id \in Versions(s)

\* Types; outside a connection nothing is subscribed or uncommitted.
TypeOK ==
  /\ \A s \in Symbols : truth[s] \in Seq(Book) /\ Version(s) \in Versions(s)
  /\ lost \in 0..MaxLost /\ twice \in 0..MaxTwice
  /\ candles \in 0..MaxCandles /\ disconnects \in 0..MaxDisconnects
  /\ pending \subseteq Symbols /\ served \subseteq Symbols
  /\ pc \in {"connect", "recv", "handled"}
  /\ \A s \in Symbols : IsBook(books[s], s) /\ IsBook(features[s], s)
  /\ health \in {"stale", "healthy"}
  /\ written \subseteq 1..candles /\ stored \subseteq 1..candles
  /\ broken \subseteq Known
  /\ pc = "connect" => pending = {} /\ written = {}

\* The local book, and the one features were last aggregated from, is always one
\* the exchange had: the version it claims, level by level, whatever deltas were
\* lost, repeated or overtaken (apply_delta).
BookIsExchangeBook ==
  \A s \in Symbols : \A b \in {books[s], features[s]} :
    b.id > 0 => b.levels = truth[s][b.id]

\* HEALTHY is never stale itself, and aggregate_features skips what is unusable:
\* no book became one-sided since health was computed, and none is stored so.
HealthyMeansTwoSided ==
  /\ pc # "connect" /\ health = "healthy" => \A s \in Known : TwoSided(books[s])
  /\ \A s \in Symbols : features[s].id > 0 => TwoSided(features[s])

\* Books, features and health are about books the exchange had.
BooksAreReal == TypeOK /\ BookIsExchangeBook /\ HealthyMeansTwoSided

\* Every book that lost its sequence is rebuilt from a snapshot in the end: the
\* resubscription _handle_event sends is never forgotten.
GapHeals == \A s \in Symbols : s \in broken ~> s \notin broken

\* Loss of synchronisation means STALE until the sequence is reconciled: whenever
\* the worker waits for a message, HEALTHY books have no open gap.
HealthyMeansInSync == pc = "recv" /\ health = "healthy" => broken = {}
=============================================================================
