--------------------------- MODULE MarketDataProofs ---------------------------
(***************************************************************************)
(* Theorems about MarketData for any symbols, levels and bounds: whatever  *)
(* deltas are lost, repeated or overtaken and however often the connection *)
(* breaks, a local book is one the exchange had and features are of usable *)
(* books.                                                                  *)
(***************************************************************************)
EXTENDS MarketData, TLAPS

-----------------------------------------------------------------------------
(* Sequences.                                                              *)

\* A sequence with one more element at its end.
LEMMA Appending ==
  ASSUME NEW S, NEW s \in Seq(S), NEW e \in S
  PROVE  /\ Append(s, e) \in Seq(S)
         /\ Len(s) \in Nat /\ Len(Append(s, e)) = Len(s) + 1
         /\ Append(s, e)[Len(s) + 1] = e
         /\ \A i \in 1..Len(s) : Append(s, e)[i] = s[i]
OBVIOUS

\* Joined sequences hold what they held.
LEMMA Joining ==
  ASSUME NEW S, NEW s \in Seq(S), NEW t \in Seq(S)
  PROVE  s \o t \in Seq(S)
OBVIOUS

\* The first element of a sequence, and the rest.
LEMMA Taking ==
  ASSUME NEW S, NEW s \in Seq(S), s # <<>>
  PROVE  Head(s) \in S /\ Tail(s) \in Seq(S)
OBVIOUS

\* A sequence over a set is one over any larger set.
LEMMA Widening ==
  ASSUME NEW S, NEW T, \A e \in S : e \in T, NEW s \in Seq(S)
  PROVE  s \in Seq(T)
OBVIOUS

\* What a sequence holds belongs to its set.
LEMMA Indexing ==
  ASSUME NEW S, NEW s \in Seq(S), NEW i \in 1..Len(s)
  PROVE  s[i] \in S
OBVIOUS

-----------------------------------------------------------------------------
(* What the connection delivers.                                           *)

Messages ==
  [kind : {"snapshot"}, symbol : Symbols, id : Nat, levels : Book]
    \cup [kind : {"delta"}, symbol : Symbols, id : Nat, level : Levels, there : BOOLEAN]
    \cup [kind : {"kline"}, candle : Nat]

\* A snapshot is a version of its symbol's true book, a delta the step between two
\* versions, a kline a candle that was confirmed.
Truthful(m) ==
  /\ m.kind = "snapshot" =>
       m.id \in 1..Version(m.symbol) /\ m.levels = truth[m.symbol][m.id]
  /\ m.kind = "delta" =>
       /\ m.id \in 2..Version(m.symbol)
       /\ truth[m.symbol][m.id] =
            IF m.there THEN truth[m.symbol][m.id - 1] \cup {m.level}
            ELSE truth[m.symbol][m.id - 1] \ {m.level}
  /\ m.kind = "kline" => m.candle \in 1..candles

Delivered == {m \in Messages : Truthful(m)}

\* Types that say of which functions the state consists.
Shapes ==
  /\ truth \in [Symbols -> Seq(Book)]
  /\ books \in [Symbols -> [levels : Book, id : Nat]]
  /\ features \in [Symbols -> [levels : Book, id : Nat]]
  /\ \A s \in Symbols :
       /\ 1 <= Version(s) /\ Version(s) <= MaxUpdates[s] + 1
       /\ books[s].id <= Version(s) /\ features[s].id <= Version(s)
  /\ candles \in 0..MaxCandles
  /\ pc \in {"connect", "recv", "handled"} /\ health \in {"stale", "healthy"}
  /\ pending \subseteq Symbols /\ served \subseteq Symbols

\* Counters, transaction and gaps.
Bookkeeping ==
  /\ lost \in 0..MaxLost /\ twice \in 0..MaxTwice /\ disconnects \in 0..MaxDisconnects
  /\ written \subseteq 1..candles /\ stored \subseteq 1..candles
  /\ broken \subseteq Known
  /\ pc = "connect" => pending = {} /\ written = {}

MarketInv ==
  /\ Shapes /\ Bookkeeping /\ queue \in Seq(Delivered)
  /\ BookIsExchangeBook /\ HealthyMeansTwoSided

-----------------------------------------------------------------------------
(* Lemmas about the parts of the invariant.                                *)

\* Versions already published stay what they are, so messages stay truthful.
Later == /\ \A s \in Symbols : /\ Version(s) \in Nat /\ Version(s)' \in Nat
                               /\ Version(s) <= Version(s)'
                               /\ \A i \in 1..Version(s) : truth'[s][i] = truth[s][i]
         /\ candles \in Nat /\ candles' \in Nat /\ candles <= candles'

\* What the exchange has sent stays true of it: its books only grow.
LEMMA StillTruthful ==
  ASSUME Later, NEW q \in Seq(Delivered)
  PROVE  q \in Seq(Delivered')
<1>1. ASSUME NEW m \in Messages, Truthful(m) PROVE Truthful(m)'
  <2>1. CASE m.kind = "snapshot"
    <3>1. m.symbol \in Symbols /\ m.id \in Nat
      BY <2>1 DEF Messages
    <3>2. /\ Version(m.symbol) \in Nat /\ Version(m.symbol)' \in Nat
          /\ Version(m.symbol) <= Version(m.symbol)'
          /\ \A i \in 1..Version(m.symbol) : truth'[m.symbol][i] = truth[m.symbol][i]
      BY <3>1 DEF Later
    <3>3. m.id \in 1..Version(m.symbol) /\ m.levels = truth[m.symbol][m.id]
      BY <1>1, <2>1 DEF Truthful
    <3>4. m.id \in 1..Version(m.symbol)' /\ m.levels = truth'[m.symbol][m.id]
      BY <3>2, <3>3
    <3>5. QED
      BY <2>1, <3>4 DEF Truthful
  <2>2. CASE m.kind = "delta"
    <3>1. m.symbol \in Symbols /\ m.id \in Nat
      BY <2>2 DEF Messages
    <3>2. /\ Version(m.symbol) \in Nat /\ Version(m.symbol)' \in Nat
          /\ Version(m.symbol) <= Version(m.symbol)'
          /\ \A i \in 1..Version(m.symbol) : truth'[m.symbol][i] = truth[m.symbol][i]
      BY <3>1 DEF Later
    <3>3. m.id \in 2..Version(m.symbol)
      BY <1>1, <2>2 DEF Truthful
    <3>4. /\ m.id \in 2..Version(m.symbol)' /\ truth'[m.symbol][m.id] = truth[m.symbol][m.id]
          /\ truth'[m.symbol][m.id - 1] = truth[m.symbol][m.id - 1]
      BY <3>1, <3>2, <3>3
    <3>5. QED
      BY <1>1, <2>2, <3>4 DEF Truthful
  <2>3. CASE m.kind = "kline"
    <3>1. m.candle \in 1..candles /\ m.candle \in Int
      BY <1>1, <2>3 DEF Truthful
    <3>2. m.candle \in 1..candles'
      BY <3>1 DEF Later
    <3>3. QED
      BY <2>3, <3>2 DEF Truthful
  <2>4. m.kind \in {"snapshot", "delta", "kline"}
    BY <1>1 DEF Messages
  <2>5. QED
    BY <2>1, <2>2, <2>3, <2>4
<1>2. Messages' = Messages
  BY DEF Messages, Book
<1>3. \A m \in Delivered : m \in Delivered'
  BY <1>1, <1>2 DEF Delivered
<1>4. QED
  BY <1>3, Widening

\* The versions of a book are numbers from one.
LEMMA Versioning ==
  ASSUME Shapes, NEW s \in Symbols
  PROVE  /\ Version(s) \in Nat /\ Version(s) >= 1
         /\ truth[s] \in Seq(Book)
         /\ \A i \in 1..Version(s) : truth[s][i] \in Book
<1>1. truth[s] \in Seq(Book) /\ 1 <= Version(s)
  BY DEF Shapes
<1>2. QED
  BY <1>1 DEF Version

\* With the exchange's books and candles unchanged everything delivered stays so.
LEMMA NothingNew ==
  ASSUME Shapes, UNCHANGED <<truth, candles>>
  PROVE  Delivered' = Delivered
BY DEF Delivered, Truthful, Messages, Version, Book

\* A snapshot of the present is truthful.
LEMMA SnapshotDelivered ==
  ASSUME Shapes, NEW s \in Symbols
  PROVE  Snapshot(s) \in Delivered
<1>1. /\ Version(s) \in Nat /\ Version(s) >= 1 /\ truth[s][Version(s)] \in Book
      /\ Version(s) \in 1..Version(s)
  BY Versioning
<1>2. Snapshot(s) \in Messages
  BY <1>1 DEF Snapshot, Messages
<1>3. Truthful(Snapshot(s))
  BY <1>1 DEF Snapshot, Truthful
<1>4. QED
  BY <1>2, <1>3 DEF Delivered

\* Health is judged on all the books together.
LEMMA HealthJudged ==
  ASSUME NEW B, Refreshed(B) = "healthy", NEW s \in Symbols, B[s].id > 0
  PROVE  TwoSided(B[s])
BY DEF Refreshed

\* refresh_health answers one of two states.
LEMMA HealthTyped ==
  ASSUME NEW B
  PROVE  Refreshed(B) \in {"stale", "healthy"}
BY DEF Refreshed

\* The parts that only speak of the worker's books.
LEMMA SameBooks ==
  ASSUME Shapes, BookIsExchangeBook, HealthyMeansTwoSided, UNCHANGED <<truth, books, features>>,
         pc' # "connect" /\ health' = "healthy" => pc # "connect" /\ health = "healthy"
  PROVE  BookIsExchangeBook' /\ HealthyMeansTwoSided'
<1>1. BookIsExchangeBook'
  BY DEF BookIsExchangeBook
<1>2. HealthyMeansTwoSided'
  BY DEF HealthyMeansTwoSided, Known, TwoSided
<1>3. QED
  BY <1>1, <1>2

-----------------------------------------------------------------------------
(* The exchange's steps.                                                   *)

\* A book changes: a delta says how, sent once, twice or not at all.
LEMMA BookChangesInv ==
  ASSUME MarketInv, MarketAssumption, NEW s \in Symbols, NEW l \in Levels, BookChanges(s, l)
  PROVE  MarketInv'
<1> DEFINE old == truth[s][Version(s)]
           new == IF l \in old THEN old \ {l} ELSE old \cup {l}
           delta == [kind |-> "delta", symbol |-> s, id |-> Version(s) + 1,
                     level |-> l, there |-> l \notin old]
<1>1. /\ Shapes /\ Bookkeeping /\ queue \in Seq(Delivered)
      /\ BookIsExchangeBook /\ HealthyMeansTwoSided
      /\ truth' = [truth EXCEPT ![s] = Append(truth[s], new)]
      /\ Version(s) <= MaxUpdates[s] /\ MaxUpdates[s] \in Nat
      /\ UNCHANGED <<candles, disconnects, pending, served, pc, service, written,
                     stored, features>>
  BY DEF MarketInv, BookChanges, MarketAssumption
<1>2. /\ Version(s) \in Nat /\ Version(s) >= 1 /\ old \in Book /\ new \in Book
      /\ truth[s] \in Seq(Book)
  <2>1. old \in Book /\ Version(s) \in Nat /\ Version(s) >= 1 /\ truth[s] \in Seq(Book)
    BY <1>1, Versioning
  <2>2. QED
    BY <2>1 DEF Book
<1> HIDE DEF new
<1>3. /\ truth' \in [Symbols -> Seq(Book)] /\ truth'[s] = Append(truth[s], new)
      /\ \A t \in Symbols \ {s} : truth'[t] = truth[t]
      /\ Version(s)' = Version(s) + 1 /\ truth'[s][Version(s) + 1] = new
      /\ \A i \in 1..Version(s) : truth'[s][i] = truth[s][i]
  <2>1. truth \in [Symbols -> Seq(Book)]
    BY <1>1 DEF Shapes
  <2>2. /\ Append(truth[s], new) \in Seq(Book)
        /\ Len(Append(truth[s], new)) = Version(s) + 1
        /\ Append(truth[s], new)[Version(s) + 1] = new
        /\ \A i \in 1..Version(s) : Append(truth[s], new)[i] = truth[s][i]
    BY <1>2, Appending DEF Version
  <2>3. /\ truth' \in [Symbols -> Seq(Book)] /\ truth'[s] = Append(truth[s], new)
        /\ \A t \in Symbols \ {s} : truth'[t] = truth[t]
    BY <1>1, <2>1, <2>2
  <2>4. QED
    BY <2>2, <2>3 DEF Version
<1>4. \A t \in Symbols \ {s} : Version(t)' = Version(t) /\ Version(t) \in Nat
  BY <1>1, <1>3, Versioning DEF Version
<1>5. Later
  <2>1. candles \in Nat /\ candles' = candles
    BY <1>1 DEF Shapes
  <2>2. ASSUME NEW t \in Symbols
        PROVE  /\ Version(t) \in Nat /\ Version(t)' \in Nat /\ Version(t) <= Version(t)'
               /\ \A i \in 1..Version(t) : truth'[t][i] = truth[t][i]
    <3>1. CASE t = s
      BY <1>2, <1>3, <3>1 DEF Version
    <3>2. CASE t # s
      <4>1. /\ Version(t)' = Version(t) /\ Version(t) \in Nat /\ truth'[t] = truth[t]
        BY <1>3, <1>4, <3>2
      <4>2. QED
        BY <4>1
    <3>3. QED
      BY <3>1, <3>2
  <2>3. QED
    BY <2>1, <2>2 DEF Later
<1>6. PICK m : m = delta
  OBVIOUS
<1>7. queue' \in Seq(Delivered')
  <2>1. m \in Messages
    BY <1>2, <1>6 DEF Messages
  <2>2. /\ m.kind = "delta" /\ m.symbol = s /\ m.id = Version(s) + 1
        /\ m.level = l /\ m.there = (l \notin old)
    BY <1>6
  <2>3. m.id \in 2..Version(s)' /\ m.id - 1 = Version(s) /\ Version(s) \in 1..Version(s)
    <3>1. Version(s) \in Nat /\ Version(s) >= 1 /\ Version(s)' = Version(s) + 1
      BY ONLY <1>2, <1>3
    <3>2. m.id = Version(s) + 1
      BY ONLY <2>2
    <3>3. QED
      BY ONLY <3>1, <3>2
  <2>4. /\ m.kind = "delta" /\ m.symbol = s
        /\ truth'[s][m.id] = IF m.there THEN truth'[s][m.id - 1] \cup {m.level}
                             ELSE truth'[s][m.id - 1] \ {m.level}
    <3>1. truth'[s][m.id] = new
      BY <1>3, <2>2
    <3>2. truth'[s][m.id - 1] = old
      BY <1>3, <2>3
    <3>3. QED
      BY <2>2, <3>1, <3>2 DEF new
  <2>5. Messages' = Messages
    BY DEF Messages, Book
  <2>6. m \in Delivered'
    <3>1. Truthful(m)'
      BY <2>3, <2>4 DEF Truthful, Version
    <3>2. QED
      BY <2>1, <2>5, <3>1 DEF Delivered
  <2>7. queue \in Seq(Delivered')
    BY <1>1, <1>5, StillTruthful
  <2>8. queue' \in {queue, Append(queue, m), queue \o <<m, m>>}
    BY <1>6 DEF BookChanges
  <2>9. PICK D : D = Delivered'
    OBVIOUS
  <2>10. queue \in Seq(D) /\ m \in D
    BY <2>6, <2>7, <2>9
  <2>11. queue' \in Seq(D)
    <3>1. queue \in Seq(D) /\ Append(queue, m) \in Seq(D)
      BY ONLY <2>10, Appending
    <3>2. queue \o <<m, m>> \in Seq(D)
      <4>1. <<m, m>> \in Seq(D)
        BY ONLY <2>10
      <4>2. QED
        BY ONLY <2>10, <4>1, Joining
    <3>3. QED
      BY ONLY <2>8, <3>1, <3>2
  <2>12. QED
    BY <2>9, <2>11
<1>8. Shapes'
  <2>1. ASSUME NEW t \in Symbols
        PROVE  /\ 1 <= Version(t)' /\ Version(t)' <= MaxUpdates[t] + 1
               /\ books'[t].id <= Version(t)' /\ features'[t].id <= Version(t)'
    <3>1. /\ 1 <= Version(t) /\ Version(t) <= MaxUpdates[t] + 1
          /\ books[t].id <= Version(t) /\ features[t].id <= Version(t)
          /\ books[t].id \in Nat /\ features[t].id \in Nat
      BY <1>1 DEF Shapes
    <3>2. books' = books /\ features' = features
      BY <1>1 DEF service
    <3>3. CASE t = s
      BY <1>1, <1>2, <1>3, <3>1, <3>2, <3>3, SMTT(40) DEF Version
    <3>4. CASE t # s
      <4>1. Version(t)' = Version(t)
        BY <1>4, <3>4
      <4>2. QED
        BY <3>1, <3>2, <4>1
    <3>5. QED
      BY <3>3, <3>4
  <2>2. QED
    BY <1>1, <1>3, <2>1 DEF Shapes, service
<1>9. Bookkeeping'
  <2>1. lost' \in 0..MaxLost /\ twice' \in 0..MaxTwice
    BY <1>1, SMTT(40) DEF BookChanges, Bookkeeping, MarketAssumption
  <2>2. QED
    BY <1>1, <2>1 DEF Bookkeeping, Known, service
<1>10. BookIsExchangeBook'
  <2>1. ASSUME NEW t \in Symbols, NEW b \in {books[t], features[t]}, b.id > 0
        PROVE  b.levels = truth'[t][b.id]
    <3>1. b.levels = truth[t][b.id] /\ b.id \in 1..Version(t)
      BY <1>1, <2>1, SMTT(40) DEF BookIsExchangeBook, Shapes
    <3>2. QED
      BY <1>5, <3>1 DEF Later
  <2>2. QED
    BY <1>1, <2>1 DEF BookIsExchangeBook, service
<1>11. HealthyMeansTwoSided'
  BY <1>1 DEF HealthyMeansTwoSided, Known, TwoSided, service
<1>12. QED
  BY <1>7, <1>8, <1>9, <1>10, <1>11 DEF MarketInv

\* A subscription is answered by a snapshot of the book as it is.
LEMMA ServeSubscriptionInv ==
  ASSUME MarketInv, NEW s \in Symbols, ServeSubscription(s)
  PROVE  MarketInv'
<1>1. /\ Shapes /\ Bookkeeping /\ queue \in Seq(Delivered)
      /\ BookIsExchangeBook /\ HealthyMeansTwoSided
  BY DEF MarketInv
<1>2. /\ pending' = pending \ {s} /\ served' = served \cup {s}
      /\ UNCHANGED <<truth, lost, twice, candles, disconnects, pc, books, health, broken,
                     written, stored, features>>
  BY DEF ServeSubscription, exchange, service
<1>3. Delivered' = Delivered
  BY <1>1, <1>2, NothingNew
<1>4. queue' \in Seq(Delivered)
  <2>1. PICK m \in Delivered : m = Snapshot(s)
    BY <1>1, SnapshotDelivered
  <2>2. queue' \in {Append(queue, m), <<m>> \o queue}
    BY <2>1 DEF ServeSubscription
  <2>3. Append(queue, m) \in Seq(Delivered)
    BY <1>1, <2>1, Appending
  <2>4. <<m>> \o queue \in Seq(Delivered)
    <3>1. <<m>> \in Seq(Delivered)
      BY ONLY <2>1
    <3>2. QED
      BY ONLY <1>1, <3>1, Joining
  <2>5. QED
    BY <2>2, <2>3, <2>4
<1>5. Shapes'
  BY <1>1, <1>2 DEF Shapes, Version
<1>6. Bookkeeping'
  BY <1>1, <1>2 DEF Bookkeeping, Known
<1>7. BookIsExchangeBook' /\ HealthyMeansTwoSided'
  BY <1>1, <1>2, SameBooks
<1>8. QED
  BY <1>3, <1>4, <1>5, <1>6, <1>7 DEF MarketInv

\* A candle is confirmed.
LEMMA CandleConfirmedInv ==
  ASSUME MarketInv, MarketAssumption, CandleConfirmed
  PROVE  MarketInv'
<1>1. /\ Shapes /\ Bookkeeping /\ queue \in Seq(Delivered)
      /\ BookIsExchangeBook /\ HealthyMeansTwoSided
  BY DEF MarketInv
<1>2. /\ candles' = candles + 1 /\ candles < MaxCandles /\ pc # "connect"
      /\ UNCHANGED <<truth, lost, twice, disconnects, pending, served, pc, books, health,
                     broken, written, stored, features>>
  BY DEF CandleConfirmed, service
<1>3. candles \in Nat /\ MaxCandles \in Nat
  BY <1>1 DEF Shapes, MarketAssumption
<1>4. Later
  <2>1. \A s \in Symbols : Version(s) \in Nat
    BY <1>1, Versioning
  <2>2. QED
    BY <1>2, <1>3, <2>1 DEF Later, Version
<1>5. PICK m : m = [kind |-> "kline", candle |-> candles + 1]
  OBVIOUS
<1>6. m \in Delivered'
  <2>1. m \in Messages /\ Messages' = Messages
    BY <1>3, <1>5 DEF Messages, Book
  <2>2. m.kind = "kline" /\ m.candle \in 1..candles'
    BY <1>2, <1>3, <1>5
  <2>3. Truthful(m)'
    BY <2>2 DEF Truthful
  <2>4. QED
    BY <2>1, <2>3 DEF Delivered
<1>7. queue' \in Seq(Delivered')
  <2>1. queue \in Seq(Delivered') /\ queue' = Append(queue, m)
    BY <1>1, <1>4, <1>5, StillTruthful DEF CandleConfirmed
  <2>2. QED
    BY <1>6, <2>1, Appending
<1>8. Shapes'
  BY <1>1, <1>2, <1>3 DEF Shapes, Version
<1>9. Bookkeeping'
  BY <1>1, <1>2, <1>3 DEF Bookkeeping, Known
<1>10. BookIsExchangeBook' /\ HealthyMeansTwoSided'
  BY <1>1, <1>2, SameBooks
<1>11. QED
  BY <1>7, <1>8, <1>9, <1>10 DEF MarketInv

-----------------------------------------------------------------------------
(* The worker's steps.                                                     *)

\* Before and after a connection: every book is empty or left behind.
LEMMA ConnectionInv ==
  ASSUME MarketInv, MarketAssumption, Connect \/ Disconnect
  PROVE  MarketInv'
<1>1. /\ Shapes /\ Bookkeeping /\ queue \in Seq(Delivered)
      /\ BookIsExchangeBook /\ HealthyMeansTwoSided
  BY DEF MarketInv
<1>2. /\ queue' = <<>> /\ pending' \subseteq Symbols /\ served' = {}
      /\ pc' \in {"connect", "recv"} /\ (pc' = "connect" => pending' = {} /\ written' = {})
      /\ written' \subseteq written
      /\ UNCHANGED <<truth, lost, twice, candles, stored, features>>
  BY DEF Connect, Disconnect, RollBack, exchange
<1>3. disconnects' \in 0..MaxDisconnects
  BY <1>1 DEF Connect, Disconnect, Bookkeeping, MarketAssumption
<1>4. queue' \in Seq(Delivered')
  BY <1>2
<1>5. CASE Connect
  <2>1. /\ books' = [s \in Symbols |-> NoBook] /\ health' = "stale" /\ broken' = {}
        /\ pc' = "recv"
    BY <1>5 DEF Connect
  <2>2. NoBook \in [levels : Book, id : Nat] /\ NoBook.id = 0
    BY DEF NoBook, Book
  <2>3. Shapes'
    <3>1. \A s \in Symbols : books'[s] = NoBook
      BY <2>1
    <3>2. \A s \in Symbols : books'[s].id <= Version(s)'
      BY <1>1, <1>2, <2>2, <3>1, Versioning DEF Version
    <3>3. QED
      BY <1>1, <1>2, <2>1, <2>2, <3>2 DEF Shapes, Version
  <2>4. Bookkeeping'
    BY <1>1, <1>2, <1>3, <2>1 DEF Bookkeeping
  <2>5. BookIsExchangeBook' /\ HealthyMeansTwoSided'
    BY <1>1, <1>2, <2>1, <2>2 DEF BookIsExchangeBook, HealthyMeansTwoSided, TwoSided
  <2>6. QED
    BY <1>4, <2>3, <2>4, <2>5 DEF MarketInv
<1>6. CASE Disconnect
  <2>1. UNCHANGED <<books, health, broken>> /\ pc' = "connect"
    BY <1>6 DEF Disconnect, service
  <2>2. Shapes' /\ Bookkeeping'
    BY <1>1, <1>2, <1>3, <2>1 DEF Shapes, Bookkeeping, Version, Known
  <2>3. BookIsExchangeBook' /\ HealthyMeansTwoSided'
    BY <1>1, <1>2, <2>1, SameBooks
  <2>4. QED
    BY <1>4, <2>2, <2>3 DEF MarketInv
<1>7. QED
  BY <1>5, <1>6

\* The watchdog sees no message.
LEMMA TimeoutInv ==
  ASSUME MarketInv, Timeout
  PROVE  MarketInv'
<1>1. /\ Shapes /\ Bookkeeping /\ queue \in Seq(Delivered)
      /\ BookIsExchangeBook /\ HealthyMeansTwoSided
  BY DEF MarketInv
<1>2. /\ health' = "stale"
      /\ UNCHANGED <<truth, lost, twice, candles, disconnects, pending, served, queue, pc,
                     books, broken, written, stored, features>>
  BY DEF Timeout, exchange, stream
<1>3. Delivered' = Delivered
  BY <1>1, <1>2, NothingNew
<1>4. Shapes' /\ Bookkeeping'
  BY <1>1, <1>2 DEF Shapes, Bookkeeping, Version, Known
<1>5. BookIsExchangeBook' /\ HealthyMeansTwoSided'
  BY <1>1, <1>2, SameBooks
<1>6. QED
  BY <1>1, <1>2, <1>3, <1>4, <1>5 DEF MarketInv

\* A book that is replaced by a version the exchange had: of a snapshot, or of a
\* delta that follows it.
LEMMA RebuiltInv ==
  ASSUME MarketInv, NEW s \in Symbols, NEW b \in [levels : Book, id : Nat],
         b.id <= Version(s), b.id > 0 => b.levels = truth[s][b.id],
         books' = [books EXCEPT ![s] = b], health' = Refreshed(books'),
         queue' = Tail(queue), queue # <<>>, pc = "recv", pc' = "handled",
         books[s].id > 0 => b.id > 0,
         broken' \subseteq Known',
         UNCHANGED <<exchange, disconnects, pending, served, written, stored, features>>
  PROVE  MarketInv'
<1>1. /\ Shapes /\ Bookkeeping /\ queue \in Seq(Delivered)
      /\ BookIsExchangeBook /\ HealthyMeansTwoSided
  BY DEF MarketInv
<1>2. UNCHANGED <<truth, lost, twice, candles>>
  BY DEF exchange
<1>3. /\ books' \in [Symbols -> [levels : Book, id : Nat]] /\ books'[s] = b
      /\ \A t \in Symbols \ {s} : books'[t] = books[t]
  BY <1>1 DEF Shapes
<1>4. Delivered' = Delivered
  BY <1>1, <1>2, NothingNew
<1>5. queue' \in Seq(Delivered')
  BY <1>1, <1>4, Taking
<1>6. health' \in {"stale", "healthy"}
  BY HealthTyped
<1>7. Shapes'
  <2>1. \A t \in Symbols : books'[t].id <= Version(t)
    BY <1>1, <1>3 DEF Shapes
  <2>2. QED
    BY <1>1, <1>2, <1>3, <1>6, <2>1 DEF Shapes, Version
<1>8. Bookkeeping'
  BY <1>1, <1>2 DEF Bookkeeping
<1>9. BookIsExchangeBook'
  <2>1. ASSUME NEW t \in Symbols, NEW c \in {books'[t], features'[t]}, c.id > 0
        PROVE  c.levels = truth[t][c.id]
    BY <1>1, <1>3, <2>1 DEF BookIsExchangeBook
  <2>2. QED
    BY <1>2, <2>1 DEF BookIsExchangeBook
<1>10. HealthyMeansTwoSided'
  <2>1. ASSUME health' = "healthy", NEW t \in Symbols, books'[t].id > 0
        PROVE  TwoSided(books'[t])
    BY <2>1, HealthJudged
  <2>2. \A t \in Symbols : features'[t].id > 0 => TwoSided(features'[t])
    BY <1>1 DEF HealthyMeansTwoSided
  <2>3. QED
    BY <2>1, <2>2 DEF HealthyMeansTwoSided, Known, TwoSided
<1>11. QED
  BY <1>5, <1>7, <1>8, <1>9, <1>10 DEF MarketInv

\* A snapshot replaces the worker's book.
LEMMA HandleSnapshotInv ==
  ASSUME MarketInv, HandleSnapshot
  PROVE  MarketInv'
<1>1. /\ Shapes /\ Bookkeeping /\ queue \in Seq(Delivered)
  BY DEF MarketInv
<1>2. PICK m : m = Head(queue)
  OBVIOUS
<1>3. queue # <<>> /\ m.kind = "snapshot" /\ pc = "recv" /\ pc' = "handled"
  BY <1>2 DEF HandleSnapshot, Handle
<1>4. m \in Delivered
  BY <1>1, <1>2, <1>3, Taking
<1>5. /\ m.symbol \in Symbols /\ m.levels \in Book /\ m.id \in Nat
      /\ m.id \in 1..Version(m.symbol) /\ m.levels = truth[m.symbol][m.id]
  BY <1>3, <1>4 DEF Delivered, Messages, Truthful
<1>6. PICK b \in [levels : Book, id : Nat] : b = [levels |-> m.levels, id |-> m.id]
  BY <1>5
<1>7. b.id = m.id /\ b.levels = m.levels /\ b.id > 0
  BY <1>5, <1>6
<1>8. b.id <= Version(m.symbol)
  BY <1>1, <1>5, <1>7, Versioning
<1>9. /\ books' = [books EXCEPT ![m.symbol] = b] /\ health' = Refreshed(books')
      /\ broken' = broken \ {m.symbol} /\ queue' = Tail(queue)
      /\ UNCHANGED <<exchange, disconnects, pending, served, written, stored, features>>
  BY <1>2, <1>6 DEF HandleSnapshot
<1>10. broken' \subseteq Known'
  BY <1>1, <1>9 DEF Bookkeeping, Known, Shapes
<1>11. QED
  BY <1>3, <1>5, <1>7, <1>8, <1>9, <1>10, RebuiltInv

\* A delta that continues the sequence is merged into the book it continues.
LEMMA HandleDeltaInv ==
  ASSUME MarketInv, HandleDelta
  PROVE  MarketInv'
<1>1. /\ Shapes /\ Bookkeeping /\ queue \in Seq(Delivered) /\ BookIsExchangeBook
  BY DEF MarketInv
<1>2. PICK m : m = Head(queue)
  OBVIOUS
<1>3. queue # <<>> /\ m.kind = "delta" /\ pc = "recv" /\ pc' = "handled" /\ ~Gap(m)
  BY <1>2 DEF HandleDelta, Handle
<1>4. m \in Delivered
  BY <1>1, <1>2, <1>3, Taking
<1>5. /\ m.symbol \in Symbols /\ m.level \in Levels /\ m.id \in Nat
      /\ m.id \in 2..Version(m.symbol)
      /\ truth[m.symbol][m.id] =
           IF m.there THEN truth[m.symbol][m.id - 1] \cup {m.level}
           ELSE truth[m.symbol][m.id - 1] \ {m.level}
  BY <1>3, <1>4 DEF Delivered, Messages, Truthful
<1>6. PICK c : c = books[m.symbol]
  OBVIOUS
<1>7. /\ c \in [levels : Book, id : Nat] /\ c.id > 0 /\ c.id <= Version(m.symbol)
      /\ c.levels = truth[m.symbol][c.id] /\ m.id <= c.id + 1
  <2>1. /\ c \in [levels : Book, id : Nat] /\ c.id \in Nat /\ c.id <= Version(m.symbol)
    BY <1>1, <1>5, <1>6 DEF Shapes
  <2>2. c.id # 0 /\ ~(m.id > c.id + 1)
    BY <1>3, <1>6 DEF Gap
  <2>3. c.levels = truth[m.symbol][c.id]
    BY <1>1, <1>5, <1>6, <2>1, <2>2 DEF BookIsExchangeBook
  <2>4. QED
    BY <1>5, <2>1, <2>2, <2>3
<1>8. PICK b : b = Applied(c, m)
  OBVIOUS
<1>9. /\ b \in [levels : Book, id : Nat] /\ b.id > 0 /\ b.id <= Version(m.symbol)
      /\ b.levels = truth[m.symbol][b.id]
  <2>1. CASE m.id <= c.id
    BY <1>7, <1>8, <2>1 DEF Applied
  <2>2. CASE ~(m.id <= c.id)
    <3>1. m.id = c.id + 1 /\ m.id - 1 = c.id
      BY <1>5, <1>7, <2>2
    <3>2. b = [levels |-> IF m.there THEN c.levels \cup {m.level} ELSE c.levels \ {m.level},
               id |-> m.id]
      BY <1>8, <2>2 DEF Applied
    <3>3. b.levels = truth[m.symbol][m.id] /\ b.id = m.id
      BY <1>5, <1>7, <3>1, <3>2
    <3>4. b.levels \in Book
      BY <1>5, <1>7, <3>2 DEF Book
    <3>5. b.id > 0 /\ b.id <= Version(m.symbol)
      BY <1>1, <1>5, <3>3, Versioning
    <3>6. QED
      BY <1>5, <3>2, <3>3, <3>4, <3>5
  <2>3. QED
    BY <2>1, <2>2
<1>10. /\ books' = [books EXCEPT ![m.symbol] = b] /\ health' = Refreshed(books')
       /\ queue' = Tail(queue) /\ broken' = broken
       /\ UNCHANGED <<exchange, disconnects, pending, served, written, stored, features>>
  BY <1>2, <1>6, <1>8 DEF HandleDelta
<1>11. broken' \subseteq Known'
  BY <1>1, <1>5, <1>9, <1>10 DEF Bookkeeping, Known, Shapes
<1>12. QED
  BY <1>3, <1>5, <1>9, <1>10, <1>11, RebuiltInv

\* A delta that does not only asks for a new snapshot.
LEMMA HandleGapInv ==
  ASSUME MarketInv, HandleGap
  PROVE  MarketInv'
<1>1. /\ Shapes /\ Bookkeeping /\ queue \in Seq(Delivered)
      /\ BookIsExchangeBook /\ HealthyMeansTwoSided
  BY DEF MarketInv
<1>2. PICK m : m = Head(queue)
  OBVIOUS
<1>3. /\ queue # <<>> /\ m.kind = "delta" /\ pc = "recv" /\ pc' = "handled"
      /\ health' = "stale" /\ pending' = pending \cup {m.symbol} /\ queue' = Tail(queue)
      /\ broken' = IF books[m.symbol].id = 0 THEN broken ELSE broken \cup {m.symbol}
      /\ UNCHANGED <<truth, lost, twice, candles, disconnects, served, books, written,
                     stored, features>>
  BY <1>2 DEF HandleGap, Handle, Resubscribe, exchange
<1>4. m.symbol \in Symbols
  BY <1>1, <1>2, <1>3, Taking DEF Delivered, Messages
<1>5. queue' \in Seq(Delivered')
  BY <1>1, <1>3, NothingNew, Taking
<1>6. Shapes'
  BY <1>1, <1>3, <1>4 DEF Shapes, Version
<1>7. Bookkeeping'
  <2>1. broken' \subseteq Known'
    BY <1>1, <1>3, <1>4 DEF Bookkeeping, Known, Shapes
  <2>2. QED
    BY <1>1, <1>3, <2>1 DEF Bookkeeping
<1>8. BookIsExchangeBook' /\ HealthyMeansTwoSided'
  BY <1>1, <1>3, SameBooks
<1>9. QED
  BY <1>5, <1>6, <1>7, <1>8 DEF MarketInv

\* A candle is written and changes no book.
LEMMA HandleKlineInv ==
  ASSUME MarketInv, HandleKline
  PROVE  MarketInv'
<1>1. /\ Shapes /\ Bookkeeping /\ queue \in Seq(Delivered)
      /\ BookIsExchangeBook /\ HealthyMeansTwoSided
  BY DEF MarketInv
<1>2. PICK m : m = Head(queue)
  OBVIOUS
<1>3. /\ queue # <<>> /\ m.kind = "kline" /\ pc = "recv" /\ pc' = "handled"
      /\ written' = written \cup {m.candle} /\ queue' = Tail(queue)
      /\ UNCHANGED <<truth, lost, twice, candles, disconnects, pending, served, books,
                     health, broken, stored, features>>
  BY <1>2 DEF HandleKline, Handle, Upsert, exchange, service
<1>4. m.candle \in 1..candles
  <2>1. m \in Delivered
    BY <1>1, <1>2, <1>3, Taking
  <2>2. QED
    BY <1>3, <2>1 DEF Delivered, Truthful
<1>5. queue' \in Seq(Delivered')
  BY <1>1, <1>3, NothingNew, Taking
<1>6. Shapes'
  BY <1>1, <1>3 DEF Shapes, Version
<1>7. Bookkeeping'
  BY <1>1, <1>3, <1>4 DEF Bookkeeping, Known
<1>8. BookIsExchangeBook' /\ HealthyMeansTwoSided'
  BY <1>1, <1>3, SameBooks
<1>9. QED
  BY <1>5, <1>6, <1>7, <1>8 DEF MarketInv

\* The end of the loop body takes features of the books as they are.
LEMMA LoopEndsInv ==
  ASSUME MarketInv, LoopEnds
  PROVE  MarketInv'
<1>1. /\ Shapes /\ Bookkeeping /\ queue \in Seq(Delivered)
      /\ BookIsExchangeBook /\ HealthyMeansTwoSided
  BY DEF MarketInv
<1>2. /\ pc = "handled" /\ pc' = "recv" /\ health' = Refreshed(books)
      /\ UNCHANGED <<truth, lost, twice, candles, disconnects, pending, served, queue,
                     books, broken>>
      /\ AggregateFeatures \/ features' = features
      /\ \/ written' = {} /\ stored' = stored \cup written
         \/ UNCHANGED <<stored, written>>
  BY DEF LoopEnds, Commit, RefreshHealth, exchange, stream
<1>3. queue' \in Seq(Delivered')
  BY <1>1, <1>2, NothingNew
<1>4. ASSUME NEW s \in Symbols
      PROVE  \/ features'[s] = features[s]
             \/ features'[s] = books[s] /\ TwoSided(books[s])
  BY <1>1, <1>2 DEF AggregateFeatures
<1>5. features' \in [Symbols -> [levels : Book, id : Nat]]
  BY <1>1, <1>2 DEF AggregateFeatures, Shapes
<1>6. health' \in {"stale", "healthy"}
  BY <1>2, HealthTyped
<1>7. Shapes'
  <2>1. \A s \in Symbols : features'[s].id <= Version(s)
    BY <1>1, <1>4 DEF Shapes
  <2>2. QED
    BY <1>1, <1>2, <1>5, <1>6, <2>1 DEF Shapes, Version
<1>8. Bookkeeping'
  BY <1>1, <1>2 DEF Bookkeeping, Known
<1>9. BookIsExchangeBook'
  BY <1>1, <1>2, <1>4 DEF BookIsExchangeBook
<1>10. HealthyMeansTwoSided'
  <2>1. ASSUME health' = "healthy", NEW s \in Symbols, books[s].id > 0
        PROVE  TwoSided(books[s])
    BY <1>2, <2>1, HealthJudged
  <2>2. ASSUME NEW s \in Symbols, features'[s].id > 0
        PROVE  TwoSided(features'[s])
    BY <1>1, <1>4, <2>2 DEF HealthyMeansTwoSided
  <2>3. QED
    BY <1>2, <2>1, <2>2 DEF HealthyMeansTwoSided, Known, TwoSided
<1>11. QED
  BY <1>3, <1>7, <1>8, <1>9, <1>10 DEF MarketInv

-----------------------------------------------------------------------------

\* The worker starts with no book.
LEMMA MarketInit == MarketAssumption /\ Init => MarketInv
<1> SUFFICES ASSUME MarketAssumption, Init PROVE MarketInv
  OBVIOUS
<1>1. Levels \in Book /\ NoBook \in [levels : Book, id : Nat] /\ NoBook.id = 0
  BY DEF Book, NoBook
<1>2. /\ truth = [s \in Symbols |-> <<Levels>>] /\ books = [s \in Symbols |-> NoBook]
      /\ features = [s \in Symbols |-> NoBook]
  BY DEF Init
<1>3. truth \in [Symbols -> Seq(Book)]
  <2>1. <<Levels>> \in Seq(Book)
    BY <1>1
  <2>2. QED
    BY <1>2, <2>1
<1>4. \A s \in Symbols : Version(s) = 1 /\ books[s] = NoBook /\ features[s] = NoBook
  BY <1>2 DEF Version
<1>5. Shapes
  <2>1. \A s \in Symbols :
          /\ 1 <= Version(s) /\ Version(s) <= MaxUpdates[s] + 1
          /\ books[s].id <= Version(s) /\ features[s].id <= Version(s)
    <3>1. \A s \in Symbols : MaxUpdates[s] \in Nat
      BY DEF MarketAssumption
    <3>2. QED
      BY <1>1, <1>4, <3>1
  <2>2. candles \in 0..MaxCandles
    BY DEF Init, MarketAssumption
  <2>3. QED
    BY <1>1, <1>2, <1>3, <2>1, <2>2 DEF Init, Shapes
<1>6. Bookkeeping
  BY DEF Init, Bookkeeping, MarketAssumption
<1>7. BookIsExchangeBook /\ HealthyMeansTwoSided
  BY <1>1, <1>4 DEF Init, BookIsExchangeBook, HealthyMeansTwoSided
<1>8. queue \in Seq(Delivered)
  BY DEF Init
<1>9. QED
  BY <1>5, <1>6, <1>7, <1>8 DEF MarketInv

\* Every step keeps the invariant.
LEMMA MarketNext == MarketAssumption /\ MarketInv /\ [Next]_vars => MarketInv'
<1> SUFFICES ASSUME MarketAssumption, MarketInv, [Next]_vars PROVE MarketInv'
  OBVIOUS
<1>1. CASE Exchange
  BY <1>1, BookChangesInv, ServeSubscriptionInv, CandleConfirmedInv DEF Exchange
<1>2. CASE Step
  BY <1>2, ConnectionInv, HandleSnapshotInv, HandleDeltaInv, HandleGapInv, HandleKlineInv,
     LoopEndsInv DEF Step
<1>3. CASE Timeout \/ Disconnect
  BY <1>3, TimeoutInv, ConnectionInv
<1>4. CASE UNCHANGED vars
  <2>1. /\ UNCHANGED <<truth, lost, twice, candles, disconnects, pending, served, queue, pc,
                       books, health, broken>>
        /\ UNCHANGED <<written, stored, features>>
    BY <1>4 DEF vars, exchange, stream, service
  <2>2. /\ Shapes /\ Bookkeeping /\ queue \in Seq(Delivered)
        /\ BookIsExchangeBook /\ HealthyMeansTwoSided
    BY DEF MarketInv
  <2>3. queue' \in Seq(Delivered')
    BY <2>1, <2>2, NothingNew
  <2>4. Shapes' /\ Bookkeeping'
    BY <2>1, <2>2 DEF Shapes, Bookkeeping, Version, Known
  <2>5. BookIsExchangeBook' /\ HealthyMeansTwoSided'
    BY <2>1, <2>2, SameBooks
  <2>6. QED
    BY <2>3, <2>4, <2>5 DEF MarketInv
<1>5. QED
  BY <1>1, <1>2, <1>3, <1>4 DEF Next

\* Whatever the stream does (MarketDataService._handle_event, apply_delta): a local
\* book and the book of a feature row are, level by level, the version of the
\* exchange's book they claim to be; HEALTHY books and stored features are two-sided.
THEOREM BooksStayReal == Spec => []BooksAreReal
<1>1. MarketInv => BooksAreReal
  <2> SUFFICES ASSUME MarketInv PROVE BooksAreReal
    OBVIOUS
  <2>1. /\ Shapes /\ Bookkeeping /\ BookIsExchangeBook /\ HealthyMeansTwoSided
        /\ MaxUpdates \in [Symbols -> Nat]
    BY MarketAssumption DEF MarketInv, MarketAssumption
  <2>2. ASSUME NEW s \in Symbols
        PROVE  /\ truth[s] \in Seq(Book) /\ Version(s) \in Versions(s)
               /\ IsBook(books[s], s) /\ IsBook(features[s], s)
    <3>1. /\ truth[s] \in Seq(Book) /\ Version(s) \in Nat /\ MaxUpdates[s] \in Nat
          /\ Version(s) <= MaxUpdates[s] + 1
      BY <2>1, Versioning DEF Shapes
    <3>2. /\ books[s].levels \in Book /\ books[s].id \in Nat /\ books[s].id <= Version(s)
          /\ features[s].levels \in Book /\ features[s].id \in Nat
          /\ features[s].id <= Version(s)
      BY <2>1 DEF Shapes
    <3>3. QED
      BY <3>1, <3>2 DEF Versions, IsBook
  <2>3. TypeOK
    BY <2>1, <2>2 DEF TypeOK, Shapes, Bookkeeping
  <2>4. QED
    BY <2>1, <2>3 DEF BooksAreReal
<1>2. QED
  BY <1>1, MarketInit, MarketNext, MarketAssumption, PTL DEF Spec

=============================================================================
