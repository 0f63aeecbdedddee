---------------------------- MODULE ResearchProofs -----------------------------
(***************************************************************************)
(* What holds of the research tools whatever is started, killed, repeated  *)
(* or held: the promotion of a strategy, the gold layer and its readers,   *)
(* the evaluations of the lab and the guards between its splits.           *)
(***************************************************************************)
EXTENDS Lab, Promotion, Gold, FiniteSetTheorems, WellFoundedInduction, TLAPS

-----------------------------------------------------------------------------
(* The promotion.                                                          *)

StateNames == {"DRAFT", "PARITY_PASSED", "ROBUSTNESS_PASSED", "HOLDOUT_READY"}
Reasons == {"parity", "edge", "approved", "research-note"}
Entries == [origin : StateNames, target : StateNames, reason : Reasons]
Objects == [state : StateNames, history : Seq(Entries), sealed : BOOLEAN]

\* Every object in a process came from create, load or a step, so its seal is
\* right; a file may have been edited, and then its seal is wrong.
HistoriesEarned ==
  /\ held \in [Holders -> Objects \cup {Absent}]
  /\ state_file \in Objects \cup {Absent, Torn}
  /\ \A h \in Holders : held[h] # Absent => held[h].sealed /\ Earned(held[h])
  /\ state_file \notin {Absent, Torn} => (state_file.sealed => Earned(state_file))

\* An object is neither a missing file nor a torn one.
LEMMA ObjectsAreContent == \A p \in Objects : p \notin {Absent, Torn}
  BY DEF Objects, Absent, Torn

\* The names of the states are told apart by their places.
LEMMA StatesInOrder ==
  /\ DOMAIN States = 1..4
  /\ States[1] = "DRAFT" /\ States[2] = "PARITY_PASSED"
  /\ States[3] = "ROBUSTNESS_PASSED" /\ States[4] = "HOLDOUT_READY"
  /\ \A i \in 1..4 : States[i] \in StateNames
  /\ \A i, j \in 1..4 : States[i] = States[j] => i = j
<1>1. DOMAIN States = 1..4 /\ 1..4 = {1, 2, 3, 4}
  BY DEF States
<1>2. /\ States[1] = "DRAFT" /\ States[2] = "PARITY_PASSED"
      /\ States[3] = "ROBUSTNESS_PASSED" /\ States[4] = "HOLDOUT_READY"
  BY DEF States
<1>3. QED
  BY <1>1, <1>2 DEF StateNames

\* A state's rank is its place in the order.
LEMMA RankOfState == \A i \in 1..4 : Rank(States[i]) = i
<1> TAKE i \in 1..4
<1> HIDE DEF States
<1>1. Rank(States[i]) \in 1..4 /\ States[Rank(States[i])] = States[i]
  BY StatesInOrder DEF Rank
<1>2. QED
  BY <1>1, StatesInOrder

\* A new entry above all others earns the state it leads to.
LEMMA PromotionEarns ==
  ASSUME NEW p \in Objects, Earned(p),
         NEW b \in 1..3, p.state = States[b],
         NEW reason \in Reasons, reason # "research-note",
         NEW q \in Objects, q.state = States[b + 1],
         q.history = Append(p.history, [origin |-> States[b], target |-> States[b + 1],
                                        reason |-> reason])
  PROVE  Earned(q)
<1> DEFINE entry == [origin |-> States[b], target |-> States[b + 1], reason |-> reason]
           n == Len(p.history)
           promoted(r) == { i \in DOMAIN r.history : Promotes(r.history[i]) }
<1>1. /\ p.history \in Seq(Entries) /\ n \in Nat /\ entry \in Entries
      /\ b \in 1..4 /\ b + 1 \in 1..4
  BY StatesInOrder DEF Objects, Entries
<1>2. /\ DOMAIN q.history = 1..(n + 1) /\ q.history[n + 1] = entry
      /\ \A i \in 1..n : q.history[i] = p.history[i]
      /\ DOMAIN p.history = 1..n
  BY <1>1
<1>3. Promotes(entry) /\ FromTo(entry, b) /\ entry.origin = States[b]
  BY DEF Promotes, FromTo
<1>4. Rank(p.state) = b /\ Rank(q.state) = b + 1 /\ Rank(entry.origin) = b
  BY RankOfState, <1>1, <1>3
<1> HIDE DEF entry, n
<1>5. promoted(q) = promoted(p) \cup {n + 1}
  BY <1>1, <1>2, <1>3
<1>6. /\ \A c \in 1..(b - 1) : \E i \in promoted(p) : FromTo(p.history[i], c)
      /\ \A i \in promoted(p) : \E c \in 1..(b - 1) : FromTo(p.history[i], c)
      /\ \A i, j \in promoted(p) :
           i < j => Rank(p.history[i].origin) < Rank(p.history[j].origin)
  BY <1>4 DEF Earned
<1>7. \A i \in promoted(p) : i \in 1..n /\ q.history[i] = p.history[i]
  BY <1>2
<1>8. \A i \in promoted(p) : Rank(q.history[i].origin) < b
  <2> TAKE i \in promoted(p)
  <2>1. PICK c \in 1..(b - 1) : FromTo(p.history[i], c)
    BY <1>6
  <2>2. Rank(p.history[i].origin) = c
    BY <2>1, RankOfState DEF FromTo
  <2>3. QED
    BY <2>1, <2>2, <1>7
<1>9. q.history[n + 1] = entry
  BY <1>2
<1> HIDE DEF promoted
<1>10. \A c \in 1..b : \E i \in promoted(q) : FromTo(q.history[i], c)
  <2> TAKE c \in 1..b
  <2>1. CASE c = b
    BY <2>1, <1>3, <1>5, <1>9
  <2>2. CASE c # b
    <3>1. c \in 1..(b - 1)
      BY <2>2
    <3>2. PICK i \in promoted(p) : FromTo(p.history[i], c)
      BY <3>1, <1>6
    <3>3. i \in promoted(q) /\ q.history[i] = p.history[i]
      BY <1>5, <1>7
    <3>4. QED
      BY <3>2, <3>3
  <2>3. QED
    BY <2>1, <2>2
<1>11. \A i \in promoted(q) : \E c \in 1..b : FromTo(q.history[i], c)
  <2> TAKE i \in promoted(q)
  <2>1. CASE i = n + 1
    <3>1. FromTo(q.history[i], b)
      BY <2>1, <1>3, <1>9
    <3>2. b \in 1..b
      OBVIOUS
    <3>3. QED
      BY <3>1, <3>2
  <2>2. CASE i # n + 1
    <3>1. i \in promoted(p) /\ q.history[i] = p.history[i]
      BY <2>2, <1>5, <1>7
    <3>2. PICK c \in 1..(b - 1) : FromTo(p.history[i], c)
      BY <3>1, <1>6
    <3>3. c \in 1..b
      OBVIOUS
    <3>4. QED
      BY <3>1, <3>2, <3>3
  <2>3. QED
    BY <2>1, <2>2
<1>12. \A i, j \in promoted(q) :
         i < j => Rank(q.history[i].origin) < Rank(q.history[j].origin)
  <2> TAKE i, j \in promoted(q)
  <2> HAVE i < j
  <2>1. i \in promoted(p) /\ i \in 1..n /\ q.history[i] = p.history[i]
    <3>1. j \in 1..(n + 1)
      <4>1. j = n + 1 \/ j \in 1..n
        BY <1>5, <1>7
      <4>2. QED
        BY <4>1, <1>1
    <3>2. i # n + 1
      BY <3>1, <1>1
    <3>3. QED
      BY <3>2, <1>5, <1>7
  <2>2. CASE j = n + 1
    BY <2>1, <2>2, <1>4, <1>8, <1>9
  <2>3. CASE j \in promoted(p)
    BY <2>1, <2>3, <1>6, <1>7
  <2>4. QED
    BY <2>2, <2>3, <1>5
<1>13. /\ \A c \in 1..(Rank(q.state) - 1) : \E i \in promoted(q) : FromTo(q.history[i], c)
       /\ \A i \in promoted(q) :
            \E c \in 1..(Rank(q.state) - 1) : FromTo(q.history[i], c)
  <2>1. Rank(q.state) - 1 = b
    BY <1>4
  <2>2. QED
    BY <2>1, <1>10, <1>11
<1>14. QED
  BY <1>12, <1>13 DEF Earned, promoted

\* A research note earns nothing and takes nothing away.
LEMMA NoteKeepsEarned ==
  ASSUME NEW p \in Objects, Earned(p), NEW q \in Objects, q.state = p.state,
         NEW entry \in Entries, entry.reason = "research-note",
         q.history = Append(p.history, entry)
  PROVE  Earned(q)
<1> DEFINE n == Len(p.history)
           promoted(r) == { i \in DOMAIN r.history : Promotes(r.history[i]) }
<1>1. p.history \in Seq(Entries) /\ n \in Nat
  BY DEF Objects
<1>2. /\ DOMAIN q.history = 1..(n + 1) /\ q.history[n + 1] = entry
      /\ \A i \in 1..n : q.history[i] = p.history[i]
      /\ DOMAIN p.history = 1..n
  BY <1>1
<1>3. promoted(q) = promoted(p)
  BY <1>1, <1>2 DEF Promotes
<1>4. \A i \in promoted(p) : q.history[i] = p.history[i]
  BY <1>2
<1> HIDE DEF promoted
<1>5. QED
  BY <1>3, <1>4 DEF Earned, promoted

\* An object without history has earned the first state.
LEMMA DraftEarned ==
  ASSUME NEW p \in Objects, p.state = "DRAFT", p.history = <<>>
  PROVE  Earned(p)
<1>1. Rank(p.state) = 1
  <2>1. p.state = States[1]
    BY DEF States
  <2>2. QED
    BY <2>1, RankOfState
<1>2. DOMAIN p.history = {}
  OBVIOUS
<1>3. QED
  BY <1>1, <1>2 DEF Earned

\* What is persisted is earned and sealed, or the file is torn and the object gone.
LEMMA PersistEarned ==
  ASSUME HistoriesEarned, NEW h \in Holders, NEW p \in Objects,
         p.sealed, Earned(p), Persist(h, p)
  PROVE  HistoriesEarned'
<1>1. CASE state_file' = p /\ held' = [held EXCEPT ![h] = p]
  <2>1. held' \in [Holders -> Objects \cup {Absent}]
    BY <1>1 DEF HistoriesEarned
  <2>2. \A g \in Holders : held'[g] # Absent => held'[g].sealed /\ Earned(held'[g])
    BY <1>1 DEF HistoriesEarned
  <2>3. QED
    BY <1>1, <2>1, <2>2 DEF HistoriesEarned, Earned
<1>2. CASE state_file' = Torn /\ held' = [held EXCEPT ![h] = Absent]
  <2>1. held' \in [Holders -> Objects \cup {Absent}]
    BY <1>2 DEF HistoriesEarned
  <2>2. \A g \in Holders : held'[g] # Absent => held'[g].sealed /\ Earned(held'[g])
    BY <1>2 DEF HistoriesEarned
  <2>3. QED
    BY <1>2, <2>1, <2>2 DEF HistoriesEarned, Earned
<1>3. QED
  BY <1>1, <1>2 DEF Persist

\* An accepted step from one state to the next.
LEMMA StepEarned ==
  ASSUME HistoriesEarned, NEW h \in Holders, NEW b \in 1..3, NEW reason \in Reasons,
         reason # "research-note",
         NEW below, NEW above, below = States[b], above = States[b + 1],
         DemandState(h, below), Step(h, above, reason)
  PROVE  HistoriesEarned'
<1> DEFINE entry == [origin |-> held[h].state, target |-> above,
                     reason |-> reason]
           next == [state |-> above, sealed |-> TRUE,
                    history |-> Append(held[h].history, entry)]
<1>1. held[h] \in Objects /\ Earned(held[h]) /\ held[h].state = States[b]
  BY DEF HistoriesEarned, DemandState
<1>2. States[b] \in StateNames /\ States[b + 1] \in StateNames
  BY StatesInOrder
<1>3. held[h].history \in Seq(Entries) /\ entry \in Entries
  BY <1>1, <1>2 DEF Objects, Entries
<1>4. Append(held[h].history, entry) \in Seq(Entries)
  BY <1>3
<1>5. next \in Objects
  BY <1>2, <1>4 DEF Objects
<1>6. Persist(h, next)
  BY DEF Step
<1>7. next.state = States[b + 1] /\ next.sealed
      /\ next.history = Append(held[h].history,
           [origin |-> States[b], target |-> States[b + 1], reason |-> reason])
  BY <1>1
<1> HIDE DEF next, entry
<1>8. Earned(next)
  BY <1>1, <1>5, <1>7, PromotionEarns
<1>9. QED
  BY <1>5, <1>6, <1>7, <1>8, PersistEarned

\* No strategy exists at the start.
LEMMA InitEarned == PromotionInit => HistoriesEarned
  BY DEF PromotionInit, HistoriesEarned

\* A strategy is created at the first rank, with an empty history.
LEMMA CreateEarned ==
  ASSUME HistoriesEarned, NEW h \in Holders, Create(h)
  PROVE  HistoriesEarned'
<1> DEFINE draft == [state |-> "DRAFT", history |-> <<>>, sealed |-> TRUE]
<1>1. draft \in Objects
  BY DEF Objects, StateNames
<1>2. draft.state = "DRAFT" /\ draft.history = <<>> /\ draft.sealed
  OBVIOUS
<1>3. Persist(h, draft)
  BY DEF Create
<1> HIDE DEF draft
<1>4. QED
  BY <1>1, <1>2, <1>3, DraftEarned, PersistEarned

\* A research note changes no rank.
LEMMA NoteEarned ==
  ASSUME HistoriesEarned, NEW h \in Holders, AddResearchNote(h)
  PROVE  HistoriesEarned'
<1> DEFINE entry == [origin |-> held[h].state, target |-> held[h].state,
                     reason |-> "research-note"]
           next == [state |-> held[h].state, sealed |-> TRUE,
                    history |-> Append(held[h].history, entry)]
<1>1. held[h] \in Objects /\ Earned(held[h])
  BY DEF HistoriesEarned, AddResearchNote
<1>2. held[h].state \in StateNames /\ held[h].history \in Seq(Entries) /\ entry \in Entries
  <2>1. held[h].state \in StateNames /\ held[h].history \in Seq(Entries)
    BY <1>1 DEF Objects
  <2>2. QED
    BY <2>1 DEF Entries, Reasons
<1>3. Append(held[h].history, entry) \in Seq(Entries)
  BY <1>2
<1>4. next \in Objects
  BY <1>2, <1>3 DEF Objects
<1>5. Persist(h, next)
  BY DEF AddResearchNote, Step
<1>6. next.state = held[h].state /\ next.sealed /\ entry.reason = "research-note"
      /\ next.history = Append(held[h].history, entry)
  OBVIOUS
<1> HIDE DEF next, entry
<1>7. Earned(next)
  BY <1>1, <1>2, <1>4, <1>6, NoteKeepsEarned
<1>8. QED
  BY <1>4, <1>5, <1>6, <1>7, PersistEarned

\* Every step keeps what objects have earned.
LEMMA NextEarned ==
  ASSUME HistoriesEarned, [PromotionNext]_promotionVars
  PROVE  HistoriesEarned'
<1>1. CASE \E h \in Holders : Create(h)
  BY <1>1, CreateEarned
<1>2. ASSUME NEW h \in Holders, Load(h)
      PROVE  HistoriesEarned'
  <2>1. state_file \in Objects /\ state_file.sealed /\ Earned(state_file)
    BY <1>2 DEF Load, SealMatches, HistoriesEarned
  <2>2. QED
    BY <1>2, <2>1 DEF Load, HistoriesEarned, Earned
<1>3. CASE \E h \in Holders : AddResearchNote(h)
  BY <1>3, NoteEarned
<1>4. ASSUME NEW h \in Holders, Drop(h)
      PROVE  HistoriesEarned'
  BY <1>4 DEF Drop, HistoriesEarned, Earned
<1>5. ASSUME NEW h \in Holders, NEW e, AdvanceToParity(h, e)
      PROVE  HistoriesEarned'
  <2>1. DemandState(h, "DRAFT") /\ Step(h, "PARITY_PASSED", "parity")
    BY <1>5 DEF AdvanceToParity
  <2>2. States[1] = "DRAFT" /\ States[1 + 1] = "PARITY_PASSED" /\ 1 \in 1..3
    BY StatesInOrder, 1 + 1 = 2
  <2>3. QED
    BY <2>1, <2>2, StepEarned DEF Reasons
<1>6. ASSUME NEW h \in Holders, NEW e, AdvanceToRobustness(h, e)
      PROVE  HistoriesEarned'
  <2>1. DemandState(h, "PARITY_PASSED") /\ Step(h, "ROBUSTNESS_PASSED", "edge")
    BY <1>6 DEF AdvanceToRobustness
  <2>2. States[2] = "PARITY_PASSED" /\ States[2 + 1] = "ROBUSTNESS_PASSED" /\ 2 \in 1..3
    BY StatesInOrder, 2 + 1 = 3
  <2>3. QED
    BY <2>1, <2>2, StepEarned DEF Reasons
<1>7. ASSUME NEW h \in Holders, NEW e, AdvanceToHoldoutReady(h, e)
      PROVE  HistoriesEarned'
  <2>1. DemandState(h, "ROBUSTNESS_PASSED") /\ Step(h, "HOLDOUT_READY", "approved")
    BY <1>7 DEF AdvanceToHoldoutReady
  <2>2. States[3] = "ROBUSTNESS_PASSED" /\ States[3 + 1] = "HOLDOUT_READY" /\ 3 \in 1..3
    BY StatesInOrder, 3 + 1 = 4
  <2>3. QED
    BY <2>1, <2>2, StepEarned DEF Reasons
<1>8. ASSUME NEW i \in DOMAIN States, EditByHand(States[i])
      PROVE  HistoriesEarned'
  <2>1. state_file \in Objects /\ States[i] \in StateNames
    BY <1>8, StatesInOrder DEF EditByHand, HistoriesEarned
  <2>2. state_file' \in Objects /\ ~state_file'.sealed
    BY <1>8, <2>1 DEF EditByHand, Objects
  <2>3. QED
    BY <1>8, <2>2 DEF EditByHand, HistoriesEarned, Earned
<1>9. CASE RemoveTorn
  BY <1>9 DEF RemoveTorn, HistoriesEarned, Earned
<1>10. CASE UNCHANGED promotionVars
  BY <1>10 DEF promotionVars, HistoriesEarned, Earned
<1>11. QED
  BY <1>1, <1>2, <1>3, <1>4, <1>5, <1>6, <1>7, <1>8, <1>9, <1>10 DEF PromotionNext

\* Whoever loads, steps, drops and is killed in whatever order, from whatever
\* old object, and however often the file is edited by hand: an object, or a file
\* with its seal, has one accepted entry for every state below its own, in order.
THEOREM OnlyEarnedPromotions == PromotionSpec => []PromotionsAreEarned
<1>1. HistoriesEarned => PromotionsAreEarned
  BY DEF HistoriesEarned, PromotionsAreEarned
<1>2. QED
  BY <1>1, InitEarned, NextEarned, PTL DEF PromotionSpec

-----------------------------------------------------------------------------
(* The gold layer.                                                         *)

\* Hashes of the files of some days, and what is made of them.
Versions == UNION { [days -> Nat] : days \in SUBSET GoldDays }
DatasetIds == [trades : Versions, candles : Versions]
Payloads == [id : DatasetIds, trades : Versions, candles : Versions]
Goals == {"ledger", "artifacts"}

\* A candle file records the trades it was made from, and is that or damaged.
CandlesRecorded ==
  /\ trades \in [GoldDays -> [content : Nat, recorded : Nat]]
  /\ candles \in [GoldDays -> [content : Nat, recorded : Nat, source : Nat]]
  /\ \A d \in GoldDays : candles[d].recorded = candles[d].source

Builders ==
  {Idle} \cup [stage : {"candles"}, trades : Versions]
         \cup [stage : {"publish"}, id : DatasetIds]
OneMarket(id) == id \in DatasetIds /\ id.trades = id.candles

\* What create_dataset is about to publish and what it has published joins trades
\* with their own candles.
DatasetsJoined ==
  /\ CandlesRecorded
  /\ builder \in Builders
  /\ builder.stage = "publish" => OneMarket(builder.id)
  /\ \A id \in DOMAIN gold : OneMarket(id)

\* The hashes of files that hold versions.
LEMMA HashesAreVersions ==
  ASSUME NEW files, NEW days \in SUBSET GoldDays,
         \A d \in days : files[d].content \in Nat
  PROVE  Hashes(files, days) \in Versions /\ DOMAIN Hashes(files, days) = days
<1>1. Hashes(files, days) \in [days -> Nat]
  BY DEF Hashes
<1>2. QED
  BY <1>1 DEF Versions, Hashes

\* The days of some hashes are days of silver.
LEMMA VersionsHaveDays == \A v \in Versions : DOMAIN v \in SUBSET GoldDays
  BY DEF Versions

\* Intact candles with the right lineage have the hashes of the trades they were
\* made from.
LEMMA LineageJoins ==
  ASSUME CandlesRecorded, NEW hashes \in Versions,
         Intact(candles, DOMAIN hashes), LineageMatches(candles, hashes)
  PROVE  OneMarket(DatasetId(hashes, Hashes(candles, DOMAIN hashes)))
<1> DEFINE days == DOMAIN hashes
<1>1. PICK some \in SUBSET GoldDays : hashes \in [some -> Nat]
  BY DEF Versions
<1>2. days \in SUBSET GoldDays /\ hashes = [ d \in days |-> hashes[d] ]
  BY <1>1
<1>3. \A d \in days : candles[d].content = hashes[d]
  BY <1>2 DEF CandlesRecorded, Intact, LineageMatches
<1>4. Hashes(candles, days) = hashes
  BY <1>2, <1>3 DEF Hashes
<1>5. QED
  BY <1>4 DEF OneMarket, DatasetId, DatasetIds

\* What a builder carries at each stage.
LEMMA BuilderStages ==
  ASSUME builder \in Builders
  PROVE  /\ builder.stage = "candles" => builder \in [stage : {"candles"}, trades : Versions]
         /\ builder.stage = "publish" => builder \in [stage : {"publish"}, id : DatasetIds]
  BY DEF Builders, Idle

\* No dataset exists at the start.
LEMMA InitJoined == GoldInit => DatasetsJoined
<1> SUFFICES ASSUME GoldInit PROVE DatasetsJoined
  OBVIOUS
<1>1. CandlesRecorded
  BY DEF GoldInit, CandlesRecorded
<1>2. builder \in Builders /\ builder.stage # "publish"
  BY DEF GoldInit, Builders, Idle
<1>3. DOMAIN gold = {}
  BY DEF GoldInit
<1>4. QED
  BY <1>1, <1>2, <1>3 DEF DatasetsJoined

\* What leaves builder and datasets alone keeps them joined.
LEMMA UntouchedJoined ==
  ASSUME DatasetsJoined, CandlesRecorded', builder' = builder \/ builder' = Idle,
         gold' = gold
  PROVE  DatasetsJoined'
<1>1. Idle \in Builders /\ Idle.stage # "publish"
  BY DEF Builders, Idle
<1>2. builder' \in Builders
  BY <1>1 DEF DatasetsJoined
<1>3. builder'.stage = "publish" => OneMarket(builder'.id)
  BY <1>1 DEF DatasetsJoined
<1>4. QED
  BY <1>2, <1>3 DEF DatasetsJoined, Builders, OneMarket

\* Silver files change after a dataset was built from them.
LEMMA SilverRecorded ==
  ASSUME CandlesRecorded, SilverChanges
  PROVE  CandlesRecorded'
<1>1. ASSUME NEW d \in GoldDays, RebuildTrades(d)
      PROVE  CandlesRecorded'
  <2> DEFINE file == [content |-> trades[d].recorded + 1, recorded |-> trades[d].recorded + 1]
  <2>1. trades' = [trades EXCEPT ![d] = file] /\ candles' = candles
    BY <1>1 DEF RebuildTrades
  <2>2. file \in [content : Nat, recorded : Nat]
    BY DEF CandlesRecorded
  <2> HIDE DEF file
  <2>3. QED
    BY <2>1, <2>2 DEF CandlesRecorded
<1>2. ASSUME NEW d \in GoldDays, RebuildCandles(d)
      PROVE  CandlesRecorded'
  <2> DEFINE file == [content |-> trades[d].content, recorded |-> trades[d].content,
                      source |-> trades[d].content]
  <2>1. candles' = [candles EXCEPT ![d] = file] /\ trades' = trades
    BY <1>2 DEF RebuildCandles
  <2>2. /\ file \in [content : Nat, recorded : Nat, source : Nat]
        /\ file.recorded = file.source
    BY DEF CandlesRecorded
  <2> HIDE DEF file
  <2>3. QED
    BY <2>1, <2>2 DEF CandlesRecorded
<1>3. ASSUME NEW d \in GoldDays, Damage(d)
      PROVE  CandlesRecorded'
  <2>1. CASE trades' = [trades EXCEPT ![d].content = Damaged] /\ candles' = candles
    <3>1. PICK file : file = [trades[d] EXCEPT !.content = Damaged]
      OBVIOUS
    <3>2. file \in [content : Nat, recorded : Nat] /\ trades' = [trades EXCEPT ![d] = file]
      BY <2>1, <3>1 DEF CandlesRecorded, Damaged
    <3>3. QED
      BY <2>1, <3>2 DEF CandlesRecorded
  <2>2. CASE candles' = [candles EXCEPT ![d].content = Damaged] /\ trades' = trades
    <3>1. PICK file : file = [candles[d] EXCEPT !.content = Damaged]
      OBVIOUS
    <3>2. /\ file \in [content : Nat, recorded : Nat, source : Nat]
          /\ file.recorded = file.source
          /\ candles' = [candles EXCEPT ![d] = file]
      BY <2>2, <3>1 DEF CandlesRecorded, Damaged
    <3>3. QED
      BY <2>2, <3>2 DEF CandlesRecorded
  <2>3. QED
    BY <1>3, <2>1, <2>2 DEF Damage
<1>4. CASE \E l \in Layouts : Move(l)
  BY <1>4 DEF Move, CandlesRecorded
<1>5. QED
  BY <1>1, <1>2, <1>3, <1>4 DEF SilverChanges

\* Every step keeps the datasets joined, whatever happens to silver in between.
LEMMA NextJoined ==
  ASSUME DatasetsJoined, [GoldNext]_goldVars
  PROVE  DatasetsJoined'
<1>1. ASSUME UNCHANGED silver
      PROVE  CandlesRecorded'
  BY <1>1 DEF silver, DatasetsJoined, CandlesRecorded
<1>2. ASSUME NEW days \in SUBSET GoldDays, CollectTrades(days)
      PROVE  DatasetsJoined'
  <2>1. \A d \in days : trades[d].content \in Nat
    BY DEF DatasetsJoined, CandlesRecorded
  <2>2. Hashes(trades, days) \in Versions
    BY <2>1, HashesAreVersions
  <2>3. builder' = [stage |-> "candles", trades |-> Hashes(trades, days)] /\ gold' = gold
    BY <1>2 DEF CollectTrades
  <2>4. builder' \in Builders /\ builder'.stage # "publish"
    BY <2>2, <2>3 DEF Builders
  <2>5. QED
    BY <1>1, <1>2, <2>3, <2>4 DEF CollectTrades, DatasetsJoined, Builders, OneMarket
<1>3. ASSUME CollectCandles
      PROVE  DatasetsJoined'
  <2> DEFINE days == DOMAIN builder.trades
             id == DatasetId(builder.trades, Hashes(candles, days))
  <2>1. builder.trades \in Versions
    BY <1>3, BuilderStages DEF CollectCandles, DatasetsJoined
  <2>2. CASE Intact(candles, days) /\ LineageMatches(candles, builder.trades)
    <3>1. OneMarket(id)
      BY <2>1, <2>2, LineageJoins DEF DatasetsJoined
    <3>2. builder' = [stage |-> "publish", id |-> id] /\ gold' = gold
      BY <1>3, <2>2 DEF CollectCandles
    <3> HIDE DEF id
    <3>3. builder' \in Builders /\ builder'.id = id
      BY <3>1, <3>2 DEF Builders, OneMarket
    <3>4. QED
      BY <1>1, <1>3, <3>1, <3>2, <3>3 DEF CollectCandles, DatasetsJoined, Builders, OneMarket
  <2>3. CASE ~(Intact(candles, days) /\ LineageMatches(candles, builder.trades))
    BY <1>1, <1>3, <2>3, UntouchedJoined DEF CollectCandles
  <2>4. QED
    BY <2>2, <2>3
<1>4. ASSUME Publish
      PROVE  DatasetsJoined'
  <2>1. OneMarket(builder.id) /\ builder' = Idle
    BY <1>4 DEF Publish, DatasetsJoined
  <2>2. \A id \in DOMAIN gold' : OneMarket(id)
    BY <1>4, <2>1 DEF Publish, DatasetsJoined
  <2>3. Idle \in Builders /\ Idle.stage # "publish"
    BY DEF Builders, Idle
  <2>4. QED
    BY <1>1, <1>4, <2>1, <2>2, <2>3 DEF Publish, DatasetsJoined, Builders, OneMarket
<1>5. ASSUME UNCHANGED silver, UNCHANGED <<gold, builder>>
      PROVE  DatasetsJoined'
  BY <1>1, <1>5, UntouchedJoined
<1>6. CASE \E id \in DOMAIN gold, goal \in Goals : ValidateDataset(id, goal)
  BY <1>5, <1>6 DEF ValidateDataset
<1>7. CASE LoadCandles \/ ReplayTrades
  BY <1>5, <1>7 DEF LoadCandles, ReplayTrades
<1>8. CASE WriteLedger \/ WriteTrades \/ WriteSummary \/ WriteFails
  BY <1>5, <1>8 DEF WriteLedger, WriteTrades, WriteSummary, WriteOutput, WriteFails
<1>9. CASE Kill
  BY <1>1, <1>9, UntouchedJoined DEF Kill
<1>10. CASE SilverChanges
  <2>1. CandlesRecorded' /\ UNCHANGED <<gold, builder>>
    BY <1>10, SilverRecorded DEF SilverChanges, DatasetsJoined
  <2>2. QED
    BY <2>1, UntouchedJoined
<1>11. CASE UNCHANGED goldVars
  BY <1>5, <1>11 DEF goldVars, silver
<1>12. QED
  BY <1>2, <1>3, <1>4, <1>6, <1>7, <1>8, <1>9, <1>10, <1>11 DEF GoldNext, Goals

\* For any days, versions and layouts, and whatever is rebuilt, damaged or moved
\* between the steps of create_dataset: a dataset joins trades with the candles
\* that were made from exactly these trades.
THEOREM DatasetsJoinTheirOwn == GoldSpec => []ClocksTellOneMarket
<1>1. DatasetsJoined => ClocksTellOneMarket
  BY DEF DatasetsJoined, ClocksTellOneMarket, OneMarket
<1>2. QED
  BY <1>1, InitJoined, NextJoined, PTL DEF GoldSpec

\* What was computed is of a dataset that exists, from exactly what it names.
OfDataset(p) ==
  /\ p \in Payloads /\ p.id \in DOMAIN gold
  /\ p.trades = p.id.trades /\ p.candles = p.id.candles

Readers ==
  {Idle} \cup [stage : {"candles"}, id : DatasetIds, goal : Goals]
         \cup [stage : {"trades"}, id : DatasetIds, goal : Goals, candles : Versions]
         \cup [stage : {"write", "summary"}, goal : Goals, payload : Payloads]

\* While a run reads, its dataset is still verified: silver does not change.
ReadingVerified ==
  /\ reader \in Readers
  /\ reader.stage \in {"candles", "trades"} =>
       reader.id \in DOMAIN gold /\ HashesVerified(reader.id)
  /\ reader.stage = "trades" => reader.candles = reader.id.candles
  /\ reader.stage \in {"write", "summary"} => OfDataset(reader.payload)
  /\ reader.stage = "summary" => reader.payload = outputs["trades"]

OutputsWritten ==
  /\ outputs \in [{"ledger", "trades", "summary"} -> Payloads \cup {Absent}]
  /\ \A name \in DOMAIN outputs : outputs[name] # Absent => OfDataset(outputs[name])
  /\ outputs["summary"] \in {Absent, outputs["trades"]}

OutputsKnown == DatasetsJoined /\ ReadingVerified /\ OutputsWritten

\* What a reader carries at each stage.
LEMMA ReaderStages ==
  ASSUME reader \in Readers
  PROVE  /\ reader.stage = "candles" =>
              reader \in [stage : {"candles"}, id : DatasetIds, goal : Goals]
         /\ reader.stage = "trades" =>
              reader \in [stage : {"trades"}, id : DatasetIds, goal : Goals,
                          candles : Versions]
         /\ reader.stage \in {"write", "summary"} =>
              reader \in [stage : {"write", "summary"}, goal : Goals, payload : Payloads]
  BY DEF Readers, Idle

\* An idle reader carries nothing.
LEMMA IdleVerified ==
  ASSUME reader' = Idle
  PROVE  ReadingVerified'
<1>1. Idle \in Readers /\ Idle.stage \notin {"candles", "trades", "write", "summary"}
  BY DEF Readers, Idle
<1>2. Readers' = Readers
  BY DEF Readers, Goals, Payloads, DatasetIds, Versions
<1>3. QED
  BY <1>1, <1>2 DEF ReadingVerified

\* Datasets are only added, so what is of one stays so.
LEMMA OfDatasetStays ==
  ASSUME NEW p, OfDataset(p), DOMAIN gold \subseteq DOMAIN gold'
  PROVE  OfDataset(p)'
  BY DEF OfDataset, Payloads, DatasetIds, Versions

\* Outputs that stay are still of their datasets.
LEMMA OutputsStay ==
  ASSUME OutputsWritten, outputs' = outputs, DOMAIN gold \subseteq DOMAIN gold'
  PROVE  OutputsWritten'
<1>1. \A name \in DOMAIN outputs : outputs[name] # Absent => OfDataset(outputs[name])'
  BY OfDatasetStays DEF OutputsWritten
<1>2. QED
  BY <1>1 DEF OutputsWritten, Payloads, DatasetIds, Versions

\* A run that goes on while nothing it reads changes stays verified.
LEMMA ReadingStays ==
  ASSUME ReadingVerified, UNCHANGED <<trades, candles, outputs, reader>>,
         DOMAIN gold \subseteq DOMAIN gold'
  PROVE  ReadingVerified'
<1>1. reader.stage \in {"write", "summary"} => OfDataset(reader.payload)'
  BY OfDatasetStays DEF ReadingVerified
<1>2. QED
  BY <1>1 DEF ReadingVerified, HashesVerified, Hashes, Readers, Goals, Payloads,
              DatasetIds, Versions

\* A file is written with what a run has computed of its dataset; the summary has
\* the payload its trades have.
LEMMA WriteKnown ==
  ASSUME OutputsKnown, NEW name \in {"ledger", "trades", "summary"},
         reader.stage \in {"write", "summary"},
         name = "summary" => reader.stage = "summary",
         ~Conflicts(name),
         outputs' = [outputs EXCEPT ![name] = reader.payload],
         UNCHANGED gold
  PROVE  OutputsWritten' /\ outputs'[name] = reader.payload
<1> PICK p : p = reader.payload
  OBVIOUS
<1>1. OfDataset(p) /\ p \in Payloads /\ name \in DOMAIN outputs
  BY DEF OutputsKnown, ReadingVerified, OutputsWritten, OfDataset
<1>2. outputs[name] \in {Absent, p}
  BY DEF Conflicts
<1>3. reader.stage = "summary" => p = outputs["trades"]
  BY DEF OutputsKnown, ReadingVerified
<1>4. outputs' = [outputs EXCEPT ![name] = p]
  OBVIOUS
<1>5. outputs' \in [{"ledger", "trades", "summary"} -> Payloads \cup {Absent}]
  BY <1>1, <1>4 DEF OutputsKnown, OutputsWritten
<1>6. \A n \in DOMAIN outputs' : outputs'[n] # Absent => OfDataset(outputs'[n])
  BY <1>1, <1>4 DEF OutputsKnown, OutputsWritten
<1>7. outputs'["summary"] \in {Absent, outputs'["trades"]}
  BY <1>1, <1>2, <1>3, <1>4 DEF OutputsKnown, OutputsWritten
<1>8. (\A n \in DOMAIN outputs : outputs[n] # Absent => OfDataset(outputs[n]))'
  BY <1>6 DEF OfDataset, Payloads, DatasetIds, Versions
<1>9. outputs'[name] = p
  BY <1>1, <1>4 DEF OutputsKnown, OutputsWritten
<1>10. QED
  BY <1>5, <1>7, <1>8, <1>9 DEF OutputsWritten, Payloads, DatasetIds, Versions

\* No output exists at the start.
LEMMA InitKnownOutputs == GoldInit => OutputsKnown
<1> SUFFICES ASSUME GoldInit PROVE OutputsKnown
  OBVIOUS
<1>1. ReadingVerified
  BY DEF GoldInit, ReadingVerified, Readers, Idle
<1>2. OutputsWritten
  BY DEF GoldInit, OutputsWritten
<1>3. QED
  BY <1>1, <1>2, InitJoined DEF OutputsKnown

\* A replay reads the trades that its dataset names.
LEMMA ReplayKnown ==
  ASSUME OutputsKnown, ReplayTrades
  PROVE  ReadingVerified'
<1> PICK id : id = reader.id
  OBVIOUS
<1> DEFINE next == [stage |-> "write", goal |-> reader.goal,
                    payload |-> Payload(Hashes(trades, DOMAIN id.trades))]
<1>1. /\ id \in DatasetIds /\ id \in DOMAIN gold /\ reader.goal \in Goals
      /\ Hashes(trades, DOMAIN id.trades) = id.trades
      /\ reader.candles = id.candles
  BY ReaderStages DEF OutputsKnown, ReadingVerified, ReplayTrades, HashesVerified
<1>2. CASE reader' = Idle
  BY <1>2, IdleVerified
<1>3. CASE reader' = next
  <2>0. PICK p : p = Payload(id.trades)
    OBVIOUS
  <2>1. p = [id |-> id, candles |-> id.candles, trades |-> id.trades]
    BY <1>1, <2>0 DEF Payload
  <2>2. p \in Payloads /\ p.id = id /\ p.trades = id.trades /\ p.candles = id.candles
    BY <1>1, <2>1 DEF Payloads, DatasetIds
  <2>3. reader' = [stage |-> "write", goal |-> reader.goal, payload |-> p]
    BY <1>1, <1>3, <2>0
  <2>4. reader' \in Readers /\ reader'.stage = "write" /\ reader'.payload = p
    BY <1>1, <2>2, <2>3 DEF Readers
  <2>5. gold' = gold
    BY DEF ReplayTrades
  <2>6. OfDataset(p)'
    BY <1>1, <2>2, <2>5 DEF OfDataset, Payloads, DatasetIds, Versions
  <2>7. OfDataset(reader.payload)'
    BY <2>4, <2>6 DEF OfDataset, Payloads, DatasetIds, Versions
  <2>8. QED
    BY <2>4, <2>7 DEF ReadingVerified, Readers, Goals, Payloads, DatasetIds, Versions
<1>4. QED
  BY <1>2, <1>3 DEF ReplayTrades, ReadOr

\* A reader reads the candles that its dataset names.
LEMMA LoadKnown ==
  ASSUME OutputsKnown, LoadCandles
  PROVE  ReadingVerified'
<1> PICK id : id = reader.id
  OBVIOUS
<1> DEFINE next == [stage |-> "trades", id |-> id, goal |-> reader.goal,
                    candles |-> Hashes(candles, DOMAIN id.candles)]
<1>1. /\ id \in DatasetIds /\ id \in DOMAIN gold /\ reader.goal \in Goals
      /\ HashesVerified(id) /\ Hashes(candles, DOMAIN id.candles) = id.candles
  BY ReaderStages DEF OutputsKnown, ReadingVerified, LoadCandles, HashesVerified
<1>2. CASE reader' = Idle
  BY <1>2, IdleVerified
<1>3. CASE reader' = next
  <2>1. id.candles \in Versions
    BY <1>1 DEF DatasetIds
  <2>2. /\ reader' \in Readers /\ reader'.stage = "trades"
        /\ reader'.id = id /\ reader'.candles = id.candles
    BY <1>1, <1>3, <2>1 DEF Readers
  <2>3. UNCHANGED <<trades, candles, gold>>
    BY DEF LoadCandles, silver
  <2>4. id \in DOMAIN gold' /\ HashesVerified(id)'
    BY <1>1, <2>3 DEF HashesVerified, Hashes
  <2>5. HashesVerified(reader.id)'
    BY <2>2, <2>4, <1>1, <2>3 DEF HashesVerified, Hashes
  <2>7. QED
    BY <2>2, <2>4, <2>5 DEF ReadingVerified, Readers, Goals, Payloads, DatasetIds, Versions
<1>4. QED
  BY <1>2, <1>3 DEF LoadCandles, ReadOr

\* Every step keeps what is read and written true to its dataset, if silver changes
\* only while nothing reads it.
LEMMA NextKnownOutputs ==
  ASSUME QuietSilver, OutputsKnown, [GoldNext]_goldVars
  PROVE  OutputsKnown'
<1>0. DatasetsJoined'
  BY NextJoined DEF OutputsKnown
<1>1. ASSUME UNCHANGED <<trades, candles, outputs, reader>>,
             DOMAIN gold \subseteq DOMAIN gold'
      PROVE  OutputsKnown'
  BY <1>0, <1>1, ReadingStays, OutputsStay DEF OutputsKnown
<1>2. ASSUME ReadingVerified', UNCHANGED <<gold, outputs>>
      PROVE  OutputsKnown'
  BY <1>0, <1>2, OutputsStay DEF OutputsKnown
<1>3. CASE \E days \in SUBSET GoldDays \ {{}} : CollectTrades(days)
  BY <1>1, <1>3 DEF CollectTrades, silver
<1>4. CASE CollectCandles
  BY <1>1, <1>4 DEF CollectCandles, silver
<1>5. CASE Publish
  <2>1. DOMAIN gold \subseteq DOMAIN gold'
    BY <1>5 DEF Publish
  <2>2. QED
    BY <1>1, <1>5, <2>1 DEF Publish, silver
<1>6. ASSUME NEW id \in DOMAIN gold, NEW goal \in Goals, ValidateDataset(id, goal)
      PROVE  OutputsKnown'
  <2>1. id \in DatasetIds
    BY DEF OutputsKnown, DatasetsJoined, OneMarket
  <2>2. reader' = [stage |-> "candles", id |-> id, goal |-> goal]
    BY <1>6 DEF ValidateDataset
  <2>3. reader' \in Readers /\ reader'.stage = "candles" /\ reader'.id = id
    BY <2>1, <2>2 DEF Readers
  <2>4. UNCHANGED <<trades, candles, gold, outputs>> /\ HashesVerified(id)
    BY <1>6 DEF ValidateDataset, silver
  <2>5. HashesVerified(reader.id)' /\ reader'.id \in DOMAIN gold'
    BY <2>3, <2>4 DEF HashesVerified, Hashes
  <2>6. ReadingVerified'
    BY <2>3, <2>5 DEF ReadingVerified, Readers, Goals, Payloads, DatasetIds, Versions
  <2>7. QED
    BY <1>2, <2>4, <2>6
<1>7. CASE LoadCandles
  BY <1>2, <1>7, LoadKnown DEF LoadCandles
<1>8. CASE ReplayTrades
  BY <1>2, <1>8, ReplayKnown DEF ReplayTrades
<1>9. CASE WriteLedger
  <2>1. OutputsWritten'
    BY <1>9, WriteKnown DEF WriteLedger, WriteOutput
  <2>2. ReadingVerified'
    BY <1>9, IdleVerified DEF WriteLedger, WriteOutput
  <2>3. QED
    BY <1>0, <2>1, <2>2 DEF OutputsKnown
<1>10. CASE WriteTrades
  <2>1. /\ OutputsWritten' /\ outputs'["trades"] = reader.payload
        /\ gold' = gold /\ reader' = [reader EXCEPT !.stage = "summary"]
    BY <1>10, WriteKnown DEF WriteTrades, WriteOutput
  <2>2. /\ reader \in [stage : {"write", "summary"}, goal : Goals, payload : Payloads]
        /\ OfDataset(reader.payload)
    BY <1>10, ReaderStages DEF WriteTrades, OutputsKnown, ReadingVerified
  <2>3. /\ reader' \in Readers /\ reader'.stage = "summary"
        /\ reader'.payload = reader.payload
    BY <2>1, <2>2 DEF Readers
  <2>4. OfDataset(reader.payload)'
    BY <2>1, <2>2, <2>3 DEF OfDataset, Payloads, DatasetIds, Versions
  <2>5. ReadingVerified'
    BY <2>1, <2>3, <2>4 DEF ReadingVerified, Readers, Goals, Payloads, DatasetIds, Versions
  <2>6. QED
    BY <1>0, <2>1, <2>5 DEF OutputsKnown
<1>11. CASE WriteSummary
  <2>1. OutputsWritten'
    BY <1>11, WriteKnown DEF WriteSummary, WriteOutput
  <2>2. ReadingVerified'
    BY <1>11, IdleVerified DEF WriteSummary, WriteOutput
  <2>3. QED
    BY <1>0, <2>1, <2>2 DEF OutputsKnown
<1>12. CASE WriteFails
  BY <1>2, <1>12, IdleVerified DEF WriteFails
<1>13. CASE Kill
  <2>1. CASE reader' = reader
    BY <1>1, <1>13, <2>1 DEF Kill, silver
  <2>2. CASE reader' = Idle
    BY <1>2, <1>13, <2>2, IdleVerified DEF Kill
  <2>3. QED
    BY <1>13, <2>1, <2>2 DEF Kill
<1>14. CASE SilverChanges
  <2>1. reader' = Idle /\ UNCHANGED <<gold, outputs>>
    BY <1>14 DEF SilverChanges
  <2>2. QED
    BY <1>2, <2>1, IdleVerified
<1>15. CASE UNCHANGED goldVars
  BY <1>1, <1>15 DEF goldVars
<1>16. QED
  BY <1>3, <1>4, <1>5, <1>6, <1>7, <1>8, <1>9, <1>10, <1>11, <1>12, <1>13, <1>14, <1>15
  DEF GoldNext, Goals

\* For any days, versions and layouts, if the operator leaves silver alone while a
\* process reads it: what a ledger, the trades or the summary of a run were computed
\* from is exactly what their dataset names, though files are read again after they
\* were hashed and runs are killed and repeated, and a summary stands by its trades.
THEOREM OutputsStayOfTheirDataset ==
  ASSUME QuietSilver
  PROVE  GoldSpec => []OutputsAreOfTheirDataset
<1>1. OutputsKnown => OutputsAreOfTheirDataset
  BY DEF OutputsKnown, OutputsWritten, OutputsAreOfTheirDataset, OfDataset,
         DatasetsJoined, ClocksTellOneMarket, OneMarket
<1>2. OutputsKnown /\ [GoldNext]_goldVars => OutputsKnown'
  BY NextKnownOutputs
<1>3. QED
  BY <1>1, <1>2, InitKnownOutputs, PTL DEF GoldSpec

-----------------------------------------------------------------------------
(* The evaluations of the lab.                                             *)

Written(w) == Existing(w.path) = w.content
Contents(writes) == { writes[i] : i \in DOMAIN writes }

\* An evaluation has registered a file, or has it still to do.
DoneOrToDo(writes, todo) ==
  /\ todo \in Seq(Contents(writes))
  /\ \A i \in DOMAIN writes :
       Written(writes[i]) \/ \E j \in DOMAIN todo : todo[j] = writes[i]
AllWritten(writes) == \A i \in DOMAIN writes : Written(writes[i])

EvaluationBacked ==
  /\ script \in Scripts
  /\ evaluation # Idle =>
       evaluation = [stage |-> evaluation.stage, rows |-> evaluation.rows,
                     todo |-> evaluation.todo]
  /\ evaluation.stage = "specs" =>
       DoneOrToDo(SpecWrites(script, evaluation.rows, head), evaluation.todo)
  /\ evaluation.stage = "runs" =>
       /\ AllWritten(SpecWrites(script, evaluation.rows, head))
       /\ DoneOrToDo(RunWrites(script, evaluation.rows, head), evaluation.todo)

\* The specs a report names are contents, so that their files stay what they are.
ReportBacked ==
  /\ EvidenceIsBacked
  /\ report \notin {Absent, Torn} =>
       \A i \in DOMAIN report.specs : report.specs[i] # Absent

FilesStay == \A p : Existing(p) # Absent => Existing(p)' = Existing(p)

\* A file that is accepted is the one that was there, if there was one.
LEMMA RegisteringKeepsFiles ==
  ASSUME NEW path, NEW content,
         Accepts(Existing(path), content), registry' = WithFile(path, content)
  PROVE  FilesStay /\ Existing(path)' = content
<1>1. DOMAIN registry' = DOMAIN registry \cup {path}
  BY DEF WithFile
<1>2. \A p \in DOMAIN registry' : registry'[p] = IF p = path THEN content ELSE registry[p]
  BY DEF WithFile
<1>3. Existing(path)' = content
  BY <1>1, <1>2 DEF Existing
<1>4. ASSUME NEW p, Existing(p) # Absent
      PROVE  Existing(p)' = Existing(p)
  <2>1. CASE p = path
    BY <1>3, <1>4, <2>1 DEF Accepts
  <2>2. CASE p # path
    BY <1>1, <1>2, <1>4, <2>2 DEF Existing
  <2>3. QED
    BY <2>1, <2>2
<1>5. QED
  BY <1>3, <1>4 DEF FilesStay

\* A step that writes no file keeps every file.
LEMMA UnchangedKeepsFiles == registry' = registry => FilesStay
  BY DEF FilesStay, Existing

Names == {"baseline", "btc-context", "btc-regime", "donchian", "bollinger"}

\* Every script has a last candidate, the one it judges.
LEMMA ScriptsHaveCandidates ==
  ASSUME NEW s \in Scripts
  PROVE  s.candidates \in Seq(Names) /\ Len(s.candidates) >= 1
<1>1. PICK k, l \in Names : s.candidates = <<k>> \/ s.candidates = <<k, l>>
  BY DEF Scripts, Script18B, Script18D, Script19B, Script20B, Names
<1> HIDE DEF Names
<1>2. <<k>> \in Seq(Names) /\ Len(<<k>>) = 1
  OBVIOUS
<1>3. <<k, l>> \in Seq(Names) /\ Len(<<k, l>>) = 2
  OBVIOUS
<1>4. CASE s.candidates = <<k>>
  BY <1>2, <1>4
<1>5. CASE s.candidates = <<k, l>>
  BY <1>3, <1>5
<1>6. QED
  BY <1>1, <1>4, <1>5

\* The strategy a script judges is the last it evaluates.
LEMMA StrategiesEndWithJudged ==
  ASSUME NEW s \in Scripts
  PROVE  /\ Strategies(s) \in Seq(Names)
         /\ Len(Strategies(s)) >= 1
         /\ Strategies(s)[Len(Strategies(s))] = Judged(s)
<1>1. s.candidates \in Seq(Names) /\ Len(s.candidates) >= 1
  BY ScriptsHaveCandidates
<1>2. <<"baseline">> \in Seq(Names) /\ Len(<<"baseline">>) = 1
  BY DEF Names
<1>3. PICK all : all = Strategies(s)
  OBVIOUS
<1>4. /\ all \in Seq(Names) /\ Len(all) = 1 + Len(s.candidates)
      /\ all[1 + Len(s.candidates)] = s.candidates[Len(s.candidates)]
  BY <1>1, <1>2, <1>3 DEF Strategies
<1>5. Judged(s) = s.candidates[Len(s.candidates)]
  BY DEF Judged, Last
<1>6. QED
  BY <1>1, <1>3, <1>4, <1>5

\* Specs and runs are contents, neither missing nor torn.
LEMMA SpecsAndRunsAreContents ==
  /\ \A k, rows, c : SpecId(k, rows, c) \notin {Absent, Torn}
  /\ \A k, rows, c : RunOf(k, rows, c) \notin {Absent, Torn}
  /\ \A sha, trace : [sha |-> sha, trace |-> trace] \notin {Absent, Torn}
  BY DEF SpecId, RunOf, Absent, Torn

\* The specifications a script writes: one per strategy.
LEMMA SpecWritesAre ==
  ASSUME NEW s \in Scripts, NEW rows, NEW c
  PROVE  LET writes == SpecWrites(s, rows, c)
             n == Len(Strategies(s))
         IN /\ writes \in Seq(Contents(writes))
            /\ DOMAIN writes = 1..n
            /\ \A i \in 1..n :
                 /\ writes[i].path = SpecFile(Strategies(s)[i], rows, c)
                 /\ writes[i].content = SpecId(Strategies(s)[i], rows, c)
<1> DEFINE writes == SpecWrites(s, rows, c)
<1>1. PICK n \in Nat : n = Len(Strategies(s)) /\ DOMAIN Strategies(s) = 1..n
  BY StrategiesEndWithJudged
<1>2. writes = [ i \in 1..n |-> [path |-> SpecFile(Strategies(s)[i], rows, c),
                                 content |-> SpecId(Strategies(s)[i], rows, c)] ]
  BY <1>1 DEF SpecWrites
<1> HIDE DEF writes
<1>3. /\ DOMAIN writes = 1..n
      /\ \A i \in 1..n :
           /\ writes[i].path = SpecFile(Strategies(s)[i], rows, c)
           /\ writes[i].content = SpecId(Strategies(s)[i], rows, c)
  BY <1>2
<1>4. writes \in [1..n -> Contents(writes)]
  BY <1>2 DEF Contents
<1>5. writes \in Seq(Contents(writes))
  BY <1>4
<1>6. QED
  BY <1>1, <1>3, <1>5 DEF writes

\* The files its runs write: a run per strategy, and the verdict.
LEMMA RunWritesAre ==
  ASSUME NEW s \in Scripts, NEW rows, NEW c
  PROVE  LET writes == RunWrites(s, rows, c)
             n == Len(Strategies(s))
         IN /\ writes \in Seq(Contents(writes))
            /\ DOMAIN writes = 1..(n + 1)
            /\ \A i \in 1..n :
                 /\ writes[i].path = RunFile(Strategies(s)[i], rows, c, "run-1")
                 /\ writes[i].content = RunOf(Strategies(s)[i], rows, c)
            /\ writes[n + 1].path = RunFile(Judged(s), rows, c, "run-2")
            /\ writes[n + 1].content = RunOf(Judged(s), rows, c)
<1> DEFINE writes == RunWrites(s, rows, c)
           all == { [path |-> RunFile(Strategies(s)[i], rows, c, "run-1"),
                     content |-> RunOf(Strategies(s)[i], rows, c)]
                    : i \in DOMAIN Strategies(s) }
                  \cup {[path |-> RunFile(Judged(s), rows, c, "run-2"),
                         content |-> RunOf(Judged(s), rows, c)]}
<1>1. PICK n \in Nat : n = Len(Strategies(s)) /\ DOMAIN Strategies(s) = 1..n
  BY StrategiesEndWithJudged
<1>2. PICK first : first = [ i \in 1..n |->
          [path |-> RunFile(Strategies(s)[i], rows, c, "run-1"),
           content |-> RunOf(Strategies(s)[i], rows, c)] ]
  OBVIOUS
<1>3. PICK second : second = [path |-> RunFile(Judged(s), rows, c, "run-2"),
                              content |-> RunOf(Judged(s), rows, c)]
  OBVIOUS
<1>4. writes = first \o <<second>>
  BY <1>1, <1>2, <1>3 DEF RunWrites
<1>5. first \in [1..n -> all] /\ second \in all
  BY <1>1, <1>2, <1>3
<1> HIDE DEF writes, all
<1>6. first \in Seq(all) /\ <<second>> \in Seq(all) /\ Len(first) = n
  BY <1>5
<1>7. /\ writes \in Seq(all) /\ DOMAIN writes = 1..(n + 1)
      /\ \A i \in 1..n : writes[i] = first[i]
      /\ writes[n + 1] = second
  BY <1>4, <1>6
<1>8. writes \in [1..(n + 1) -> Contents(writes)]
  BY <1>7 DEF Contents
<1>9. writes \in Seq(Contents(writes))
  BY <1>8
<1>10. \A i \in 1..n :
         /\ writes[i].path = RunFile(Strategies(s)[i], rows, c, "run-1")
         /\ writes[i].content = RunOf(Strategies(s)[i], rows, c)
  BY <1>2, <1>7
<1>11. /\ writes[n + 1].path = RunFile(Judged(s), rows, c, "run-2")
       /\ writes[n + 1].content = RunOf(Judged(s), rows, c)
  BY <1>3, <1>7
<1>12. QED
  BY <1>1, <1>7, <1>9, <1>10, <1>11 DEF writes

\* What a report says stays backed while files stay.
LEMMA ReportStays ==
  ASSUME ReportBacked, FilesStay, report' = report
  PROVE  ReportBacked'
<1>1. CASE report \in {Absent, Torn}
  BY <1>1 DEF ReportBacked, EvidenceIsBacked
<1>2. CASE report \notin {Absent, Torn}
  <2>1. \A i \in DOMAIN report.specs :
          /\ report.specs[i] # Absent
          /\ Existing(<<report.specs[i], "spec">>) = report.specs[i]
          /\ Existing(<<report.specs[i], "run-1">>) \notin {Absent, Torn}
          /\ Existing(<<report.specs[i], "run-1">>).sha = report.sha
    BY <1>2 DEF ReportBacked, EvidenceIsBacked
  <2>2. \A i \in DOMAIN report.specs :
          /\ Existing(<<report.specs[i], "spec">>)'
               = Existing(<<report.specs[i], "spec">>)
          /\ Existing(<<report.specs[i], "run-1">>)'
               = Existing(<<report.specs[i], "run-1">>)
    BY <2>1 DEF FilesStay
  <2>3. \A run \in {"run-1", "run-2"} :
          Existing(<<Last(report.specs), run>>) = [sha |-> report.sha, trace |-> report.trace]
    BY <1>2 DEF ReportBacked, EvidenceIsBacked
  <2>4. \A run \in {"run-1", "run-2"} :
          Existing(<<Last(report.specs), run>>)' = Existing(<<Last(report.specs), run>>)
    BY <2>3, SpecsAndRunsAreContents DEF FilesStay
  <2>5. QED
    BY <2>1, <2>2, <2>3, <2>4 DEF ReportBacked, EvidenceIsBacked
<1>3. QED
  BY <1>1, <1>2

\* A file that is written stays written while files stay.
LEMMA WrittenStays ==
  ASSUME NEW w, Written(w), w.content # Absent, FilesStay
  PROVE  Written(w)'
  BY DEF Written, FilesStay

\* A script that runs nothing owes nothing.
LEMMA IdleBacked ==
  ASSUME EvaluationBacked, script' = script, evaluation' = Idle
  PROVE  EvaluationBacked'
  BY DEF EvaluationBacked, Idle

\* An evaluation that starts a list of files has all of them to do.
LEMMA AllToDo ==
  ASSUME NEW writes, writes \in Seq(Contents(writes))
  PROVE  DoneOrToDo(writes, writes)'
<1> HIDE DEF Contents
<1>1. QED
  BY DEF DoneOrToDo, Contents

\* When nothing is left to write, everything is written.
LEMMA NothingLeft ==
  ASSUME NEW writes, DoneOrToDo(writes, <<>>)
  PROVE  AllWritten(writes)
  BY DEF DoneOrToDo, AllWritten

\* The first file to do is registered, the others stay done or to do.
LEMMA FirstIsRegistered ==
  ASSUME NEW writes, NEW todo, DoneOrToDo(writes, todo), todo # <<>>,
         \A i \in DOMAIN writes : writes[i].content # Absent,
         FilesStay, Existing(Head(todo).path)' = Head(todo).content
  PROVE  DoneOrToDo(writes, Tail(todo))'
<1>1. /\ todo \in Seq(Contents(writes)) /\ Head(todo) = todo[1] /\ Len(todo) >= 1
      /\ Tail(todo) \in Seq(Contents(writes))
      /\ \A j \in DOMAIN todo : j # 1 => j - 1 \in DOMAIN Tail(todo)
                                        /\ Tail(todo)[j - 1] = todo[j]
  <2>1. todo \in Seq(Contents(writes))
    BY DEF DoneOrToDo
  <2> HIDE DEF Contents
  <2>2. QED
    BY <2>1
<1>2. \A i \in DOMAIN writes :
        Written(writes[i])' \/ \E j \in DOMAIN Tail(todo) : Tail(todo)[j] = writes[i]
  <2> TAKE i \in DOMAIN writes
  <2>1. CASE Written(writes[i])
    BY <2>1, WrittenStays
  <2>2. ASSUME NEW j \in DOMAIN todo, todo[j] = writes[i]
        PROVE  Written(writes[i])' \/ \E k \in DOMAIN Tail(todo) : Tail(todo)[k] = writes[i]
    <3>1. CASE j = 1
      BY <1>1, <2>2, <3>1 DEF Written
    <3>2. CASE j # 1
      BY <1>1, <2>2, <3>2
    <3>3. QED
      BY <3>1, <3>2
  <2>3. QED
    BY <2>1, <2>2 DEF DoneOrToDo
<1>3. QED
  BY <1>1, <1>2 DEF DoneOrToDo, Contents

\* A script begins an evaluation: everything is to do.
LEMMA EvaluateBacked ==
  ASSUME EvaluationBacked, NEW rows, Evaluate(rows)
  PROVE  EvaluationBacked'
<1> PICK s, c : s = script /\ c = head
  OBVIOUS
<1>1. PICK writes : writes = SpecWrites(s, rows, c)
  OBVIOUS
<1>2. /\ evaluation' = [stage |-> "specs", rows |-> rows, todo |-> writes]
      /\ script' = s /\ head' = c
  BY <1>1 DEF Evaluate
<1>3. s \in Scripts
  BY DEF EvaluationBacked
<1>4. writes \in Seq(Contents(writes))
  BY <1>1, <1>3, SpecWritesAre
<1>5. DoneOrToDo(writes, writes)'
  BY <1>4, AllToDo
<1>6. DoneOrToDo(SpecWrites(script, evaluation.rows, head), evaluation.todo)'
  BY <1>1, <1>2, <1>5 DEF DoneOrToDo, Written, Existing, Contents
<1>7. QED
  BY <1>2, <1>3, <1>6 DEF EvaluationBacked

\* A write never changes a file that exists.
LEMMA RegisterKeeps ==
  ASSUME EvaluationBacked, Register
  PROVE  FilesStay
<1> PICK w : w = Head(evaluation.todo)
  OBVIOUS
<1>1. Accepts(Existing(w.path), w.content) /\ registry' = WithFile(w.path, w.content)
  BY DEF Register
<1>2. QED
  BY <1>1, RegisteringKeepsFiles

\* The next write is done.
LEMMA RegisterBacked ==
  ASSUME EvaluationBacked, Register
  PROVE  EvaluationBacked'
<1> PICK s, c, rows, todo, stage :
         s = script /\ c = head /\ rows = evaluation.rows /\ todo = evaluation.todo
         /\ stage = evaluation.stage
  OBVIOUS
<1> PICK specs, runs : specs = SpecWrites(s, rows, c) /\ runs = RunWrites(s, rows, c)
  OBVIOUS
<1>1. /\ s \in Scripts /\ stage \in {"specs", "runs"} /\ todo # <<>>
      /\ evaluation = [stage |-> stage, rows |-> rows, todo |-> todo]
      /\ evaluation' = [evaluation EXCEPT !.todo = Tail(todo)]
      /\ script' = s /\ head' = c
  BY DEF Register, Registering, EvaluationBacked, Idle
<1>2. /\ evaluation' = [stage |-> stage, rows |-> rows, todo |-> Tail(todo)]
      /\ evaluation'.stage = stage /\ evaluation'.rows = rows
      /\ evaluation'.todo = Tail(todo)
  BY <1>1
<1>3. FilesStay /\ Existing(Head(todo).path)' = Head(todo).content
  <2>1. registry'[Head(todo).path] = Head(todo).content
        /\ Head(todo).path \in DOMAIN registry'
    BY DEF Register, WithFile
  <2>2. QED
    BY <2>1, RegisterKeeps DEF Existing
<1>4. /\ \A i \in DOMAIN specs : specs[i].content # Absent
      /\ \A i \in DOMAIN runs : runs[i].content # Absent
  <2>1. PICK n \in Nat : n = Len(Strategies(s))
    BY <1>1, StrategiesEndWithJudged
  <2>2. \A i \in DOMAIN specs : specs[i].content # Absent
    BY <1>1, <2>1, SpecWritesAre, SpecsAndRunsAreContents
  <2>3. \A i \in 1..(n + 1) : i \in 1..n \/ i = n + 1
    BY <2>1
  <2>4. \A i \in DOMAIN runs : runs[i].content # Absent
    BY <1>1, <2>1, <2>3, RunWritesAre, SpecsAndRunsAreContents
  <2>5. QED
    BY <2>2, <2>4
<1>5. CASE stage = "specs"
  <2>1. DoneOrToDo(specs, todo)
    BY <1>5 DEF EvaluationBacked
  <2>2. DoneOrToDo(specs, Tail(todo))'
    BY <1>1, <1>3, <1>4, <2>1, FirstIsRegistered
  <2>3. DoneOrToDo(SpecWrites(script, evaluation.rows, head), evaluation.todo)'
    BY <1>1, <1>2, <2>2 DEF DoneOrToDo, Written, Existing, Contents
  <2>4. QED
    BY <1>1, <1>2, <1>5, <2>3 DEF EvaluationBacked
<1>6. CASE stage = "runs"
  <2>1. AllWritten(specs) /\ DoneOrToDo(runs, todo)
    BY <1>6 DEF EvaluationBacked
  <2>2. DoneOrToDo(runs, Tail(todo))'
    BY <1>1, <1>3, <1>4, <2>1, FirstIsRegistered
  <2>3. AllWritten(specs)'
    <3>1. \A i \in DOMAIN specs : Written(specs[i])'
      BY <1>3, <1>4, <2>1, WrittenStays DEF AllWritten
    <3>2. QED
      BY <3>1 DEF AllWritten
  <2>4. DoneOrToDo(RunWrites(script, evaluation.rows, head), evaluation.todo)'
    BY <1>1, <1>2, <2>2 DEF DoneOrToDo, Written, Existing, Contents
  <2>5. AllWritten(SpecWrites(script, evaluation.rows, head))'
    BY <1>1, <1>2, <2>3 DEF AllWritten, Written, Existing
  <2>6. QED
    BY <1>1, <1>2, <1>6, <2>4, <2>5 DEF EvaluationBacked
<1>7. QED
  BY <1>1, <1>5, <1>6

\* The sessions have run: their files are to be written.
LEMMA RunSessionsBacked ==
  ASSUME EvaluationBacked, RunSessions
  PROVE  EvaluationBacked'
<1> PICK s, c, rows : s = script /\ c = head /\ rows = evaluation.rows
  OBVIOUS
<1> PICK specs, runs : specs = SpecWrites(s, rows, c) /\ runs = RunWrites(s, rows, c)
  OBVIOUS
<1>1. /\ s \in Scripts
      /\ evaluation = [stage |-> "specs", rows |-> rows, todo |-> <<>>]
      /\ script' = s /\ head' = c /\ registry' = registry
      /\ evaluation' = [evaluation EXCEPT !.stage = "runs", !.todo = runs]
  BY DEF RunSessions, EvaluationBacked, Idle
<1>2. evaluation' = [stage |-> "runs", rows |-> rows, todo |-> runs]
  BY <1>1
<1>3. AllWritten(specs)
  <2>1. DoneOrToDo(specs, evaluation.todo) /\ evaluation.todo = <<>>
    BY <1>1 DEF EvaluationBacked
  <2>2. QED
    BY <2>1, NothingLeft
<1>4. DoneOrToDo(runs, runs)'
  BY <1>1, RunWritesAre, AllToDo
<1>5. /\ AllWritten(SpecWrites(script, evaluation.rows, head))'
      /\ DoneOrToDo(RunWrites(script, evaluation.rows, head), evaluation.todo)'
  BY <1>1, <1>2, <1>3, <1>4 DEF AllWritten, DoneOrToDo, Written, Existing, Contents
<1>6. QED
  BY <1>1, <1>2, <1>5 DEF EvaluationBacked

\* The report names specs and runs of which every file is registered.
LEMMA WriteReportBacked ==
  ASSUME EvaluationBacked, NEW b, NEW c, WriteReport(b, c)
  PROVE  ReportBacked'
<1> PICK s, h, rows : s = script /\ h = head /\ rows = evaluation.rows
  OBVIOUS
<1> PICK specs, runs : specs = SpecWrites(s, rows, h) /\ runs = RunWrites(s, rows, h)
  OBVIOUS
<1>1. s \in Scripts /\ evaluation.stage = "runs" /\ evaluation.todo = <<>>
  BY DEF WriteReport, EvaluationBacked
<1>2. AllWritten(specs) /\ AllWritten(runs)
  BY <1>1, NothingLeft DEF EvaluationBacked
<1>3. PICK n \in Nat :
        /\ n = Len(Strategies(s)) /\ n >= 1 /\ DOMAIN Strategies(s) = 1..n
        /\ Strategies(s)[n] = Judged(s)
  BY <1>1, StrategiesEndWithJudged
<1>4. /\ \A i \in 1..n : Existing(SpecFile(Strategies(s)[i], rows, h))
                           = SpecId(Strategies(s)[i], rows, h)
      /\ \A i \in 1..n : Existing(RunFile(Strategies(s)[i], rows, h, "run-1"))
                           = RunOf(Strategies(s)[i], rows, h)
      /\ Existing(RunFile(Judged(s), rows, h, "run-2")) = RunOf(Judged(s), rows, h)
  <2>1. /\ DOMAIN specs = 1..n
        /\ \A i \in 1..n : specs[i].path = SpecFile(Strategies(s)[i], rows, h)
                           /\ specs[i].content = SpecId(Strategies(s)[i], rows, h)
    BY <1>1, <1>3, SpecWritesAre
  <2>2. /\ DOMAIN runs = 1..(n + 1) /\ n + 1 \in 1..(n + 1)
        /\ \A i \in 1..n : i \in 1..(n + 1)
        /\ \A i \in 1..n : runs[i].path = RunFile(Strategies(s)[i], rows, h, "run-1")
                           /\ runs[i].content = RunOf(Strategies(s)[i], rows, h)
        /\ runs[n + 1].path = RunFile(Judged(s), rows, h, "run-2")
        /\ runs[n + 1].content = RunOf(Judged(s), rows, h)
    BY <1>1, <1>3, RunWritesAre
  <2>3. \A i \in 1..n : Written(specs[i]) /\ Written(runs[i])
    BY <1>2, <2>1, <2>2 DEF AllWritten
  <2>4. Written(runs[n + 1])
    BY <1>2, <2>2 DEF AllWritten
  <2>5. QED
    BY <2>1, <2>2, <2>3, <2>4 DEF Written
<1>5. PICK r : r = ReportOf(b, c)
  OBVIOUS
<1>6. /\ report' = r /\ registry' = registry
      /\ r.sha = h /\ r.trace = Trace(Judged(s), rows, h)
      /\ r.specs = [ i \in 1..n |-> SpecId(Strategies(s)[i], rows, h) ]
  BY <1>3, <1>5 DEF WriteReport, ReportOf
<1>7. PICK named : named = r.specs
  OBVIOUS
<1>8. /\ DOMAIN named = 1..n /\ Len(named) = n
      /\ \A i \in 1..n : named[i] = SpecId(Strategies(s)[i], rows, h)
  BY <1>6, <1>7
<1>9. Last(named) = SpecId(Judged(s), rows, h)
  BY <1>3, <1>8 DEF Last
<1>10. \A i \in DOMAIN named :
         /\ named[i] # Absent
         /\ Existing(<<named[i], "spec">>) = named[i]
         /\ Existing(<<named[i], "run-1">>) = RunOf(Strategies(s)[i], rows, h)
  BY <1>4, <1>8, SpecsAndRunsAreContents DEF SpecFile, RunFile
<1>11. \A i \in DOMAIN named :
         /\ Existing(<<named[i], "run-1">>) \notin {Absent, Torn}
         /\ Existing(<<named[i], "run-1">>).sha = h
  <2>1. \A i \in DOMAIN named : Existing(<<named[i], "run-1">>) \notin {Absent, Torn}
    BY <1>10, SpecsAndRunsAreContents
  <2>2. \A i \in DOMAIN named : Existing(<<named[i], "run-1">>).sha = h
    <3>1. \A k : RunOf(k, rows, h).sha = h
      BY DEF RunOf
    <3>2. QED
      BY <1>10, <3>1
  <2>3. QED
    BY <2>1, <2>2
<1>12. \A run \in {"run-1", "run-2"} :
         Existing(<<Last(named), run>>) = [sha |-> h, trace |-> r.trace]
  <2>1. n \in 1..n
    BY <1>3
  <2>2. QED
    BY <1>3, <1>4, <1>6, <1>9, <2>1 DEF RunFile, RunOf
<1>13. /\ \A i \in DOMAIN named :
             /\ Existing(<<named[i], "spec">>)' = named[i]
             /\ Existing(<<named[i], "run-1">>)' \notin {Absent, Torn}
             /\ Existing(<<named[i], "run-1">>)'.sha = r.sha
       /\ \A run \in {"run-1", "run-2"} :
            Existing(<<Last(named), run>>)' = [sha |-> r.sha, trace |-> r.trace]
  <2>1. \A path : Existing(path)' = Existing(path)
    BY <1>6 DEF Existing
  <2>2. r.sha = h
    BY <1>6
  <2>3. QED
    BY <1>10, <1>11, <1>12, <2>1, <2>2
<1>14. report' = r /\ named = r.specs /\ \A i \in DOMAIN named : named[i] # Absent
  BY <1>6, <1>7, <1>10
<1>15. EvidenceIsBacked'
  BY <1>13, <1>14 DEF EvidenceIsBacked
<1>16. QED
  BY <1>14, <1>15 DEF ReportBacked

\* A killed script reports nothing.
LEMMA KilledBacked ==
  ASSUME EvaluationBacked, ReportBacked, Killed
  PROVE  EvaluationBacked' /\ ReportBacked'
<1>1. EvaluationBacked'
  <2>1. script' = script /\ evaluation' = Idle
    BY DEF Killed
  <2>2. QED
    BY <2>1, IdleBacked
<1>2. CASE UNCHANGED <<registry, report>>
  BY <1>1, <1>2, UnchangedKeepsFiles, ReportStays
<1>3. CASE /\ Existing(Head(evaluation.todo).path) = Absent
           /\ registry' = WithFile(Head(evaluation.todo).path, Torn)
           /\ report' = report
  <2>1. Accepts(Existing(Head(evaluation.todo).path), Torn)
    BY <1>3 DEF Accepts
  <2>2. FilesStay
    BY <1>3, <2>1, RegisteringKeepsFiles
  <2>3. QED
    BY <1>1, <1>3, <2>2, ReportStays
<1>4. CASE report' = Torn
  BY <1>1, <1>4 DEF ReportBacked, EvidenceIsBacked
<1>5. QED
  BY <1>1, <1>2, <1>3, <1>4 DEF Killed

\* Every step keeps the invariant.
LEMMA NextBacked ==
  ASSUME EvaluationBacked, ReportBacked, [LabNext]_labVars
  PROVE  EvaluationBacked' /\ ReportBacked'
<1>1. ASSUME UNCHANGED <<script, head, evaluation, registry, report>>
      PROVE  EvaluationBacked' /\ ReportBacked'
  <2> PICK s, c, rows, specs, runs :
           /\ s = script /\ c = head /\ rows = evaluation.rows
           /\ specs = SpecWrites(s, rows, c) /\ runs = RunWrites(s, rows, c)
    OBVIOUS
  <2>0. /\ s = script' /\ c = head' /\ rows = evaluation.rows'
        /\ evaluation.stage = "specs" => DoneOrToDo(specs, evaluation.todo)'
        /\ evaluation.stage = "runs" =>
             AllWritten(specs)' /\ DoneOrToDo(runs, evaluation.todo)'
    BY <1>1 DEF EvaluationBacked, DoneOrToDo, AllWritten, Written, Existing, Contents
  <2>1. EvaluationBacked'
    BY <1>1, <2>0 DEF EvaluationBacked
  <2>2. QED
    BY <1>1, <2>1, UnchangedKeepsFiles, ReportStays
<1>2. ASSUME UNCHANGED <<script, registry, report>>, evaluation' = Idle
      PROVE  EvaluationBacked' /\ ReportBacked'
  BY <1>2, IdleBacked, UnchangedKeepsFiles, ReportStays
<1>3. ASSUME NEW rows, Evaluate(rows)
      PROVE  EvaluationBacked' /\ ReportBacked'
  BY <1>3, EvaluateBacked, UnchangedKeepsFiles, ReportStays DEF Evaluate
<1>4. CASE Register
  BY <1>4, RegisterBacked, RegisterKeeps, ReportStays DEF Register
<1>5. CASE RunSessions
  BY <1>5, RunSessionsBacked, UnchangedKeepsFiles, ReportStays DEF RunSessions
<1>6. ASSUME NEW b, NEW c, WriteReport(b, c)
      PROVE  EvaluationBacked' /\ ReportBacked'
  <2>1. /\ evaluation = [stage |-> "runs", rows |-> evaluation.rows,
                         todo |-> evaluation.todo]
        /\ evaluation' = [evaluation EXCEPT !.stage = "markdown"]
        /\ script' = script
    BY <1>6 DEF WriteReport, EvaluationBacked, Idle
  <2>2. evaluation'.stage = "markdown"
        /\ evaluation' = [stage |-> evaluation'.stage, rows |-> evaluation'.rows,
                          todo |-> evaluation'.todo]
    BY <2>1
  <2>3. EvaluationBacked'
    BY <2>1, <2>2 DEF EvaluationBacked
  <2>4. QED
    BY <1>6, <2>3, WriteReportBacked
<1>7. CASE Conflict \/ BehaviorDriftFound \/ WriteMarkdown
  BY <1>2, <1>7 DEF Conflict, BehaviorDriftFound, WriteMarkdown
<1>8. CASE Killed
  BY <1>8, KilledBacked
<1>9. ASSUME NEW c \in Commits, Checkout(c)
      PROVE  EvaluationBacked' /\ ReportBacked'
  BY <1>2, <1>9 DEF Checkout
<1>10. ASSUME NEW rows, OpenDataset(rows)
       PROVE  EvaluationBacked' /\ ReportBacked'
  BY <1>1, <1>10 DEF OpenDataset
<1>11. ASSUME NEW b, NEW c, NEW humanAuthorized, NEW rows,
              GuardedWalkForwardOpen(b, c, humanAuthorized, rows)
       PROVE  EvaluationBacked' /\ ReportBacked'
  BY <1>1, <1>11 DEF GuardedWalkForwardOpen
<1>12. CASE UNCHANGED labVars
  BY <1>1, <1>12 DEF labVars
<1>13. QED
  BY <1>3, <1>4, <1>5, <1>6, <1>7, <1>8, <1>9, <1>10, <1>11, <1>12
  DEF LabNext, DevelopmentSmoke

\* It holds of an empty registry.
LEMMA InitBacked == LabInit => EvaluationBacked /\ ReportBacked
<1> SUFFICES ASSUME LabInit PROVE EvaluationBacked /\ ReportBacked
  OBVIOUS
<1>1. EvaluationBacked
  BY DEF LabInit, EvaluationBacked, Idle
<1>2. ReportBacked
  BY DEF LabInit, ReportBacked, EvidenceIsBacked
<1>3. QED
  BY <1>1, <1>2

\* For any commits, sources, kernels and splits, and whatever is killed, repeated or
\* checked out between evaluations: the experiments a report names are registered,
\* with the commit and the results it speaks of, and its two runs agree.
THEOREM EvidenceStaysBacked == LabSpec => []EvidenceIsBacked
<1>1. EvaluationBacked /\ ReportBacked => EvidenceIsBacked
  BY DEF ReportBacked
<1>2. QED
  BY <1>1, InitBacked, NextBacked, PTL DEF LabSpec

-----------------------------------------------------------------------------
(* The splits and the windows of the lab.                                  *)

\* A set of natural numbers has a least element.
LEMMA LeastNatural ==
  ASSUME NEW T, T \subseteq Nat, T # {}
  PROVE  \E m \in T : \A k \in T : m <= k
<1> DEFINE R == {ss \in Nat \X Nat : ss[1] < ss[2]}
<1>1. IsWellFoundedOn(R, Nat)
  BY NatLessThanWellFounded DEF OpToRel
<1> HIDE DEF R
<1>2. PICK m \in T : \A k \in T : ~(<<k, m>> \in R)
  BY <1>1, WFMin
<1>3. ASSUME NEW k \in T PROVE m <= k
  <2>1. m \in Nat /\ k \in Nat
    OBVIOUS
  <2>2. ~(k < m)
    BY <1>2, <2>1 DEF R
  <2>3. QED
    BY <2>1, <2>2
<1>4. QED
  BY <1>2, <1>3

\* A product grows with its factors.
LEMMA ProductGrows ==
  ASSUME NEW a \in Nat, NEW b \in Nat, NEW q \in Nat, a <= b
  PROVE  a * q <= b * q /\ a * q \in Nat /\ b * q \in Nat
  OBVIOUS

\* Division leaves a rest below the divisor.
LEMMA DivideWithRest ==
  ASSUME NEW total \in Nat, NEW n \in Nat \ {0}
  PROVE  /\ total \div n \in Nat /\ total % n \in Nat /\ total % n < n
         /\ total = n * (total \div n) + (total % n)
  OBVIOUS

\* The three splits follow one another.
LEMMA SplitsInOrder ==
  /\ DevelopmentEnd \in Nat /\ WalkForwardEnd \in Nat /\ TotalRows \in Nat
  /\ DevelopmentEnd < WalkForwardEnd /\ WalkForwardEnd < TotalRows
  BY LabAssumption

\* The first row of window k, of windows of q rows of which the first r have one
\* more.
First(q, r, k) == DevelopmentEnd + k * q + (IF k < r THEN k ELSE r)

\* A window begins at a row.
LEMMA FirstIsARow ==
  ASSUME NEW q \in Nat, NEW r \in Nat, NEW i \in Nat
  PROVE  First(q, r, i) \in Nat
<1>1. PICK a \in Nat : a = i * q
  BY ProductGrows, i <= i
<1>2. DevelopmentEnd \in Nat
  BY SplitsInOrder
<1>3. QED
  BY <1>1, <1>2 DEF First

\* Windows start where the one before ends, at least a row later.
LEMMA FirstRowsGrow ==
  ASSUME NEW q \in Nat \ {0}, NEW r \in Nat, NEW i \in Nat, NEW j \in Nat, i < j
  PROVE  /\ First(q, r, i + 1) <= First(q, r, j)
         /\ First(q, r, i) < First(q, r, i + 1)
<1>1. DevelopmentEnd \in Nat
  BY SplitsInOrder
<1>2. (i + 1) * q <= j * q /\ i * q \in Nat /\ j * q \in Nat /\ (i + 1) * q = i * q + q
  BY ProductGrows
<1>3. PICK a, b, c \in Nat : a = i * q /\ b = j * q /\ c = (i + 1) * q
  BY <1>2
<1>4. c <= b /\ c = a + q
  BY <1>2, <1>3
<1>5. /\ First(q, r, i) = DevelopmentEnd + a + (IF i < r THEN i ELSE r)
      /\ First(q, r, i + 1) = DevelopmentEnd + c + (IF i + 1 < r THEN i + 1 ELSE r)
      /\ First(q, r, j) = DevelopmentEnd + b + (IF j < r THEN j ELSE r)
  BY <1>3 DEF First
<1>6. QED
  BY ONLY <1>1, <1>4, <1>5, q \in Nat \ {0}, r \in Nat, i \in Nat, j \in Nat, i < j

\* Every row from the first window's first to the last one's end is in exactly one.
LEMMA RowInOneWindow ==
  ASSUME NEW q \in Nat \ {0}, NEW r \in Nat, NEW n \in Nat \ {0},
         NEW row \in Nat, First(q, r, 0) <= row, row < First(q, r, n)
  PROVE  \E i \in 0..(n - 1) :
           /\ First(q, r, i) <= row /\ row < First(q, r, i + 1)
           /\ \A j \in 0..(n - 1) :
                First(q, r, j) <= row /\ row < First(q, r, j + 1) => j = i
<1> DEFINE Beyond(k) == row < First(q, r, k)
<1>1. \E k \in Nat : Beyond(k) /\ \A l \in 0..(k - 1) : ~Beyond(l)
  <2> DEFINE T == { k \in Nat : Beyond(k) }
  <2>1. T \subseteq Nat /\ n \in T
    OBVIOUS
  <2>2. PICK m \in T : \A k \in T : m <= k
    BY <2>1, LeastNatural
  <2>3. m \in Nat /\ Beyond(m)
    OBVIOUS
  <2>4. \A l \in 0..(m - 1) : ~Beyond(l)
    BY <2>2, <2>3
  <2>5. QED
    BY <2>3, <2>4
<1>2. PICK k \in Nat : Beyond(k) /\ \A l \in 0..(k - 1) : ~Beyond(l)
  BY <1>1
<1>3. k # 0 /\ k <= n
  <2>1. k # 0
    <3>1. First(q, r, 0) \in Nat
      BY FirstIsARow
    <3>2. QED
      BY <1>2, <3>1
  <2>2. k <= n
    <3>1. ~(n \in 0..(k - 1))
      BY <1>2
    <3>2. QED
      BY ONLY <3>1, k \in Nat, n \in Nat \ {0}
  <2>3. QED
    BY <2>1, <2>2
<1>4. PICK i \in 0..(n - 1) : k = i + 1
  BY <1>3
<1>5. row < First(q, r, i + 1) /\ First(q, r, i) <= row
  <2>1. First(q, r, i) \in Nat
    <3>1. i \in Nat
      OBVIOUS
    <3>2. QED
      BY <3>1, FirstIsARow
  <2>2. i \in 0..(k - 1)
    BY <1>4
  <2>3. QED
    BY <1>2, <1>4, <2>1, <2>2
<1>6. ASSUME NEW j \in 0..(n - 1), First(q, r, j) <= row, row < First(q, r, j + 1)
      PROVE  j = i
  <2>0. i \in Nat /\ j \in Nat /\ i + 1 \in Nat /\ j + 1 \in Nat
    OBVIOUS
  <2>1. CASE i < j
    <3>1. First(q, r, i + 1) <= First(q, r, j) /\ First(q, r, j) \in Nat
      BY <2>0, <2>1, FirstRowsGrow, FirstIsARow
    <3>2. First(q, r, i + 1) \in Nat
      BY <2>0, FirstIsARow
    <3>3. QED
      BY <1>5, <1>6, <3>1, <3>2
  <2>2. CASE j < i
    <3>1. First(q, r, j + 1) <= First(q, r, i) /\ First(q, r, i) \in Nat
      BY <2>0, <2>2, FirstRowsGrow, FirstIsARow
    <3>2. First(q, r, j + 1) \in Nat
      BY <2>0, FirstIsARow
    <3>3. QED
      BY <1>5, <1>6, <3>1, <3>2
  <2>3. QED
    BY <2>0, <2>1, <2>2
<1>7. QED
  BY <1>5, <1>6

\* The windows of a walk-forward cover its split and share no row.
LEMMA WindowsPartition ==
  ASSUME NEW n \in 1..(WalkForwardEnd - DevelopmentEnd),
         NEW row \in DevelopmentEnd..(WalkForwardEnd - 1)
  PROVE  Cardinality({ i \in 0..(n - 1) :
                         row \in Window(n, i)[1]..(Window(n, i)[2] - 1) }) = 1
<1> DEFINE total == WalkForwardEnd - DevelopmentEnd
           q == total \div n
           r == total % n
<1>1. total \in Nat /\ n \in Nat \ {0} /\ n <= total /\ row \in Nat
  BY SplitsInOrder
<1>2. q \in Nat /\ r \in Nat /\ r < n /\ total = n * q + r
  BY <1>1, DivideWithRest
<1>3. q # 0
  BY <1>1, <1>2
<1>4. \A i : Window(n, i) = <<First(q, r, i), First(q, r, i + 1)>>
  BY DEF Window, First
<1> HIDE DEF q, r
<1>5. First(q, r, 0) = DevelopmentEnd /\ First(q, r, n) = WalkForwardEnd
  <2>1. 0 * q = 0
    BY <1>2
  <2>2. PICK p \in Nat : p = n * q
    BY <1>1, <1>2, ProductGrows, n <= n
  <2>3. total = p + r
    BY <1>2, <2>2
  <2>4. /\ First(q, r, 0) = DevelopmentEnd + 0 + (IF 0 < r THEN 0 ELSE r)
        /\ First(q, r, n) = DevelopmentEnd + p + r
    BY <1>1, <1>2, <2>1, <2>2 DEF First
  <2>5. QED
    BY <1>2, <2>2, <2>3, <2>4, SplitsInOrder
<1>6. PICK i \in 0..(n - 1) :
        /\ First(q, r, i) <= row /\ row < First(q, r, i + 1)
        /\ \A j \in 0..(n - 1) :
             First(q, r, j) <= row /\ row < First(q, r, j + 1) => j = i
  <2>1. First(q, r, 0) <= row /\ row < First(q, r, n)
    BY <1>5, SplitsInOrder
  <2>2. QED
    BY <1>1, <1>2, <1>3, <2>1, RowInOneWindow
<1>7. \A j \in 0..(n - 1) :
        row \in Window(n, j)[1]..(Window(n, j)[2] - 1)
          <=> First(q, r, j) <= row /\ row < First(q, r, j + 1)
  <2> TAKE j \in 0..(n - 1)
  <2>1. First(q, r, j) \in Nat /\ First(q, r, j + 1) \in Nat
    <3>1. j \in Nat /\ j + 1 \in Nat
      BY <1>1
    <3>2. QED
      BY <1>2, <3>1, FirstIsARow
  <2>2. Window(n, j)[1] = First(q, r, j) /\ Window(n, j)[2] = First(q, r, j + 1)
    BY <1>4
  <2>3. QED
    BY <1>1, <2>1, <2>2
<1>8. { j \in 0..(n - 1) : row \in Window(n, j)[1]..(Window(n, j)[2] - 1) } = {i}
  BY <1>6, <1>7
<1>9. QED
  BY <1>8, FS_Singleton

\* Three of three comparisons are all of them.
LEMMA ThreeWinsAreAll ==
  ASSUME NEW b, NEW c, Cardinality(Wins(b, c)) = 3
  PROVE  Better(c.net, b.net) /\ Better(c.factor, b.factor)
<1> DEFINE all == {"net", "expectancy", "factor"}
<1>1. IsFiniteSet(all) /\ Cardinality(all) = 3
  <2>1. IsFiniteSet({}) /\ Cardinality({}) = 0
    BY FS_EmptySet
  <2>2. IsFiniteSet({"net"}) /\ Cardinality({"net"}) = 1
    BY FS_Singleton
  <2>3. IsFiniteSet({"net", "expectancy"}) /\ Cardinality({"net", "expectancy"}) = 2
    <3>1. {"net", "expectancy"} = {"net"} \cup {"expectancy"} /\ "expectancy" \notin {"net"}
      OBVIOUS
    <3>2. QED
      BY <2>2, <3>1, FS_AddElement
  <2>4. all = {"net", "expectancy"} \cup {"factor"} /\ "factor" \notin {"net", "expectancy"}
    OBVIOUS
  <2>5. QED
    BY <2>3, <2>4, FS_AddElement
<1>2. Wins(b, c) \in SUBSET all
  BY DEF Wins
<1>3. Wins(b, c) = all
  BY <1>1, <1>2, FS_Subset
<1>4. \A m \in all : Better(c[m], b[m])
  BY <1>3 DEF Wins
<1>5. QED
  BY <1>4

ServedAsGuarded ==
  /\ served.rows[2] <= WalkForwardEnd
  /\ served.rows[2] > DevelopmentEnd =>
       /\ served.authorized
       /\ LET b == served.evidence[1]
              c == served.evidence[2]
          IN c.net > b.net /\ c.net > 0 /\ Finite(b.factor) /\ Finite(c.factor)

\* What passes the guard ends before the holdout, and before the walk-forward
\* without its token.
LEMMA ValidEndsInTime ==
  ASSUME NEW first \in Int, NEW end \in Int, NEW token \in BOOLEAN,
         Valid(<<first, end>>, token)
  PROVE  end <= WalkForwardEnd /\ (~token => end <= DevelopmentEnd)
  BY SplitsInOrder DEF Valid, FinalHoldout, IntersectsWalkForward

\* A range of rows is a pair of numbers.
LEMMA RangesAreInts ==
  ASSUME NEW rows \in Ranges
  PROVE  rows = <<rows[1], rows[2]>> /\ rows[1] \in Int /\ rows[2] \in Int
  BY SplitsInOrder DEF Ranges

\* So is a window.
LEMMA WindowsAreInts ==
  ASSUME NEW rows \in Windows
  PROVE  rows = <<rows[1], rows[2]>> /\ rows[1] \in Int /\ rows[2] \in Int
<1>1. PICK n \in 1..(WalkForwardEnd - DevelopmentEnd),
           i \in 0..(WalkForwardEnd - DevelopmentEnd - 1) : rows = Window(n, i)
  BY DEF Windows
<1> DEFINE total == WalkForwardEnd - DevelopmentEnd
           q == total \div n
           r == total % n
<1>2. total \in Nat /\ n \in Nat \ {0} /\ i \in Nat /\ i + 1 \in Nat
  BY SplitsInOrder
<1>3. q \in Nat /\ r \in Nat
  BY <1>2, DivideWithRest
<1>4. rows = <<First(q, r, i), First(q, r, i + 1)>>
  BY <1>1 DEF Window, First
<1> HIDE DEF q, r
<1>5. First(q, r, i) \in Nat /\ First(q, r, i + 1) \in Nat
  BY <1>2, <1>3, FirstIsARow
<1>6. QED
  BY <1>4, <1>5

\* Rows that are not served break no rule.
LEMMA NothingIsServed == served' = Nothing => ServedAsGuarded'
  BY SplitsInOrder DEF Nothing, ServedAsGuarded

\* Every opening of the dataset was guarded for what it serves.
LEMMA NextServed ==
  ASSUME ServedAsGuarded, [LabNext]_labVars
  PROVE  ServedAsGuarded'
<1>1. ASSUME NEW rows \in Ranges, Evaluate(rows) \/ OpenDataset(rows)
      PROVE  ServedAsGuarded'
  <2>1. Valid(rows, FALSE) /\ served'.rows = rows
    <3>1. CASE Evaluate(rows)
      BY <3>1 DEF Evaluate
    <3>2. CASE OpenDataset(rows)
      BY <3>2 DEF OpenDataset
    <3>3. QED
      BY <1>1, <3>1, <3>2
  <2>2. PICK first, end \in Int : rows = <<first, end>>
    BY RangesAreInts
  <2>3. end <= DevelopmentEnd
    BY <2>1, <2>2, ValidEndsInTime
  <2>4. served'.rows[2] = end
    BY <2>1, <2>2
  <2>5. QED
    BY <2>2, <2>3, <2>4, SplitsInOrder DEF ServedAsGuarded
<1>2. CASE DevelopmentSmoke
  <2>1. Valid(SmokeRows, FALSE) /\ served'.rows = SmokeRows
    BY <1>2 DEF DevelopmentSmoke, OpenDataset
  <2>2. SmokeRows[2] = DevelopmentEnd - 1
    BY DEF SmokeRows
  <2>3. QED
    BY <2>1, <2>2, SplitsInOrder DEF ServedAsGuarded
<1>3. ASSUME NEW b \in Metrics, NEW c \in Metrics, NEW humanAuthorized \in BOOLEAN,
             NEW rows \in Windows \cup Ranges,
             GuardedWalkForwardOpen(b, c, humanAuthorized, rows)
      PROVE  ServedAsGuarded'
  <2>1. /\ Valid(rows, TRUE) /\ WalkForwardEligible(Classify(b, c), c)
        /\ served' = [rows |-> rows, authorized |-> TRUE, evidence |-> <<b, c>>]
    BY <1>3 DEF GuardedWalkForwardOpen
  <2>2. PICK first, end \in Int : rows = <<first, end>>
    BY RangesAreInts, WindowsAreInts
  <2>3. end <= WalkForwardEnd
    BY <2>1, <2>2, ValidEndsInTime
  <2>4. Classify(b, c) = "IMPROVED" /\ Viable(c)
    BY <2>1 DEF WalkForwardEligible
  <2>5. Cardinality(Wins(b, c)) = 3
    BY <2>4 DEF Classify
  <2>6. Better(c.net, b.net) /\ Better(c.factor, b.factor)
    BY <2>5, ThreeWinsAreAll
  <2>7. c.net > b.net /\ c.net > 0 /\ Finite(b.factor) /\ Finite(c.factor)
    BY <2>4, <2>6 DEF Better, Viable
  <2>8. /\ served'.rows[2] = end /\ served'.authorized
        /\ served'.evidence[1] = b /\ served'.evidence[2] = c
    BY <2>1, <2>2
  <2>9. QED
    BY <2>3, <2>7, <2>8 DEF ServedAsGuarded
<1>4. CASE Register \/ Conflict \/ RunSessions \/ BehaviorDriftFound \/ WriteMarkdown
           \/ Killed
  BY <1>4, NothingIsServed
  DEF Register, Conflict, RunSessions, BehaviorDriftFound, WriteMarkdown, Killed
<1>5. CASE \E b, c \in Metrics : WriteReport(b, c)
  BY <1>5, NothingIsServed DEF WriteReport
<1>6. CASE \E c \in Commits : Checkout(c)
  BY <1>6, NothingIsServed DEF Checkout
<1>7. CASE UNCHANGED labVars
  BY <1>7 DEF labVars, ServedAsGuarded
<1>8. QED
  BY <1>1, <1>2, <1>3, <1>4, <1>5, <1>6, <1>7 DEF LabNext

\* For any splits and any metrics: no row of the final holdout is ever served, rows of
\* the walk-forward split only with an authorization and for a candidate that earns
\* and beats its baseline, and for every number of windows each row of the split is in
\* exactly one.
THEOREM SplitsStayKept == LabSpec => []SplitsAreKept
<1>1. LabInit => ServedAsGuarded
  BY SplitsInOrder DEF LabInit, Nothing, ServedAsGuarded
<1>2. ServedAsGuarded => SplitsAreKept
  <2>1. \A n \in 1..(WalkForwardEnd - DevelopmentEnd) :
          \A row \in DevelopmentEnd..(WalkForwardEnd - 1) :
            Cardinality({ i \in 0..(n - 1) :
                            row \in Window(n, i)[1]..(Window(n, i)[2] - 1) }) = 1
    BY WindowsPartition
  <2>2. QED
    BY <2>1 DEF ServedAsGuarded, SplitsAreKept
<1>3. ServedAsGuarded /\ [LabNext]_labVars => ServedAsGuarded'
  BY NextServed
<1>4. QED
  BY <1>1, <1>2, <1>3, PTL DEF LabSpec

=============================================================================
