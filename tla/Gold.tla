--------------------------------- MODULE Gold ----------------------------------
(***************************************************************************)
(* The gold layer and its readers: create_dataset freezes days of the      *)
(* silver layers under an id that is the hash of all it refers to; a       *)
(* replay, or the common-window runner, validates a dataset, reads its     *)
(* files, and writes a ledger, or the trades and the summary of a run.     *)
(*                                                                         *)
(* A silver file is the version of the exchange's trades it was made from  *)
(* (Damaged: no version), and a hash is the content it was taken of.  What *)
(* replay_engine computes from candles and trades is the module Replay.    *)
(***************************************************************************)
EXTENDS Naturals, Functions, Files

CONSTANTS
  GoldDays, MaxVersion, \* days of silver, versions of each
  Layouts,              \* places of the two silver layers
  QuietSilver,          \* silver changes only while nothing reads it
  MaxChanges            \* bound: changes of silver from outside

ASSUME GoldAssumption ==
  QuietSilver \in BOOLEAN /\ MaxVersion \in Nat \ {0} /\ MaxChanges \in Nat

VARIABLES
  trades,   \* trade file of each day, and the hash its manifest records
  candles,  \* candle files of each day, their hash, and source_trades
  layout,   \* where the layers are
  gold,     \* the datasets: id -> source_roots of its manifest
  builder,  \* the running create_dataset
  reader,   \* the running replay or common-window run
  outputs,  \* the ledger, and the trades and the summary of a run
  changes   \* history: changes of silver from outside

goldVars == <<trades, candles, layout, gold, builder, reader, outputs, changes>>
silver == <<trades, candles, layout, changes>>

Damaged == 0
Intact(files, days) == \A d \in days : files[d].content = files[d].recorded
Hashes(files, days) == [ d \in days |-> files[d].content ]

-----------------------------------------------------------------------------
(* create_dataset.                                                         *)

\* _collect_sources, the trades: every file against its manifest.
CollectTrades(days) ==
  /\ builder = Idle
  /\ Intact(trades, days)
  /\ builder' = [stage |-> "candles", trades |-> Hashes(trades, days)]
  /\ UNCHANGED <<silver, gold, reader, outputs>>

\* The identity of a dataset is all it refers to; where that lies is only in the
\* manifest.
DatasetId(tradeHashes, candleHashes) == [trades |-> tradeHashes, candles |-> candleHashes]
SourceRoots == layout

\* The candles: every file against its manifest, and made from those trades.
LineageMatches(files, hashes) == \A d \in DOMAIN hashes : files[d].source = hashes[d]
CollectCandles ==
  /\ builder.stage = "candles"
  /\ LET days == DOMAIN builder.trades IN
     builder' = IF Intact(candles, days) /\ LineageMatches(candles, builder.trades)
                THEN [stage |-> "publish",
                      id |-> DatasetId(builder.trades, Hashes(candles, days))]
                ELSE Idle
  /\ UNCHANGED <<silver, gold, reader, outputs>>

\* The directory gets its name when its content is complete; an id that exists
\* is left alone (and is an error when its manifest names other places).
Publish ==
  /\ builder.stage = "publish"
  /\ gold' = IF builder.id \in DOMAIN gold THEN gold
             ELSE [ id \in DOMAIN gold \cup {builder.id} |->
                      IF id = builder.id THEN SourceRoots ELSE gold[id] ]
  /\ builder' = Idle
  /\ UNCHANGED <<silver, reader, outputs>>

-----------------------------------------------------------------------------
(* A replay, or a run of the common window.                                *)

\* validate_dataset: source_roots, then the hash of every file.
HashesVerified_candles_only(id) == Hashes(candles, DOMAIN id.candles) = id.candles
HashesVerified(id) ==
  /\ Hashes(trades, DOMAIN id.trades) = id.trades
  /\ Hashes(candles, DOMAIN id.candles) = id.candles
ValidateDataset(id, goal) ==
  /\ reader = Idle
  /\ gold[id] = SourceRoots /\ HashesVerified(id)
  /\ reader' = [stage |-> "candles", id |-> id, goal |-> goal]
  /\ UNCHANGED <<silver, gold, builder, outputs>>

\* load_candles and iter_trades read the files again; one that is damaged is an
\* error, another one with as many rows is not noticed.
ReadOr(files, next) ==
  reader' = IF Damaged \in Range(Hashes(files, DOMAIN reader.id.trades)) THEN Idle ELSE next
LoadCandles ==
  /\ reader.stage = "candles"
  /\ ReadOr(candles, [stage |-> "trades", id |-> reader.id, goal |-> reader.goal,
                      candles |-> Hashes(candles, DOMAIN reader.id.candles)])
  /\ UNCHANGED <<silver, gold, builder, outputs>>
Payload(read) == [id |-> reader.id, candles |-> reader.candles, trades |-> read]
ReplayTrades ==
  /\ reader.stage = "trades"
  /\ ReadOr(trades, [stage |-> "write", goal |-> reader.goal,
                     payload |-> Payload(Hashes(trades, DOMAIN reader.id.trades))])
  /\ UNCHANGED <<silver, gold, builder, outputs>>

\* write_ledger and write_artifact: a file is written once, whole; the same
\* content again is skipped, other content is an error.  The summary comes after
\* the trades it carries the hash of.
Outputs(goal) == IF goal = "ledger" THEN <<"ledger">> ELSE <<"trades", "summary">>
Conflicts(name) == outputs[name] \notin {Absent, reader.payload}
WriteOutput(name, more) ==
  /\ ~Conflicts(name)
  /\ outputs' = [outputs EXCEPT ![name] = reader.payload]
  /\ reader' = more
  /\ UNCHANGED <<silver, gold, builder>>
WriteLedger ==
  reader.stage = "write" /\ reader.goal = "ledger" /\ WriteOutput("ledger", Idle)
WriteTrades ==
  /\ reader.stage = "write" /\ reader.goal = "artifacts"
  /\ WriteOutput("trades", [reader EXCEPT !.stage = "summary"])
WriteSummary == reader.stage = "summary" /\ WriteOutput("summary", Idle)
WriteFails ==
  /\ \/ reader.stage = "write" /\ Conflicts(Outputs(reader.goal)[1])
     \/ reader.stage = "summary" /\ Conflicts("summary")
  /\ reader' = Idle
  /\ UNCHANGED <<silver, gold, builder, outputs>>

-----------------------------------------------------------------------------
(* The rest.                                                               *)

\* A killed process leaves at most a .part, which the next one removes or
\* overwrites.
Kill ==
  /\ \/ builder # Idle /\ builder' = Idle /\ UNCHANGED reader
     \/ reader # Idle /\ reader' = Idle /\ UNCHANGED builder
  /\ UNCHANGED <<silver, gold, outputs>>

\* Silver changes: an operator removes and rebuilds a day's trades from a new
\* download, or its candles from the trades that are there; a disk damages a
\* file; the layers move.
RebuildTrades(d) ==
  /\ trades[d].recorded < MaxVersion
  /\ trades' = [trades EXCEPT ![d] = [content |-> @.recorded + 1,
                                      recorded |-> @.recorded + 1]]
  /\ UNCHANGED <<candles, layout>>
RebuildCandles(d) ==
  /\ Intact(trades, {d})
  /\ candles' = [candles EXCEPT ![d] = [content |-> trades[d].content,
                                        recorded |-> trades[d].content,
                                        source |-> trades[d].content]]
  /\ UNCHANGED <<trades, layout>>
Damage(d) ==
  \/ /\ trades' = [trades EXCEPT ![d].content = Damaged]
     /\ UNCHANGED <<candles, layout>>
  \/ /\ candles' = [candles EXCEPT ![d].content = Damaged]
     /\ UNCHANGED <<trades, layout>>
Move(l) == layout' = l /\ UNCHANGED <<trades, candles>>
SilverChanges ==
  /\ QuietSilver => builder = Idle /\ reader = Idle
  /\ changes < MaxChanges /\ changes' = changes + 1
  /\ \/ \E d \in GoldDays : RebuildTrades(d) \/ RebuildCandles(d) \/ Damage(d)
     \/ \E l \in Layouts : Move(l)
  /\ UNCHANGED <<gold, builder, reader, outputs>>

GoldInit ==
  /\ trades = [d \in GoldDays |-> [content |-> 1, recorded |-> 1]]
  /\ candles = [d \in GoldDays |-> [content |-> 1, recorded |-> 1, source |-> 1]]
  /\ layout = CHOOSE l \in Layouts : TRUE
  /\ gold = [id \in {} |-> Absent] /\ builder = Idle /\ reader = Idle
  /\ outputs = [name \in {"ledger", "trades", "summary"} |-> Absent]
  /\ changes = 0

GoldNext ==
  \/ \E days \in SUBSET GoldDays \ {{}} : CollectTrades(days)
  \/ CollectCandles \/ Publish
  \/ \E id \in DOMAIN gold, goal \in {"ledger", "artifacts"} : ValidateDataset(id, goal)
  \/ LoadCandles \/ ReplayTrades
  \/ WriteLedger \/ WriteTrades \/ WriteSummary \/ WriteFails
  \/ Kill \/ SilverChanges

GoldSpec == GoldInit /\ [][GoldNext]_goldVars

-----------------------------------------------------------------------------
(* Properties.                                                             *)

\* Whatever is rebuilt, damaged or moved between the steps, a dataset only ever
\* joins trades with the candles that were made from exactly these trades
\* (the two clocks of a replay tell of one market).
ClocksTellOneMarket ==
  \A id \in DOMAIN gold : id.trades = id.candles

\* What a ledger or an artifact was computed from is what its dataset names,
\* though files are read again after they were hashed and runs are killed,
\* repeated and mixed in one directory; and a summary stands by its trades.
\* This takes an operator who leaves silver alone while a process reads it.
OutputsAreOfTheirDataset ==
  /\ ClocksTellOneMarket
  /\ \A name \in DOMAIN outputs :
       outputs[name] # Absent =>
         /\ outputs[name].id \in DOMAIN gold
         /\ outputs[name].trades = outputs[name].id.trades
         /\ outputs[name].candles = outputs[name].id.candles
  /\ outputs["summary"] \in {Absent, outputs["trades"]}
=============================================================================
