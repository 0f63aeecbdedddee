---------------------------------- MODULE Lab ----------------------------------
(***************************************************************************)
(* The research lab: development evaluations that compare a candidate      *)
(* strategy with the baseline on the frozen dataset, the registry that     *)
(* keeps their experiments by content, the evidence they leave, and the    *)
(* guards between the splits of the dataset.                               *)
(*                                                                         *)
(* A hash is its preimage.  A session is deterministic, so its trace is    *)
(* named by all that decides it: strategy, rows, and the code it runs.     *)
(* Code has three parts: what a StrategyDefinition lists as sources, what  *)
(* the kernel bundle lists, and behaviour outside both (domain.time.day,   *)
(* lab.session_runner, which the bundle does not list).                    *)
(***************************************************************************)
EXTENDS Integers, Sequences, SequencesExt, FiniteSetsExt, Files

CONSTANTS
  Commits, FirstCommit, \* commits of the repository, and that of the anchor
  Source(_, _),         \* the sources of a strategy at a commit
  Kernel(_),            \* the modules of the kernel bundle at a commit
  Outside(_),           \* behaviour outside sources and bundle at a commit
  DevelopmentEnd, WalkForwardEnd, TotalRows, \* the splits, from row 0
  Metrics,              \* metrics a session on all rows may end with
  BaselineMetrics(_),   \* those of the baseline on all development rows, at a commit
  MaxEvaluations        \* bound: evaluations started

ASSUME LabAssumption ==
  /\ FirstCommit \in Commits /\ MaxEvaluations \in Nat
  /\ {DevelopmentEnd, WalkForwardEnd, TotalRows} \subseteq Nat \ {0}
  /\ DevelopmentEnd < WalkForwardEnd /\ WalkForwardEnd < TotalRows
  /\ \A c \in Commits : BaselineMetrics(c) \in Metrics

VARIABLES
  script,      \* the evaluation script of the phase at work
  head,        \* the commit that is checked out
  evaluation,  \* the running process
  registry,    \* ExperimentRegistry: the files that exist
  report, markdown, \* development-comparison.json and .md
  served,      \* the rows the last step opened an adapter on, and how
  started      \* history: evaluations started

labVars == <<script, head, evaluation, registry, report, markdown, served,
             started>>

Nothing == [rows |-> <<0, 0>>, authorized |-> FALSE, evidence |-> Absent]

-----------------------------------------------------------------------------
(* The splits and their guards.  A range is <<first, end>>, the end open.  *)

FinalHoldout(r) ==
  r[1] < TotalRows /\ r[2] > WalkForwardEnd
IntersectsWalkForward_off_by_one(r) ==
  r[1] < WalkForwardEnd /\ r[2] > DevelopmentEnd + 1
IntersectsWalkForward(r) ==
  r[1] < WalkForwardEnd /\ r[2] > DevelopmentEnd

\* _validate_range, with or without the walk-forward token.
Valid(r, token) ==
  /\ r[1] >= 0 /\ r[1] < r[2] /\ r[2] <= TotalRows
  /\ ~FinalHoldout(r)
  /\ IntersectsWalkForward(r) => token

\* walk_forward_windows: n windows, the first ones a row longer.
Window(n, i) ==
  LET total == WalkForwardEnd - DevelopmentEnd
      start(k) == DevelopmentEnd + k * (total \div n)
                    + (IF k < total % n THEN k ELSE total % n)
  IN <<start(i), start(i + 1)>>
Windows == { Window(n, i) : n \in 1..(WalkForwardEnd - DevelopmentEnd),
                            i \in 0..(WalkForwardEnd - DevelopmentEnd - 1) }

Ranges == (-1..TotalRows) \X (0..(TotalRows + 1))
Development == <<0, DevelopmentEnd>>

-----------------------------------------------------------------------------
(* The scripts of the four development evaluations: which candidates they  *)
(* register and run after the baseline (the last one twice, to compare the *)
(* runs), whether they hold the baseline against its anchor, and whether   *)
(* they apply the absolute viability gate.  A record stands for the         *)
(* evaluate() of its phase, which the actions below run with it.            *)

Script18B == [candidates |-> <<"btc-context">>, anchored |-> FALSE, gated |-> FALSE]
Script18D ==
  [candidates |-> <<"btc-context", "btc-regime">>, anchored |-> FALSE, gated |-> FALSE]
Script19B == [candidates |-> <<"donchian">>, anchored |-> FALSE, gated |-> FALSE]
Script20B == [candidates |-> <<"bollinger">>, anchored |-> TRUE, gated |-> TRUE]
Scripts == {Script18B, Script18D, Script19B, Script20B}

Strategies(s) == <<"baseline">> \o s.candidates
Judged(s) == Last(s.candidates)

\* strategy_artifact_identity and make_kernel_identity, of the code at commit c.
ArtifactIdentity(strategy, c) == [strategy |-> strategy, sources |-> Source(strategy, c)]
KernelIdentity(c) == [kernel_bundle_version |-> 1, kernel_fingerprint |-> Kernel(c)]

\* spec_id: the canonical content of the semantic inputs.
SpecId(strategy, rows, c) ==
  [rows |-> rows, strategy |-> ArtifactIdentity(strategy, c), kernel |-> KernelIdentity(c)]
\* event_trace_hash and metrics_hash of a session.
Trace(strategy, rows, c) == <<SpecId(strategy, rows, c), Outside(c)>>

\* An ExperimentRun: its provenance and its results.
RunOf(strategy, rows, c) == [sha |-> c, trace |-> Trace(strategy, rows, c)]
SpecFile(strategy, rows, c) == <<SpecId(strategy, rows, c), "spec">>
RunFile(strategy, rows, c, run) == <<SpecId(strategy, rows, c), run>>

SpecWrites(s, rows, c) ==
  [ i \in DOMAIN Strategies(s) |->
      LET k == Strategies(s)[i] IN
      [path |-> SpecFile(k, rows, c), content |-> SpecId(k, rows, c)] ]
RunWrites(s, rows, c) ==
  [ i \in DOMAIN Strategies(s) |->
      LET k == Strategies(s)[i] IN
      [path |-> RunFile(k, rows, c, "run-1"), content |-> RunOf(k, rows, c)] ]
  \o << [path |-> RunFile(Judged(s), rows, c, "run-2"),
         content |-> RunOf(Judged(s), rows, c)] >>

-----------------------------------------------------------------------------
(* classify_development_result and the viability gate.                     *)

Infinite == 1000    \* a profit factor without losing trades
Undefined == -1000  \* a ratio without trades
Finite(v) == v \notin {Infinite, Undefined}
Better(v, w) == Finite(v) /\ Finite(w) /\ v > w

\* The comparisons of candidate c with baseline b that c wins.  A net PnL is
\* always finite, so the same comparison serves for it.
Wins(b, c) == { m \in {"net", "expectancy", "factor"} : Better(c[m], b[m]) }
Classify(b, c) ==
  IF Cardinality(Wins(b, c)) = 3 /\ c.drawdown <= b.drawdown + 1 THEN "IMPROVED"
  ELSE IF Wins(b, c) = {} \/ Cardinality(Wins(c, b)) >= 2 THEN "NOT_IMPROVED"
  ELSE "MIXED"

One == 2  \* a profit factor of 1.0: factors are counted in halves
Viable(m) ==
  /\ m.net > 0
  /\ Finite(m.expectancy) /\ m.expectancy > 0
  /\ Finite(m.factor) /\ m.factor > One
WalkForwardEligible(result, m) == result = "IMPROVED" /\ Viable(m)

-----------------------------------------------------------------------------
(* An evaluation.                                                          *)

\* main and evaluate: the range is checked twice before the dataset is opened.
Evaluate(rows) ==
  /\ evaluation = Idle /\ started < MaxEvaluations
  /\ rows[1] >= 0 /\ rows[1] < rows[2] /\ rows[2] <= DevelopmentEnd
  /\ Valid(rows, FALSE)
  /\ served' = [rows |-> rows, authorized |-> FALSE, evidence |-> Absent]
  /\ evaluation' = [stage |-> "specs", rows |-> rows,
                    todo |-> SpecWrites(script, rows, head)]
  /\ started' = started + 1
  /\ UNCHANGED <<script, head, registry, report, markdown>>

Registering == evaluation.stage \in {"specs", "runs"} /\ evaluation.todo # <<>>
Existing(path) == IF path \in DOMAIN registry THEN registry[path] ELSE Absent
WithFile(path, content) ==
  [ p \in DOMAIN registry \cup {path} |-> IF p = path THEN content ELSE registry[p] ]

\* register_spec and register_run: a file with the same content is left alone,
\* one with other content, or one that cannot be read, is an error that ends
\* the evaluation.
Accepts_anything(existing, content) == TRUE
Accepts(existing, content) == existing \in {Absent, content}
Register ==
  /\ Registering
  /\ LET w == Head(evaluation.todo) IN
     /\ Accepts(Existing(w.path), w.content)
     /\ registry' = WithFile(w.path, w.content)
  /\ evaluation' = [evaluation EXCEPT !.todo = Tail(@)]
  /\ served' = Nothing
  /\ UNCHANGED <<script, head, report, markdown, started>>

Conflict ==
  /\ Registering
  /\ LET w == Head(evaluation.todo) IN ~Accepts(Existing(w.path), w.content)
  /\ evaluation' = Idle
  /\ served' = Nothing
  /\ UNCHANGED <<script, head, registry, report, markdown, started>>

RunSessions ==
  /\ evaluation.stage = "specs" /\ evaluation.todo = <<>>
  /\ evaluation' = [evaluation EXCEPT !.stage = "runs",
                      !.todo = RunWrites(script, evaluation.rows, head)]
  /\ served' = Nothing
  /\ UNCHANGED <<script, head, registry, report, markdown, started>>

\* compare_runs, classification, gate and anchor; nothing is written on the way.  On
\* all development rows the baseline must end with the metrics of the anchor, whatever
\* has changed in the code; metrics differ when they are further apart than _close
\* tolerates.
Drifted ==
  /\ script.anchored /\ evaluation.rows = Development
  /\ BaselineMetrics(head) # BaselineMetrics(FirstCommit)
BehaviorDriftFound ==
  /\ evaluation.stage = "runs" /\ evaluation.todo = <<>> /\ Drifted
  /\ evaluation' = Idle
  /\ served' = Nothing
  /\ UNCHANGED <<script, head, registry, report, markdown, started>>

\* The comparison of baseline metrics b with candidate metrics c.
ReportOf(b, c) ==
  [sha |-> head, rows |-> evaluation.rows,
   specs |-> [ i \in DOMAIN Strategies(script) |->
                 SpecId(Strategies(script)[i], evaluation.rows, head) ],
   trace |-> Trace(Judged(script), evaluation.rows, head),
   eligible |-> script.gated /\ WalkForwardEligible(Classify(b, c), c)]

\* The evidence is written over whatever was there, first the JSON.
WriteReport(b, c) ==
  /\ evaluation.stage = "runs" /\ evaluation.todo = <<>> /\ ~Drifted
  /\ evaluation.rows = Development => b = BaselineMetrics(head)
  /\ report' = ReportOf(b, c)
  /\ evaluation' = [evaluation EXCEPT !.stage = "markdown"]
  /\ served' = Nothing
  /\ UNCHANGED <<script, head, registry, markdown, started>>

WriteMarkdown ==
  /\ evaluation.stage = "markdown"
  /\ markdown' = report
  /\ evaluation' = Idle
  /\ served' = Nothing
  /\ UNCHANGED <<script, head, registry, report, started>>

\* The process is killed, perhaps in the middle of a write_text.
Killed ==
  /\ evaluation # Idle
  /\ evaluation' = Idle
  /\ \/ UNCHANGED <<registry, report, markdown>>
     \/ /\ Registering
        /\ Existing(Head(evaluation.todo).path) = Absent
        /\ registry' = WithFile(Head(evaluation.todo).path, Torn)
        /\ UNCHANGED <<report, markdown>>
     \/ /\ evaluation.stage = "runs" /\ evaluation.todo = <<>> /\ ~Drifted
        /\ report' = Torn
        /\ UNCHANGED <<registry, markdown>>
     \/ /\ evaluation.stage = "markdown"
        /\ markdown' = Torn
        /\ UNCHANGED <<registry, report>>
  /\ served' = Nothing
  /\ UNCHANGED <<script, head, started>>

Checkout(c) ==
  /\ evaluation = Idle
  /\ head' = c
  /\ served' = Nothing
  /\ UNCHANGED <<script, evaluation, registry, report, markdown, started>>

-----------------------------------------------------------------------------
(* Opening the dataset elsewhere.  It touches nothing else, so it is       *)
(* modelled before the first evaluation only.                              *)

\* FrozenDatasetAdapter.from_repo: anyone, any range.
OpenDataset(rows) ==
  /\ evaluation = Idle /\ started = 0
  /\ Valid(rows, FALSE)
  /\ served' = [rows |-> rows, authorized |-> FALSE, evidence |-> Absent]
  /\ UNCHANGED <<script, head, evaluation, registry, report, markdown, started>>

\* The smoke scripts of the strategies: some first rows, checked before the dataset
\* is opened.
SmokeRows == <<0, DevelopmentEnd - 1>>
DevelopmentSmoke ==
  /\ SmokeRows[2] <= DevelopmentEnd /\ ~FinalHoldout(SmokeRows)
  /\ OpenDataset(SmokeRows)

\* guarded_walk_forward_open for a candidate with metrics c against baseline b:
\* nothing is read unless the candidate is eligible and a human agreed.
GuardedWalkForwardOpen(b, c, humanAuthorized, rows) ==
  /\ evaluation = Idle /\ started = 0
  /\ WalkForwardEligible(Classify(b, c), c)
  /\ humanAuthorized
  /\ Valid(rows, TRUE)
  /\ served' = [rows |-> rows, authorized |-> TRUE, evidence |-> <<b, c>>]
  /\ UNCHANGED <<script, head, evaluation, registry, report, markdown, started>>

-----------------------------------------------------------------------------

LabInit ==
  /\ script \in Scripts
  /\ head = FirstCommit /\ evaluation = Idle
  /\ registry = [p \in {} |-> Absent] /\ report = Absent /\ markdown = Absent
  /\ served = Nothing /\ started = 0

LabNext ==
  \/ \E rows \in Ranges : Evaluate(rows)
  \/ Register \/ Conflict \/ RunSessions
  \/ BehaviorDriftFound \/ WriteMarkdown
  \/ \E b, c \in Metrics : WriteReport(b, c)
  \/ Killed
  \/ \E c \in Commits : Checkout(c)
  \/ \E rows \in Ranges : OpenDataset(rows)
  \/ DevelopmentSmoke
  \/ \E b, c \in Metrics, humanAuthorized \in BOOLEAN, rows \in Windows \cup Ranges :
       GuardedWalkForwardOpen(b, c, humanAuthorized, rows)

LabSpec == LabInit /\ [][LabNext]_labVars

-----------------------------------------------------------------------------
(* Properties.                                                             *)

\* No row of the final holdout is ever served, not even with an authorization;
\* rows of the walk-forward split only to a human, for a candidate that earns,
\* and that beats its baseline while both have lost a trade.  The windows of a
\* walk-forward cover its split and share no row.
SplitsAreKept ==
  /\ served.rows[2] <= WalkForwardEnd
  /\ served.rows[2] > DevelopmentEnd =>
       /\ served.authorized
       /\ LET b == served.evidence[1]
              c == served.evidence[2]
          IN c.net > b.net /\ c.net > 0 /\ Finite(b.factor) /\ Finite(c.factor)
  /\ \A n \in 1..(WalkForwardEnd - DevelopmentEnd) :
       \A row \in DevelopmentEnd..(WalkForwardEnd - 1) :
         Cardinality({ i \in 0..(n - 1) :
                         row \in Window(n, i)[1]..(Window(n, i)[2] - 1) }) = 1

\* Whatever was killed, repeated or checked out in between: the experiments a
\* report names are registered, with the commit and the results it speaks of,
\* and its two runs agree.
EvidenceIsBacked ==
  report \notin {Absent, Torn} =>
    /\ \A i \in DOMAIN report.specs :
         /\ Existing(<<report.specs[i], "spec">>) = report.specs[i]
         /\ Existing(<<report.specs[i], "run-1">>) \notin {Absent, Torn}
         /\ Existing(<<report.specs[i], "run-1">>).sha = report.sha
    /\ \A run \in {"run-1", "run-2"} :
         Existing(<<Last(report.specs), run>>) = [sha |-> report.sha, trace |-> report.trace]

=============================================================================
