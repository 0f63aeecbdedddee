------------------------------ MODULE Medallion ------------------------------
(***************************************************************************)
(* The Medallion data pipeline: one trades file per day is downloaded to   *)
(* Bronze, normalised to Silver and aggregated to candles, one file per    *)
(* timeframe.  Every layer keeps a manifest with the hash of each of its   *)
(* files.  run_refresh, started by a timer, plans the missing steps from   *)
(* the manifests and its own status file and runs them; an operator may    *)
(* run the command line of a layer for a day.                              *)
(*                                                                         *)
(* Content is represented by the version of the published file it comes    *)
(* from: the transformations are deterministic, so that hashes are equal   *)
(* exactly when versions are.  0 means absent.                             *)
(***************************************************************************)
EXTENDS Integers, Sequences, FiniteSetsExt, SequencesExt

CONSTANTS
  LastDay,        \* bound: days are 1..LastDay
  Class,          \* day -> access class
  StartDay,       \* RefreshConfig.start_day
  FutureScope,    \* does RefreshConfig.ingest_scope include FUTURE_COLLECTION?
  Timeframes,     \* TIMEFRAMES, a sequence
  Workers,        \* the processes: "refresh" and possibly "cli"
  OneAtATime,     \* does the operator wait for the refresh and it for the operator?
  MaxRevisions,   \* bound: times the source publishes a day again
  MaxFailures,    \* bound: failed downloads and failed capacity checks
  MaxInterrupts   \* bound: processes killed or write errors

Day == 1..LastDay
AccessClass == {"EARLY", "DEVELOPMENT", "WALK_FORWARD", "FINAL_HOLDOUT",
                "FUTURE_COLLECTION"}
Frozen == {"WALK_FORWARD", "FINAL_HOLDOUT"}

ASSUME MedallionAssumption ==
  /\ {LastDay, MaxRevisions, MaxFailures, MaxInterrupts} \subseteq Nat
  /\ StartDay \in Day
  /\ Timeframes \in Seq(STRING \ {"bronze", "silver"}) /\ Timeframes # <<>>
  /\ \A i, j \in DOMAIN Timeframes : Timeframes[i] = Timeframes[j] => i = j
  /\ Workers \in {{"refresh"}, {"refresh", "cli"}}
  /\ Class \in [Day -> AccessClass]
  /\ {FutureScope, OneAtATime} \subseteq BOOLEAN
  /\ "refresh" \in Workers

VARIABLES
  target,        \* yesterday, RefreshConfig.target_day
  source,        \* day -> version the exchange publishes
  files,         \* name -> content of the final file
  parts,         \* name -> content of the .part file
  entries,       \* name -> content its layer's manifest records
  job,           \* worker -> the layer operation it is in
  phase,         \* is a refresh running?
  goal,          \* the target_day it was started with
  plan,          \* the steps it has left, a set
  completed,     \* its completed_steps
  executed,      \* did it execute a step?
  status,        \* the status file
  failures, interrupts \* counters of the bounded events

disk == <<files, parts, entries>>
run == <<phase, goal, plan, completed, executed>>
bounds == <<failures, interrupts>>
vars == <<target, source, disk, job, run, status, bounds>>

Layer == {"bronze", "silver", "candles"}
Timeframe == ToSet(Timeframes)
Name == ({"bronze", "silver"} \cup Timeframe) \X Day
Version == 0..(MaxRevisions + 1)
LayerOf(n) == IF n[1] \in Timeframe THEN "candles" ELSE n[1]

\* The names a layer writes for a day, in order.
Outputs(layer, d) ==
  IF layer = "candles" THEN [i \in DOMAIN Timeframes |-> <<Timeframes[i], d>>]
  ELSE << <<layer, d>> >>
Input(layer, d) == <<IF layer = "silver" THEN "bronze" ELSE "silver", d>>

\* The file is there and its hash is the one in the manifest.
Sound(n) == files[n] # 0 /\ files[n] = entries[n]

NoCopy == [n \in Name |-> 0]
Idle == [at |-> "idle", layer |-> "bronze", day |-> 1, left |-> {},
         content |-> 0, copy |-> NoCopy]

-----------------------------------------------------------------------------
(* The environment.                                                        *)

NextDay ==
  /\ target < LastDay
  /\ target' = target + 1
  /\ UNCHANGED <<source, disk, job, run, status, bounds>>

\* The exchange replaces a file it has published.
Revise(d) ==
  /\ source[d] <= MaxRevisions
  /\ source' = [source EXCEPT ![d] = @ + 1]
  /\ UNCHANGED <<target, disk, job, run, status, bounds>>

-----------------------------------------------------------------------------
(* One layer, one day: download_day and the two transform_day.             *)

Allowed_any_day(w, d) == TRUE
\* ensure_ingest_allowed under the scope of the worker.
Allowed(w, d) ==
  \/ Class[d] = "DEVELOPMENT"
  \/ Class[d] = "FUTURE_COLLECTION" /\ w = "refresh" /\ FutureScope

\* An output that exists must be the one the manifest and the input say.
Conflict(layer, d) ==
  \E i \in DOMAIN Outputs(layer, d) :
    LET n == Outputs(layer, d)[i] IN
    /\ files[n] # 0
    /\ ~Sound(n) \/ (layer # "bronze" /\ files[n] # files[Input(layer, d)])

\* The outputs still to write, by their place among the day's outputs.
Pending_all_outputs(layer, d) == DOMAIN Outputs(layer, d)
Pending(layer, d) == {i \in DOMAIN Outputs(layer, d) : files[Outputs(layer, d)[i]] = 0}

InputSound(layer, d) == layer = "bronze" \/ Sound(Input(layer, d))

\* Split guard, manifests and hashes; a day that is complete is skipped.
Outcome(w, layer, d) ==
  IF ~Allowed(w, d) \/ ~InputSound(layer, d) \/ Conflict(layer, d) THEN "failed"
  ELSE IF Pending(layer, d) = {} THEN "done" ELSE "build"

Begin(w, layer, d) ==
  /\ job[w].at = "idle"
  /\ job' = [job EXCEPT ![w] =
       [at |-> Outcome(w, layer, d), layer |-> layer, day |-> d,
        left |-> Pending(layer, d), copy |-> entries,
        content |-> IF layer = "bronze" THEN 0 ELSE files[Input(layer, d)]]]

\* The file a worker writes: the first that is left.
Output(w) == Outputs(job[w].layer, job[w].day)[Min(job[w].left)]

\* Download or transform the next file into its .part and hash it.
Build(w) ==
  LET v == IF job[w].layer = "bronze" THEN source[job[w].day]
           ELSE job[w].content
  IN
  /\ job[w].at = "build"
  /\ job' = [job EXCEPT ![w].at = "publish", ![w].content = v]
  /\ parts' = [parts EXCEPT ![Output(w)] = v]
  /\ UNCHANGED <<target, source, files, entries, run, status, bounds>>

\* The manifest as the worker read it, with the new entry.
Manifest(w) == [job[w].copy EXCEPT ![Output(w)] = job[w].content]

\* The layer's manifest is written before the file gets its final name.
Publish(w) ==
  /\ job[w].at = "publish"
  /\ job' = [job EXCEPT ![w].at = "rename", ![w].copy = Manifest(w)]
  /\ entries' = [n \in Name |->
       IF LayerOf(n) = job[w].layer THEN Manifest(w)[n] ELSE entries[n]]
  /\ UNCHANGED <<target, source, files, parts, run, status, bounds>>

Rest_after_first(w) == {}
Rest(w) == job[w].left \ {Min(job[w].left)}

Rename(w) ==
  LET n == Output(w) IN
  /\ job[w].at = "rename"
  /\ IF parts[n] = 0
     THEN /\ job' = [job EXCEPT ![w].at = "failed"]
          /\ UNCHANGED <<files, parts>>
     ELSE /\ files' = [files EXCEPT ![n] = parts[n]]
          /\ parts' = [parts EXCEPT ![n] = 0]
          /\ job' = [job EXCEPT ![w].left = Rest(w),
                                ![w].at = IF Rest(w) = {} THEN "done" ELSE "build"]
  /\ UNCHANGED <<target, source, entries, run, status, bounds>>

\* The download fails, or gives no gzip file with a known header.
DownloadFails(w) ==
  /\ failures < MaxFailures
  /\ job[w].at = "build" /\ job[w].layer = "bronze"
  /\ job' = [job EXCEPT ![w].at = "failed"]
  /\ parts' = [parts EXCEPT ![Output(w)] = 0]
  /\ failures' = failures + 1
  /\ UNCHANGED <<target, source, files, entries, run, status, interrupts>>

\* An operating system error in the middle of an operation.
WriteFails(w) ==
  /\ interrupts < MaxInterrupts
  /\ job[w].at \in {"build", "publish", "rename"}
  /\ job' = [job EXCEPT ![w].at = "failed"]
  /\ interrupts' = interrupts + 1
  /\ UNCHANGED <<target, source, disk, run, status, failures>>

-----------------------------------------------------------------------------
(* The refresh.                                                            *)

RefreshDays == StartDay..target
BlockedDays == {d \in RefreshDays : Class[d] \in Frozen}

\* A day is in a layer's manifest; for the candles one timeframe is enough.
Missing(layer, d) ==
  \A i \in DOMAIN Outputs(layer, d) : entries[Outputs(layer, d)[i]] = 0

PlannedSteps ==
  {s \in Layer \X RefreshDays : Missing(s[1], s[2]) /\ s \notin status.completed}

\* Steps run day by day, and layer by layer within a day.
LayerOrder == [bronze |-> 0, silver |-> 1, candles |-> 2]
Rank(s) == 3 * s[2] + LayerOrder[s[1]]
NextStep == CHOOSE s \in plan : \A other \in plan : Rank(s) <= Rank(other)

StatusOf(result, done, last) ==
  [result |-> result, completed |-> done, target |-> last]

\* The timer starts a refresh, which is over at once if a frozen day is in its
\* range or the capacity check fails.
RefreshBlocked ==
  /\ phase = "idle"
  /\ BlockedDays # {}
  /\ status' = StatusOf("ACCESS_BLOCKED", status.completed, target)
  /\ UNCHANGED <<target, source, disk, job, run, bounds>>

CapacityGuardFails ==
  /\ phase = "idle"
  /\ BlockedDays = {}
  /\ failures < MaxFailures
  /\ failures' = failures + 1
  /\ status' = StatusOf("FAIL_GUARD", status.completed, target)
  /\ UNCHANGED <<target, source, disk, job, run, interrupts>>

StartRefresh ==
  /\ phase = "idle"
  /\ OneAtATime => \A w \in Workers : job[w].at = "idle"
  /\ BlockedDays = {}
  /\ phase' = "running"
  /\ goal' = target
  /\ plan' = PlannedSteps
  /\ completed' = status.completed
  /\ executed' = FALSE
  /\ UNCHANGED <<target, source, disk, job, status, bounds>>

RunStep ==
  /\ phase = "running" /\ plan # {}
  /\ Begin("refresh", NextStep[1], NextStep[2])
  /\ UNCHANGED <<target, source, disk, run, status, bounds>>

EndRun ==
  /\ phase' = "idle" /\ goal' = 0 /\ plan' = {} /\ completed' = {} /\ executed' = FALSE

StepDone ==
  LET done == completed \cup {NextStep} IN
  /\ job["refresh"].at = "done"
  /\ job' = [job EXCEPT !["refresh"] = Idle]
  /\ plan' = plan \ {NextStep}
  /\ completed' = done
  /\ executed' = TRUE
  /\ status' = StatusOf("RUNNING", done, goal)
  /\ UNCHANGED <<target, source, disk, phase, goal, bounds>>

Recorded_with_failed_step == completed \cup {NextStep}
Recorded == completed

StepFailed ==
  /\ job["refresh"].at = "failed"
  /\ job' = [job EXCEPT !["refresh"] = Idle]
  /\ status' = StatusOf("FAILED_PARTIAL", Recorded, goal)
  /\ EndRun
  /\ UNCHANGED <<target, source, disk, bounds>>

RefreshEnds ==
  /\ phase = "running" /\ plan = {}
  /\ status' = StatusOf(IF executed THEN "OK" ELSE "OK_NOOP", completed, goal)
  /\ EndRun
  /\ UNCHANGED <<target, source, disk, job, bounds>>

RefreshKilled ==
  /\ phase = "running"
  /\ interrupts < MaxInterrupts
  /\ interrupts' = interrupts + 1
  /\ job' = [job EXCEPT !["refresh"] = Idle]
  /\ EndRun
  /\ UNCHANGED <<target, source, disk, status, failures>>

-----------------------------------------------------------------------------
(* The command lines: one layer, one day, DEVELOPMENT only.                *)

CliStarts(layer, d) ==
  /\ "cli" \in Workers
  /\ OneAtATime => phase = "idle"
  /\ d <= target
  /\ Begin("cli", layer, d)
  /\ UNCHANGED <<target, source, disk, run, status, bounds>>

CliEnds ==
  /\ "cli" \in Workers
  /\ job["cli"].at \in {"done", "failed"}
  /\ job' = [job EXCEPT !["cli"] = Idle]
  /\ UNCHANGED <<target, source, disk, run, status, bounds>>

-----------------------------------------------------------------------------

Init ==
  /\ target = StartDay
  /\ source = [d \in Day |-> 1]
  /\ files = NoCopy /\ parts = NoCopy /\ entries = NoCopy
  /\ job = [w \in Workers |-> Idle]
  /\ phase = "idle" /\ goal = 0 /\ plan = {} /\ completed = {} /\ executed = FALSE
  /\ status = [result |-> "none", completed |-> {}, target |-> 0]
  /\ failures = 0 /\ interrupts = 0

Operation(w) == Build(w) \/ Publish(w) \/ Rename(w)

RefreshStep ==
  \/ RefreshBlocked \/ StartRefresh \/ RunStep \/ StepDone \/ StepFailed
  \/ RefreshEnds \/ Operation("refresh")

Cli ==
  \/ \E layer \in Layer, d \in Day : CliStarts(layer, d)
  \/ CliEnds
  \/ "cli" \in Workers /\ Operation("cli")

Next ==
  \/ NextDay
  \/ \E d \in Day : Revise(d)
  \/ RefreshStep
  \/ Cli
  \/ CapacityGuardFails
  \/ RefreshKilled
  \/ \E w \in Workers : DownloadFails(w) \/ WriteFails(w)

Spec == Init /\ [][Next]_vars

\* The timer starts a refresh every day, days pass, and a process that runs goes on.
FairSpec == Spec /\ WF_vars(RefreshStep) /\ WF_vars(NextDay)
-----------------------------------------------------------------------------
(* Properties.                                                             *)

Results == {"none", "ACCESS_BLOCKED", "FAIL_GUARD", "RUNNING", "FAILED_PARTIAL",
            "OK", "OK_NOOP"}
Job == [at : {"idle", "build", "publish", "rename", "done", "failed"},
        layer : Layer, day : Day, left : SUBSET Nat, content : Version,
        copy : [Name -> Version]]

\* Types; an operation that works has a file to work on, and the refresh works on
\* the first step it has left.
TypeOK ==
  /\ target \in Day /\ source \in [Day -> Version]
  /\ {files, parts, entries} \subseteq [Name -> Version]
  /\ job \in [Workers -> Job]
  /\ \A w \in Workers :
       job[w].at \in {"build", "publish", "rename"} => job[w].left # {}
  /\ phase \in {"idle", "running"} /\ goal \in 0..LastDay /\ executed \in BOOLEAN
  /\ plan \subseteq Layer \X Day /\ completed \subseteq Layer \X Day
  /\ status \in [result : Results, completed : SUBSET (Layer \X Day),
                 target : 0..LastDay]
  /\ job["refresh"].at # "idle" =>
       plan # {} /\ NextStep = <<job["refresh"].layer, job["refresh"].day>>
  /\ failures \in 0..MaxFailures /\ interrupts \in 0..MaxInterrupts

Complete(layer, d) ==
  \A i \in DOMAIN Outputs(layer, d) : files[Outputs(layer, d)[i]] # 0

\* Every file that has its final name is the one its manifest records, so that no
\* operation will ever report a HashConflictError.
FilesMatchManifest == \A n \in Name : files[n] # 0 => Sound(n)

\* Every derived file comes from the very Bronze file that is on disk, revisions of
\* the source and repeated downloads notwithstanding.
LineageHolds ==
  \A n \in Name : files[n] # 0 => files[n] = files[<<"bronze", n[2]>>]

\* A step in completed_steps is really done: every file of it is there.
CompletedMeansDone ==
  \A s \in status.completed : Complete(s[1], s[2])

\* Files, manifests, lineage and the status file agree at every moment.
LayersAgree == TypeOK /\ FilesMatchManifest /\ LineageHolds /\ CompletedMeansDone

\* No file, .part or entry of a walk-forward or holdout day ever exists.
FrozenSplitsUntouched ==
  \A n \in Name : Class[n[2]] \in Frozen =>
    files[n] = 0 /\ parts[n] = 0 /\ entries[n] = 0

\* The days in the range of the last refresh that lack candles.
DaysTorn == {d \in StartDay..status.target : ~Complete("candles", d)}

\* When run_refresh reports OK or OK_NOOP, Bronze and Silver are complete for every day
\* of its range, and a day lacks candles only where a process was killed or met a write
\* error among its timeframes, so that an interruption costs the candles of at most one
\* day.  It costs them silently: one timeframe in the manifest is enough for the plan to
\* take the day for present (_has_candles_for_day).
OkMeansCompleteButTorn ==
  status.result \in {"OK", "OK_NOOP"} =>
    /\ \A d \in StartDay..status.target : Complete("bronze", d) /\ Complete("silver", d)
    /\ Cardinality(DaysTorn) <= interrupts

\* A refresh is resumable: whatever failed before, every day is complete in the
\* end.
EveryDayRefreshed ==
  \A d \in Day : d >= StartDay =>
    <>(\A layer \in Layer : Complete(layer, d))
=============================================================================
