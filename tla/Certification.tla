---------------------------- MODULE Certification ----------------------------
(***************************************************************************)
(* certification-state.json: the file in which the paper runner keeps the  *)
(* evidence of a certification.  An operator starts a certification by     *)
(* launching the runner with --start-certification; from then on the       *)
(* runner rewrites the file with every periodic report, from the file it   *)
(* read before it awaited the metrics endpoint and the database.  The      *)
(* operator may also edit the file: mark it INVALIDATED, archive it.       *)
(*                                                                         *)
(* Candles are numbered by the time they close.  An event is abstracted to *)
(* what it adds to the ledger (gain) and the equity it recorded; the       *)
(* ledger's components (cash, quantity, average entry, realised PnL, fees) *)
(* to the one sum.  Builds stand for the ten frozen keys.                  *)
(***************************************************************************)
EXTENDS Integers, Sequences, FiniteSets, SequencesExt

CONSTANTS
  MaxTime,       \* bound: candles that close
  MaxCrashes,    \* bound: crashes of the runner
  MaxSessions,   \* bound: session ids the operator uses
  CandlesPerDay, \* candles in a UTC day
  Builds,        \* builds of the runner, numbers from 1
  ArchiveFirst,  \* does the operator archive a v2 file before a new START?
  QuietEdits     \* does the operator edit only while no report is written?

ASSUME CertificationAssumption ==
  /\ {MaxTime, MaxSessions} \subseteq Nat \ {0} /\ MaxCrashes \in Nat
  /\ CandlesPerDay \in Nat \ {0}
  /\ Builds \subseteq Nat \ {0}
  /\ {ArchiveFirst, QuietEdits} \subseteq BOOLEAN

VARIABLES
  now,         \* the candle that closed last
  pc,          \* the runner: "down", "running" or "reporting"
  build,       \* the build the runner runs, or ran last
  session,     \* its session id
  launched,    \* when it was launched
  crashes,     \* how often it crashed (bounds the model)
  events,      \* paper_trade_events of the session, as they are stored
  original,    \* the events as the runner wrote them
  tampered,    \* has somebody changed the stored events?
  file,        \* certification-state.json
  previous,    \* what the report being written read of it
  live,        \* history: the START in force since the last archive
  cleanBase    \* history: was the journal untouched at the book's baseline?

runner == <<pc, build, session, launched, crashes>>
journal == <<events, original, tampered>>
history == <<live, cleanBase>>
vars == <<now, runner, journal, file, previous, history>>

Day(t) == t \div CandlesPerDay

\* A book is a checkpoint of the ledger; a cursor of 0 is none (null).
NoBook == [cursor |-> 0, ledger |-> 0]
NoFile == [kind |-> "absent", anchor |-> 0, frozen |-> 0, build |-> 0,
           session |-> 0, invalid |-> FALSE, continuity |-> "none",
           accounting |-> "none", book |-> NoBook, days |-> {}]
NoStart == [anchor |-> 0, build |-> 0, session |-> 0]

\* certification_phase
Phase(f) == CASE f.invalid -> "INVALIDATED"
              [] ~f.invalid /\ f.anchor # 0 -> "RUNNING"
              [] OTHER -> "NOT_STARTED"

-----------------------------------------------------------------------------
(* The accounting reconciliation.                                          *)

\* What the events of the times T add up to.
LedgerOf(es, T) ==
  LET Sum[n \in 0..Len(es)] ==
        IF n = 0 THEN 0
        ELSE Sum[n - 1] + IF es[n].at \in T THEN es[n].gain ELSE 0
  IN  Sum[Len(es)]
Ledger(es) == LedgerOf(es, Nat)
LedgerUpTo(es, t) == LedgerOf(es, 0..t)
LedgerAfter(es, t) == LedgerOf(es, Nat \ 0..t)

\* reconcile_with_book: a checkpoint without cursor is replaced by a baseline;
\* otherwise full replay, checkpoint plus later events, and the equity of the
\* last event must agree.
Baseline(book) == book.cursor = 0
Agrees_forgets_live(es, book) == Ledger(es) = book.ledger + LedgerAfter(es, book.cursor)
Agrees(es, book) ==
  /\ Ledger(es) = book.ledger + LedgerAfter(es, book.cursor)
  /\ es # <<>> => Last(es).equity = Ledger(es)
Reconciles(es, book) == Baseline(book) \/ Agrees(es, book)
BookOf(es) == IF es = <<>> THEN NoBook
              ELSE [cursor |-> Last(es).at, ledger |-> Ledger(es)]

\* The book advances on PASS only.
NextBook_never_advances(es, book) == IF Baseline(book) THEN BookOf(es) ELSE book
NextBook(es, book) == IF Reconciles(es, book) THEN BookOf(es) ELSE book

-----------------------------------------------------------------------------
(* What the runner writes.                                                 *)

\* _resolve_frozen never anchors, and never lets go of an anchor.
ResolveFrozen_follows_the_build(f) ==
  IF Phase(f) = "RUNNING" /\ f.frozen = build
  THEN [anchor |-> f.anchor, frozen |-> f.frozen]
  ELSE [anchor |-> 0, frozen |-> build]
ResolveFrozen(f) ==
  IF Phase(f) = "RUNNING" THEN [anchor |-> f.anchor, frozen |-> f.frozen]
  ELSE [anchor |-> 0, frozen |-> build]

\* summarize_events takes the session id from the first event.
SummarySession == IF events = <<>> THEN 0 ELSE session

Continuity(f) ==
  IF f.kind # "v2" \/ (f.build = build /\ f.session = SummarySession)
  THEN "PASS" ELSE "FAIL"

\* build_certification_state_v2 over the state f read before.
Built(f, heartbeatOk) ==
  [kind |-> "v2",
   anchor |-> ResolveFrozen(f).anchor, frozen |-> ResolveFrozen(f).frozen,
   build |-> build, session |-> SummarySession, invalid |-> FALSE,
   continuity |-> Continuity(f),
   accounting |-> IF Reconciles(events, f.book) THEN "PASS" ELSE "FAIL",
   book |-> NextBook(events, f.book),
   days |-> f.days \cup (IF heartbeatOk THEN {Day(now)} ELSE {})]

\* start_certification: everything but the identity is kept.
Started(f, b, s) ==
  [f EXCEPT !.kind = "v2", !.anchor = now, !.frozen = b, !.build = b,
            !.session = IF f.session = 0 THEN s ELSE f.session,
            !.invalid = FALSE]

-----------------------------------------------------------------------------
(* The runner.                                                             *)

\* pristine_session_conflict: no stored events, no candles.
Pristine(es, candles) == es = <<>> /\ candles = <<>>

\* _operator_start_anchor before anything is processed.
OperatorStart(b, s, es, candles) ==
  IF Phase(file) = "RUNNING" \/ ~Pristine(es, candles)
  THEN UNCHANGED <<file, live>>
  ELSE /\ file' = Started(file, b, s)
       /\ live' = [anchor |-> now, build |-> b, session |-> s]

\* The runner starts, with any build, on its session or a fresh one; replay
\* refuses a journal that was tampered with.
Launch(b, fresh, start) ==
  /\ pc = "down"
  /\ pc' = "running" /\ build' = b /\ launched' = now
  /\ IF fresh
     THEN /\ session < MaxSessions
          /\ session' = session + 1
          /\ events' = <<>> /\ original' = <<>> /\ tampered' = FALSE
     ELSE ~tampered /\ UNCHANGED <<session, journal>>
  /\ IF start
     THEN /\ ArchiveFirst => file.kind # "v2" \/ Phase(file) = "RUNNING"
          /\ OperatorStart(b, session', events', original')
     ELSE UNCHANGED <<file, live>>
  /\ UNCHANGED <<now, crashes, previous, cleanBase>>

\* handle_kline and commit: the candles of a session are processed one after the
\* other, the first is one that closes after the launch.
NextCandle == IF original = <<>> THEN now ELSE Last(original).at + 1
ProcessCandle(gain) ==
  /\ pc = "running"
  /\ NextCandle <= now
  /\ original = <<>> => now > launched
  /\ LET e == [at |-> NextCandle, gain |-> gain, equity |-> Ledger(original) + gain]
     IN events' = Append(events, e) /\ original' = Append(original, e)
  /\ UNCHANGED <<now, runner, tampered, file, previous, history>>

\* The periodic report reads the file.  A legacy file has a writer of its own,
\* which changes nothing modelled here; an INVALIDATED one is left alone.
Reportable_invalidated_too == file.kind # "legacy"
Reportable == file.kind # "legacy" /\ Phase(file) # "INVALIDATED"
BeginReport ==
  /\ pc = "running"
  /\ Reportable
  /\ pc' = "reporting"
  /\ previous' = file
  /\ UNCHANGED <<now, build, session, launched, crashes, journal, file, history>>

\* After the awaits: what was read is replaced by what is computed from it.
FinishReport(heartbeatOk) ==
  /\ pc = "reporting"
  /\ pc' = "running"
  /\ file' = Built(previous, heartbeatOk)
  /\ cleanBase' = IF Baseline(previous.book) THEN ~tampered ELSE cleanBase
  /\ previous' = NoFile
  /\ UNCHANGED <<now, build, session, launched, crashes, journal, live>>

\* An exception in the report is logged; the next turn of the loop tries again.
ReportFails ==
  /\ pc = "reporting"
  /\ pc' = "running"
  /\ previous' = NoFile
  /\ UNCHANGED <<now, build, session, launched, crashes, journal, file, history>>

\* tmp file, fsync, replace: a crash leaves the file as it was.
Crash ==
  /\ pc # "down"
  /\ crashes < MaxCrashes
  /\ crashes' = crashes + 1
  /\ pc' = "down"
  /\ previous' = NoFile
  /\ UNCHANGED <<now, build, session, launched, journal, file, history>>

-----------------------------------------------------------------------------
(* The environment.                                                        *)

CandleCloses ==
  /\ now < MaxTime
  /\ now' = now + 1
  /\ UNCHANGED <<runner, journal, file, previous, history>>

MayEdit == QuietEdits => pc # "reporting"

Invalidate ==
  /\ MayEdit
  /\ Phase(file) = "RUNNING"
  /\ file' = [file EXCEPT !.invalid = TRUE]
  /\ UNCHANGED <<now, runner, journal, previous, history>>

\* invalidate -> archive -> new START; a file without START may go at once.
Archive ==
  /\ MayEdit
  /\ file.kind = "v2" /\ Phase(file) # "RUNNING"
  /\ file' = NoFile
  /\ live' = NoStart
  /\ UNCHANGED <<now, runner, journal, previous, cleanBase>>

\* What the reconciliation is there to notice: a stored event changed or lost.
Tamper ==
  /\ ~tampered
  /\ tampered' = TRUE
  /\ \E n \in DOMAIN events :
       \/ events' = [events EXCEPT ![n].gain = 1 - @]
       \/ events' = RemoveAt(events, n)
  /\ UNCHANGED <<now, runner, original, file, previous, history>>

-----------------------------------------------------------------------------

Init ==
  /\ now = 1
  /\ pc = "down" /\ build \in Builds /\ session = 1 /\ launched = 0 /\ crashes = 0
  /\ events = <<>> /\ original = <<>> /\ tampered = FALSE
  /\ file \in {NoFile, [NoFile EXCEPT !.kind = "legacy"]}
  /\ previous = NoFile
  /\ live = NoStart /\ cleanBase = TRUE

Restart == \E b \in Builds, fresh, start \in BOOLEAN : Launch(b, fresh, start)
Process == \E gain \in {0, 1} : ProcessCandle(gain)
Finish == \E ok \in BOOLEAN : FinishReport(ok)

Next ==
  \/ Restart \/ Process \/ BeginReport \/ Finish \/ ReportFails \/ Crash
  \/ CandleCloses \/ Invalidate \/ Archive \/ Tamper

Spec == Init /\ [][Next]_vars

\* The process is restarted, its loop goes on, and a report that is tried again
\* and again does not fail every time.
FairSpec ==
  /\ Spec
  /\ WF_vars(Restart) /\ WF_vars(BeginReport) /\ SF_vars(Finish)
-----------------------------------------------------------------------------
(* Properties.                                                             *)

\* The clock is anchored by START alone, once per certification, and the anchor
\* with its frozen build survives every restart, rewrite and drift of the build
\* (certification_snapshot.py:24-39).
AnchorIsTheStart ==
  ~file.invalid =>
    file.anchor = live.anchor /\ (file.anchor # 0 => file.frozen = live.build)

\* A START on a pristine session: whatever a running certification counts of its
\* session, events and days of metrics, is later than its anchor.
NoEvidenceBeforeAnchor ==
  Phase(file) = "RUNNING" /\ live.session = session =>
    /\ \A n \in DOMAIN events : events[n].at > file.anchor
    /\ \A d \in file.days : d >= Day(file.anchor)

\* A checkpoint that began on an untouched journal never takes over a changed or
\* lost event: it is the ledger of the events as the runner wrote them.
BookIsHonest ==
  file.book.cursor # 0 /\ cleanBase /\ live.session = session =>
    file.book.ledger = LedgerUpTo(original, file.book.cursor)

\* What a certification counts, and what its checkpoint covers, is its own session's
\* evidence as the runner wrote it.
EvidenceIsItsOwn == NoEvidenceBeforeAnchor /\ BookIsHonest

\* INVALIDATED ends with a START or the archive, never with a periodic write
\* ("reactivate with --start-certification", paper_runner.py:203-206).
InvalidatedUntilStart ==
  [][file.invalid => \/ file'.invalid \/ file'.kind = "absent"
                     \/ pc = "down"]_vars

\* While a certification of this session is in force every event is in the end
\* covered by the accounting checkpoint, failed reports and crashes
\* notwithstanding.
InForce == Phase(file) = "RUNNING" /\ live.session = session /\ ~tampered
EventsAudited ==
  \A t \in 1..MaxTime :
    (InForce /\ \E n \in DOMAIN events : events[n].at = t)
      ~> (file.book.cursor >= t \/ ~InForce)
=============================================================================
