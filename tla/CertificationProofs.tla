------------------------- MODULE CertificationProofs -------------------------
(***************************************************************************)
(* The anchor and the evidence of a certification, for every number of     *)
(* candles, builds, sessions and crashes, when the operator edits the file *)
(* only while no report is written (and, for the evidence, archives a v2   *)
(* file before a new START).                                               *)
(***************************************************************************)
EXTENDS Certification, WellFoundedInduction, TLAPS

\* The fields of a document, and no other.
IsDocument(f) ==
  f = [kind |-> f.kind, anchor |-> f.anchor, frozen |-> f.frozen,
       build |-> f.build, session |-> f.session, invalid |-> f.invalid,
       continuity |-> f.continuity, accounting |-> f.accounting,
       book |-> f.book, days |-> f.days]

\* What a report read is still the file when it writes, and was not INVALIDATED.
ReadIsFresh ==
  pc = "reporting" => previous = file /\ Phase(file) # "INVALIDATED"

Anchored == IsDocument(file) /\ ReadIsFresh /\ AnchorIsTheStart

-----------------------------------------------------------------------------

\* certification_phase tells the three phases apart by status and anchor.
LEMMA PhaseCases ==
  ASSUME NEW f
  PROVE  /\ Phase(f) = "INVALIDATED" <=> f.invalid
         /\ ~f.invalid => (Phase(f) = "RUNNING" <=> f.anchor # 0)
BY DEF Phase

\* A periodic write keeps anchor and frozen build of a running certification and
\* gives none to any other.
LEMMA WriteKeepsAnchor ==
  ASSUME NEW f, NEW ok, Phase(f) # "INVALIDATED"
  PROVE  /\ IsDocument(Built(f, ok))
         /\ ~Built(f, ok).invalid
         /\ Built(f, ok).anchor = f.anchor
         /\ f.anchor # 0 => Built(f, ok).frozen = f.frozen
<1>1. ~f.invalid BY PhaseCases
<1>2. ResolveFrozen(f).anchor = f.anchor
  BY <1>1, PhaseCases DEF ResolveFrozen
<1>3. f.anchor # 0 => ResolveFrozen(f).frozen = f.frozen
  BY <1>1, PhaseCases DEF ResolveFrozen
<1> QED BY <1>2, <1>3 DEF Built, IsDocument

\* start_certification anchors at the present, with the identity of the build.
LEMMA StartAnchors ==
  ASSUME NEW f, NEW b, NEW s, IsDocument(f)
  PROVE  /\ IsDocument(Started(f, b, s))
         /\ Started(f, b, s).anchor = now
         /\ Started(f, b, s).frozen = b
<1> DEFINE id == IF f.session = 0 THEN s ELSE f.session
<1>1. Started(f, b, s) =
        [kind |-> "v2", anchor |-> now, frozen |-> b, build |-> b,
         session |-> id, invalid |-> FALSE, continuity |-> f.continuity,
         accounting |-> f.accounting, book |-> f.book, days |-> f.days]
  <2> HIDE DEF id
  <2>1. Started(f, b, s) =
          [f EXCEPT !.kind = "v2", !.anchor = now, !.frozen = b, !.build = b,
                    !.session = id, !.invalid = FALSE]
    BY DEF Started, id
  <2> QED BY <2>1 DEF IsDocument
<1> QED BY <1>1 DEF IsDocument

\* Before the first launch no certification is anchored.
LEMMA InitAnchored == Init => Anchored
BY DEF Init, Anchored, IsDocument, ReadIsFresh, AnchorIsTheStart, NoFile, NoStart

\* Every step keeps the file's anchor that of the START in force.
LEMMA NextAnchored ==
  ASSUME QuietEdits
  PROVE  Anchored /\ [Next]_vars => Anchored'
<1> SUFFICES ASSUME Anchored, [Next]_vars PROVE Anchored'
  OBVIOUS
<1> USE DEF Anchored, ReadIsFresh
<1>1. ASSUME NEW b \in Builds, NEW fresh \in BOOLEAN, NEW start \in BOOLEAN,
             Launch(b, fresh, start)
      PROVE  Anchored'
  <2>1. pc' = "running" BY <1>1 DEF Launch
  <2>2. CASE UNCHANGED <<file, live>>
    BY <2>1, <2>2 DEF AnchorIsTheStart, IsDocument
  <2>3. CASE ~UNCHANGED <<file, live>>
    <3>1. OperatorStart(b, session', events', original') BY <1>1, <2>3 DEF Launch
    <3>2. /\ file' = Started(file, b, session')
          /\ live' = [anchor |-> now, build |-> b, session |-> session']
      BY <3>1, <2>3 DEF OperatorStart
    <3>3. IsDocument(file') /\ file'.anchor = now /\ file'.frozen = b
      BY <3>2, StartAnchors
    <3> QED BY <2>1, <3>2, <3>3 DEF AnchorIsTheStart, IsDocument
  <2> QED BY <2>2, <2>3
<1>2. ASSUME NEW gain \in {0, 1}, ProcessCandle(gain) PROVE Anchored'
  BY <1>2 DEF ProcessCandle, runner, history, AnchorIsTheStart, IsDocument
<1>3. CASE BeginReport
  BY <1>3 DEF BeginReport, Reportable, history, AnchorIsTheStart, IsDocument, Phase
<1>4. ASSUME NEW ok \in BOOLEAN, FinishReport(ok) PROVE Anchored'
  <2>1. /\ pc = "reporting" /\ pc' = "running"
        /\ file' = Built(previous, ok) /\ live' = live
    BY <1>4 DEF FinishReport
  <2>2. previous = file /\ Phase(file) # "INVALIDATED" BY <2>1
  <2>3. ~file.invalid BY <2>2, PhaseCases
  <2>4. /\ IsDocument(file') /\ file'.anchor = file.anchor
        /\ file.anchor # 0 => file'.frozen = file.frozen
    BY <2>1, <2>2, WriteKeepsAnchor
  <2> QED BY <2>1, <2>3, <2>4 DEF AnchorIsTheStart, IsDocument
<1>5. CASE ReportFails
  BY <1>5 DEF ReportFails, history, AnchorIsTheStart, IsDocument
<1>6. CASE Crash
  BY <1>6 DEF Crash, history, AnchorIsTheStart, IsDocument
<1>7. CASE CandleCloses
  BY <1>7 DEF CandleCloses, runner, history, AnchorIsTheStart, IsDocument, Phase
<1>8. CASE Invalidate
  <2>1. pc # "reporting" /\ pc' = pc BY <1>8 DEF Invalidate, MayEdit, runner
  <2>2. IsDocument(file') /\ file'.invalid BY <1>8 DEF Invalidate, IsDocument
  <2> QED BY <2>1, <2>2 DEF AnchorIsTheStart, IsDocument
<1>9. CASE Archive
  BY <1>9 DEF Archive, MayEdit, runner, AnchorIsTheStart, IsDocument, NoFile, NoStart
<1>10. CASE Tamper
  BY <1>10 DEF Tamper, runner, history, AnchorIsTheStart, IsDocument, Phase
<1>11. CASE UNCHANGED vars
  BY <1>11 DEF vars, runner, history, AnchorIsTheStart, IsDocument, Phase
<1> QED
  BY <1>1, <1>2, <1>3, <1>4, <1>5, <1>6, <1>7, <1>8, <1>9, <1>10, <1>11
     DEF Next, Restart, Process, Finish

\* certification_snapshot.py:24-39: the anchor comes from START alone and
\* survives restarts, rewrites and drift, whatever the builds.
THEOREM AnchorStaysTheStart ==
  ASSUME QuietEdits
  PROVE  Spec => []AnchorIsTheStart
<1>1. Init => Anchored BY InitAnchored
<1>2. Anchored /\ [Next]_vars => Anchored' BY NextAnchored
<1>3. Anchored => AnchorIsTheStart BY DEF Anchored
<1> QED BY <1>1, <1>2, <1>3, PTL DEF Spec

\* paper_runner.py:194-208: no periodic write takes an INVALIDATED back.
THEOREM InvalidatedStays ==
  ASSUME QuietEdits
  PROVE  Spec => InvalidatedUntilStart
<1>1. ASSUME Anchored, [Next]_vars
      PROVE  [file.invalid => \/ file'.invalid \/ file'.kind = "absent"
                              \/ pc = "down"]_vars
  <2> SUFFICES ASSUME file.invalid, Next
               PROVE  file'.invalid \/ file'.kind = "absent" \/ pc = "down"
    BY <1>1
  <2>1. pc # "reporting" BY <1>1, PhaseCases DEF Anchored, ReadIsFresh
  <2>2. CASE Restart BY <2>2 DEF Restart, Launch
  <2>3. CASE Finish BY <2>1, <2>3 DEF Finish, FinishReport
  <2>4. CASE Invalidate BY <2>4, PhaseCases DEF Invalidate, Phase
  <2>5. CASE Archive BY <2>5 DEF Archive, NoFile
  <2>6. CASE Process \/ BeginReport \/ ReportFails \/ Crash \/ CandleCloses \/ Tamper
    BY <2>6 DEF Process, ProcessCandle, BeginReport, ReportFails, Crash,
                CandleCloses, Tamper
  <2> QED BY <2>2, <2>3, <2>4, <2>5, <2>6 DEF Next
<1>2. Init => Anchored BY InitAnchored
<1>3. Anchored /\ [Next]_vars => Anchored' BY NextAnchored
<1> QED BY <1>1, <1>2, <1>3, PTL DEF Spec, InvalidatedUntilStart

-----------------------------------------------------------------------------
(* The ledger: what a sum over stored events is, and what one more event   *)
(* makes of it.                                                            *)

Entries == [at : Nat, gain : Int, equity : Int]

\* What event n of es adds to the ledger of the times T.
Added(es, T, n) == IF es[n].at \in T THEN es[n].gain ELSE 0

\* f has the ledgers of the first events of es: none, one, ...
Sums(f, es, T) ==
  /\ f \in [0..Len(es) -> Int]
  /\ f[0] = 0
  /\ \A n \in 1..Len(es) : f[n] = f[n - 1] + Added(es, T, n)

\* A set of natural numbers has a least element.
LEMMA LeastNatural ==
  ASSUME NEW T, T \subseteq Nat, T # {}
  PROVE  \E m \in T : \A k \in T : m <= k
<1> DEFINE R == {ss \in Nat \X Nat : ss[1] < ss[2]}
<1>1. IsWellFoundedOn(R, Nat)
  BY NatLessThanWellFounded DEF OpToRel
<1> HIDE DEF R
<1>2. PICK m \in T : \A k \in T : ~(<<k, m>> \in R)
  BY <1>1, WFMin
<1>3. ASSUME NEW k \in T PROVE m <= k
  <2>1. m \in Nat /\ k \in Nat
    OBVIOUS
  <2>2. ~(k < m)
    BY <1>2, <2>1 DEF R
  <2> QED
    BY <2>1, <2>2
<1> QED
  BY <1>2, <1>3

\* What an event adds is a number.
LEMMA AddedNumber ==
  ASSUME NEW es \in Seq(Entries), NEW T, NEW n \in 1..Len(es)
  PROVE  Added(es, T, n) \in Int
<1>1. es[n] \in Entries OBVIOUS
<1> QED BY <1>1 DEF Added, Entries

\* The ledger is the last of the sums: the function LedgerOf chooses agrees with
\* them up to the first place where it does not, which there is none of.
LEMMA LedgerIsLastSum ==
  ASSUME NEW es \in Seq(Entries), NEW T, NEW g, Sums(g, es, T)
  PROVE  LedgerOf(es, T) = g[Len(es)]
<1> DEFINE Recursive(f) ==
             f = [ n \in 0..Len(es) |->
                     IF n = 0 THEN 0
                     ELSE f[n - 1] + IF es[n].at \in T THEN es[n].gain ELSE 0 ]
           s == CHOOSE f : Recursive(f)
<1>1. LedgerOf(es, T) = s[Len(es)]
  BY DEF LedgerOf
<1>2. Len(es) \in Nat
  OBVIOUS
<1>3. Recursive(g)
  <2>1. ASSUME NEW n \in 0..Len(es)
        PROVE  g[n] = IF n = 0 THEN 0
                      ELSE g[n - 1] + IF es[n].at \in T THEN es[n].gain ELSE 0
    <3>1. n # 0 => n \in 1..Len(es) BY <1>2
    <3> QED BY <3>1 DEF Sums, Added
  <2> QED
    BY <2>1 DEF Sums
<1>4. Recursive(s)
  <2> HIDE DEF Recursive
  <2> QED
    BY <1>3
<1> HIDE DEF s
<1>5. \A n \in 0..Len(es) : s[n] = g[n]
  <2> DEFINE U == { n \in 0..Len(es) : s[n] # g[n] }
  <2> SUFFICES ASSUME U # {} PROVE FALSE
    OBVIOUS
  <2>1. U \subseteq Nat
    BY <1>2
  <2>2. PICK m \in U : \A k \in U : m <= k
    BY <2>1, LeastNatural
  <2>3. m # 0
    BY <1>2, <1>4 DEF Sums
  <2>4. m - 1 \in 0..Len(es) /\ m \in 1..Len(es) /\ m - 1 \notin U
    BY <1>2, <2>2, <2>3
  <2>5. s[m - 1] = g[m - 1]
    BY <2>4
  <2>6. s[m] = s[m - 1] + Added(es, T, m)
    BY <1>4, <2>3, <2>4 DEF Added
  <2>7. g[m] = g[m - 1] + Added(es, T, m)
    BY <2>4 DEF Sums
  <2> QED
    BY <2>5, <2>6, <2>7
<1> QED
  BY <1>1, <1>2, <1>5

\* There are sums of all the events: the first number of events that had none would
\* have those of one event less, and one more.
LEMMA SumsExist ==
  ASSUME NEW es \in Seq(Entries), NEW T
  PROVE  \E f : Sums(f, es, T)
<1> DEFINE v == [ n \in 1..Len(es) |-> Added(es, T, n) ]
           Partial(f, m) == /\ f \in [0..m -> Int]
                            /\ f[0] = 0
                            /\ \A n \in 1..m : f[n] = f[n - 1] + v[n]
           Exist(m) == \E f : Partial(f, m)
           U == { m \in 0..Len(es) : ~Exist(m) }
<1>1. Len(es) \in Nat
  OBVIOUS
<1>2. v \in [1..Len(es) -> Int]
  BY AddedNumber
<1>3. U = {}
  <2> SUFFICES ASSUME U # {} PROVE FALSE
    OBVIOUS
  <2>1. PICK m \in U : \A k \in U : m <= k
    <3>1. U \subseteq Nat BY <1>1
    <3> HIDE DEF U
    <3> QED BY <3>1, LeastNatural
  <2>2. m \in 0..Len(es) /\ m \in Nat
    BY <1>1
  <2> HIDE DEF v
  <2>3. m # 0
    <3>1. Partial([ n \in {0} |-> 0 ], 0)
      OBVIOUS
    <3> QED BY <3>1
  <2>4. m - 1 \in 0..Len(es) /\ m - 1 \notin U
    <3> HIDE DEF Exist
    <3> QED BY <1>1, <2>1, <2>2, <2>3
  <2>5. PICK g : Partial(g, m - 1)
    BY <2>4
  <2> DEFINE f == [ n \in 0..m |-> IF n = m THEN g[m - 1] + v[m] ELSE g[n] ]
  <2>6. m - 1 \in 0..(m - 1) /\ m \in 1..Len(es) /\ v[m] \in Int
    BY <1>1, <1>2, <2>2, <2>3
  <2>7. g[m - 1] \in Int /\ f \in [0..m -> Int] /\ f[0] = 0
    BY <2>2, <2>3, <2>5, <2>6
  <2>8. \A n \in 1..m : f[n] = f[n - 1] + v[n]
    <3> TAKE n \in 1..m
    <3>1. n \in 0..m /\ n - 1 \in 0..m /\ n - 1 # m
      BY <2>2
    <3>2. f[n - 1] = g[n - 1]
      BY <3>1
    <3>3. CASE n = m
      BY <3>1, <3>2, <3>3
    <3>4. CASE n # m
      <4>1. n \in 1..(m - 1)
        BY <2>2, <3>4
      <4>2. f[n] = g[n]
        BY <3>1, <3>4
      <4> QED
        BY <2>5, <3>2, <4>1, <4>2
    <3> QED
      BY <3>3, <3>4
  <2>9. Partial(f, m)
    BY <2>7, <2>8
  <2> QED
    BY <2>1, <2>9
<1>4. Exist(Len(es))
  <2> HIDE DEF Exist
  <2> QED BY <1>1, <1>3
<1>5. PICK f : Partial(f, Len(es))
  BY <1>4
<1>6. Sums(f, es, T)
  BY <1>5 DEF Sums
<1> QED BY <1>6

\* A ledger is a number.
LEMMA LedgerNumber ==
  ASSUME NEW es \in Seq(Entries), NEW T
  PROVE  LedgerOf(es, T) \in Int
<1>1. PICK g : Sums(g, es, T)
  BY SumsExist
<1>2. Len(es) \in 0..Len(es)
  OBVIOUS
<1> QED BY <1>1, <1>2, LedgerIsLastSum DEF Sums

\* One more event adds its gain, if its time counts.
LEMMA LedgerOfAppend ==
  ASSUME NEW es \in Seq(Entries), NEW e \in Entries, NEW T
  PROVE  /\ LedgerOf(es, T) \in Int
         /\ LedgerOf(Append(es, e), T)
              = LedgerOf(es, T) + IF e.at \in T THEN e.gain ELSE 0
<1>1. PICK g : Sums(g, es, T)
  BY SumsExist
<1>2. PICK n \in Nat : n = Len(es)
  OBVIOUS
<1>3. LedgerOf(es, T) = g[n] /\ g[n] \in Int
  BY <1>1, <1>2, LedgerIsLastSum DEF Sums
<1> DEFINE more == Append(es, e)
<1>4. /\ more \in Seq(Entries) /\ Len(more) = n + 1 /\ more[n + 1] = e
      /\ \A k \in 1..n : more[k] = es[k]
  BY <1>2
<1>5. PICK h : Sums(h, more, T)
  BY <1>4, SumsExist
<1> HIDE DEF more
<1>6. LedgerOf(more, T) = h[n + 1]
  BY <1>4, <1>5, LedgerIsLastSum
<1> DEFINE f == [ k \in 0..n |-> h[k] ]
<1>7. Sums(f, es, T)
  <2>1. f \in [0..n -> Int] /\ f[0] = 0
    BY <1>2, <1>4, <1>5 DEF Sums
  <2>2. ASSUME NEW k \in 1..n PROVE f[k] = f[k - 1] + Added(es, T, k)
    <3>1. k \in 1..(n + 1) /\ k \in 0..n /\ k - 1 \in 0..n BY <1>2
    <3>2. h[k] = h[k - 1] + Added(more, T, k) BY <3>1, <1>4, <1>5 DEF Sums
    <3>3. Added(more, T, k) = Added(es, T, k) BY <1>4 DEF Added
    <3> QED BY <3>1, <3>2, <3>3
  <2> QED BY <2>1, <2>2, <1>2 DEF Sums
<1>8. LedgerOf(es, T) = h[n]
  <2>1. f[n] = h[n] BY <1>2
  <2> HIDE DEF f
  <2> QED BY <1>2, <1>7, <2>1, LedgerIsLastSum
<1>9. h[n + 1] = h[n] + Added(more, T, n + 1)
  BY <1>4, <1>5 DEF Sums
<1> QED
  BY <1>3, <1>4, <1>6, <1>8, <1>9 DEF Added, more

\* Times that no event has, or that every event has, make no difference.
LEMMA SameTimesSameLedger ==
  ASSUME NEW es \in Seq(Entries), NEW T, NEW U,
         \A n \in DOMAIN es : es[n].at \in T <=> es[n].at \in U
  PROVE  LedgerOf(es, T) = LedgerOf(es, U)
<1>1. PICK g : Sums(g, es, T)
  BY SumsExist
<1>2. \A n \in 1..Len(es) : Added(es, T, n) = Added(es, U, n)
  BY DEF Added
<1>3. Sums(g, es, U)
  BY <1>1, <1>2 DEF Sums
<1> QED BY <1>1, <1>3, LedgerIsLastSum

-----------------------------------------------------------------------------
(* The evidence.  What makes it a certification's own is a conjunction of  *)
(* what the runner writes, what of it is stored, and what the file says.   *)

Numbers ==
  /\ now \in Nat /\ launched \in Nat /\ launched <= now
  /\ session \in Nat \ {0} /\ live.session \in Nat /\ live.session <= session
  /\ events \in Seq(Entries) /\ original \in Seq(Entries)
  /\ file.anchor \in Nat /\ file.anchor <= now
  /\ file.book.cursor \in Nat

\* The runner writes its events in the order of the candles.
InOrder == \A m, n \in DOMAIN original : m < n => original[m].at < original[n].at

\* The equity an event records is the ledger up to it.
EquityIsLedger ==
  \A n \in DOMAIN original :
    original[n].equity = LedgerUpTo(original, original[n].at)

\* A stored event is one the runner wrote, but for its gain.
StoredWasWritten ==
  /\ \A n \in DOMAIN events : \E m \in DOMAIN original :
       events[n].at = original[m].at /\ events[n].equity = original[m].equity
  /\ ~tampered => events = original

\* Only a v2 file has a checkpoint, and days of metrics.
BlankUntilReported == file.kind # "v2" => file.book = NoBook /\ file.days = {}

\* A checkpoint covers events there are.
CoversWritten ==
  file.book.cursor # 0 /\ live.session = session =>
    original # <<>> /\ file.book.cursor <= Last(original).at

\* What is written after a START is later than it.
LaterThanStart ==
  Phase(file) = "RUNNING" /\ live.session = session =>
    /\ file.anchor <= launched
    /\ \A n \in DOMAIN original : file.anchor < original[n].at
    /\ \A d \in file.days : Day(file.anchor) <= d

Evident ==
  /\ Numbers /\ InOrder /\ EquityIsLedger /\ StoredWasWritten
  /\ BlankUntilReported /\ CoversWritten /\ LaterThanStart /\ BookIsHonest

\* The last of a sequence with one more element, and the others.
LEMMA Appended ==
  ASSUME NEW S, NEW es \in Seq(S), NEW e \in S
  PROVE  /\ Append(es, e) \in Seq(S) /\ Append(es, e) # <<>>
         /\ DOMAIN Append(es, e) = DOMAIN es \cup {Len(es) + 1}
         /\ Last(Append(es, e)) = e
         /\ Append(es, e)[Len(es) + 1] = e
         /\ \A n \in DOMAIN es : Append(es, e)[n] = es[n]
         /\ \A n \in DOMAIN es : n < Len(es) + 1
BY DEF Last

\* The last of the events is one of them, and no event is later.
LEMMA LastIsLatest ==
  ASSUME Numbers, InOrder, original # <<>>
  PROVE  /\ Len(original) \in DOMAIN original
         /\ Last(original) = original[Len(original)]
         /\ Last(original).at \in Nat
         /\ \A n \in DOMAIN original : original[n].at <= Last(original).at
<1>1. original \in Seq(Entries) BY DEF Numbers
<1>2. /\ Len(original) \in DOMAIN original
      /\ Last(original) = original[Len(original)]
  BY <1>1 DEF Last
<1>3. \A n \in DOMAIN original : original[n] \in Entries BY <1>1
<1>4. \A n \in DOMAIN original : original[n].at \in Nat BY <1>3 DEF Entries
<1>5. \A n \in DOMAIN original : n < Len(original) \/ n = Len(original)
  BY <1>1
<1>6. \A n \in DOMAIN original : original[n].at <= original[Len(original)].at
  BY <1>2, <1>4, <1>5 DEF InOrder
<1> QED BY <1>2, <1>4, <1>6

\* Days are counted upwards.
LEMMA DaysGrow ==
  ASSUME NEW t \in Nat, NEW u \in Nat, t <= u
  PROVE  Day(t) <= Day(u)
<1>1. CandlesPerDay \in Nat /\ CandlesPerDay > 0
  BY CertificationAssumption
<1> DEFINE x == t \div CandlesPerDay
           y == u \div CandlesPerDay
<1>2. x \in Int /\ x * CandlesPerDay <= t
  BY <1>1
<1>3. y \in Int /\ u < (y + 1) * CandlesPerDay
  BY <1>1
<1> HIDE DEF x, y
<1>4. x * CandlesPerDay < (y + 1) * CandlesPerDay
  BY <1>1, <1>2, <1>3
<1>5. x < y + 1
  BY <1>1, <1>2, <1>3, <1>4
<1>6. x <= y BY <1>2, <1>3, <1>5
<1> QED BY <1>6 DEF Day, x, y

\* The checkpoint a report writes is the old one, or covers the stored events; that
\* one is their ledger, and unless there was no checkpoint before, the equity the
\* last of them recorded.
LEMMA CheckpointCases ==
  ASSUME NEW es, NEW book
  PROVE  \/ NextBook(es, book) = book
         \/ es = <<>> /\ NextBook(es, book) = NoBook
         \/ /\ es # <<>>
            /\ NextBook(es, book) = [cursor |-> Last(es).at, ledger |-> Ledger(es)]
            /\ Baseline(book) \/ Last(es).equity = Ledger(es)
BY DEF NextBook, Reconciles, Agrees, BookOf

\* What a report writes, field by field.
LEMMA WriteKeepsEvidence ==
  ASSUME NEW f, NEW ok \in BOOLEAN, Phase(f) # "INVALIDATED"
  PROVE  /\ Built(f, ok).kind = "v2"
         /\ Built(f, ok).anchor = f.anchor
         /\ Built(f, ok).book = NextBook(events, f.book)
         /\ Phase(Built(f, ok)) = "RUNNING" <=> Phase(f) = "RUNNING"
         /\ \A d \in Built(f, ok).days : d \in f.days \/ d = Day(now)
<1>1. Built(f, ok).anchor = f.anchor /\ ~Built(f, ok).invalid BY WriteKeepsAnchor
<1>2. ~f.invalid BY PhaseCases
<1>3. Phase(Built(f, ok)) = "RUNNING" <=> Phase(f) = "RUNNING"
  BY <1>1, <1>2, PhaseCases
<1> QED BY <1>1, <1>3 DEF Built

\* A START keeps checkpoint and days.
LEMMA StartKeepsEvidence ==
  ASSUME NEW f, NEW b, NEW s, IsDocument(f)
  PROVE  /\ Started(f, b, s).kind = "v2"
         /\ Started(f, b, s).book = f.book /\ Started(f, b, s).days = f.days
<1> DEFINE id == IF f.session = 0 THEN s ELSE f.session
<1>1. Started(f, b, s) =
        [kind |-> "v2", anchor |-> now, frozen |-> b, build |-> b,
         session |-> id, invalid |-> FALSE, continuity |-> f.continuity,
         accounting |-> f.accounting, book |-> f.book, days |-> f.days]
  <2> HIDE DEF id
  <2>1. Started(f, b, s) =
          [f EXCEPT !.kind = "v2", !.anchor = now, !.frozen = b, !.build = b,
                    !.session = id, !.invalid = FALSE]
    BY DEF Started, id
  <2> QED BY <2>1 DEF IsDocument
<1> QED BY <1>1

-----------------------------------------------------------------------------
(* The evidence, step by step.                                             *)

LEMMA InitEvident == Init => Evident
<1> SUFFICES ASSUME Init PROVE Evident
  OBVIOUS
<1>1. <<>> \in Seq(Entries) /\ DOMAIN <<>> = {} OBVIOUS
<1>2. Numbers
  BY <1>1 DEF Init, Numbers, NoFile, NoStart, NoBook
<1>3. InOrder /\ EquityIsLedger /\ StoredWasWritten
  BY <1>1 DEF Init, InOrder, EquityIsLedger, StoredWasWritten
<1>4. BlankUntilReported /\ CoversWritten /\ BookIsHonest
  BY DEF Init, BlankUntilReported, CoversWritten, BookIsHonest, NoFile, NoStart, NoBook
<1>5. LaterThanStart
  BY DEF Init, LaterThanStart, NoFile, NoStart
<1> QED BY <1>2, <1>3, <1>4, <1>5 DEF Evident

\* A launch on the session there is, or a fresh one, with or without a START: a
\* checkpoint is carried over only where its events are.
LEMMA LaunchEvident ==
  ASSUME ArchiveFirst, Anchored, Evident,
         NEW b \in Builds, NEW fresh \in BOOLEAN, NEW start \in BOOLEAN,
         Launch(b, fresh, start)
  PROVE  Evident'
<1> USE DEF Evident
<1>1. /\ launched' = now /\ now' = now /\ cleanBase' = cleanBase
      /\ IF fresh THEN /\ session' = session + 1
                       /\ events' = <<>> /\ original' = <<>> /\ tampered' = FALSE
                  ELSE ~tampered /\ UNCHANGED <<session, events, original, tampered>>
  BY DEF Launch, journal
<1>2. \/ file' = file /\ live' = live
      \/ /\ Phase(file) # "RUNNING" /\ file.kind # "v2"
         /\ original' = <<>> /\ events' = <<>>
         /\ file' = Started(file, b, session')
         /\ live' = [anchor |-> now, build |-> b, session |-> session']
  BY DEF Launch, OperatorStart, Pristine
<1>3. /\ session \in Nat \ {0} /\ session' \in Nat \ {0} /\ session <= session'
      /\ fresh => session < session'
      /\ ~fresh => session' = session
  BY <1>1 DEF Numbers
<1>4. /\ <<>> \in Seq(Entries) /\ DOMAIN <<>> = {}
      /\ events' \in Seq(Entries) /\ original' \in Seq(Entries)
  <2>1. <<>> \in Seq(Entries) /\ DOMAIN <<>> = {} OBVIOUS
  <2> QED BY <1>1, <2>1 DEF Numbers
<1>5. InOrder' /\ EquityIsLedger' /\ StoredWasWritten'
  <2>1. CASE fresh BY <1>1, <1>4, <2>1 DEF InOrder, EquityIsLedger, StoredWasWritten
  <2>2. CASE ~fresh BY <1>1, <2>2 DEF InOrder, EquityIsLedger, StoredWasWritten
  <2> QED BY <2>1, <2>2
<1>6. CASE file' = file /\ live' = live
  <2>1. Numbers' BY <1>1, <1>3, <1>4, <1>6 DEF Numbers
  <2>2. CASE fresh
    <3>1. live'.session # session' BY <1>3, <1>6, <2>2 DEF Numbers
    <3> QED
      BY <1>5, <1>6, <2>1, <3>1
         DEF BlankUntilReported, CoversWritten, LaterThanStart, BookIsHonest
  <2>3. CASE ~fresh
    <3>1. LaterThanStart'
      BY <1>1, <1>6, <2>3 DEF LaterThanStart, Numbers, Phase, Day
    <3>2. BlankUntilReported' /\ CoversWritten' /\ BookIsHonest'
      BY <1>1, <1>6, <2>3 DEF BlankUntilReported, CoversWritten, BookIsHonest
    <3> QED BY <1>5, <2>1, <3>1, <3>2
  <2> QED BY <2>2, <2>3
<1>7. CASE ~(file' = file /\ live' = live)
  <2>1. /\ file.kind # "v2" /\ original' = <<>> /\ events' = <<>>
        /\ file' = Started(file, b, session')
        /\ live'.session = session'
    BY <1>2, <1>7
  <2>2. file'.kind = "v2" /\ file'.book = NoBook /\ file'.days = {} /\ file'.anchor = now
    BY <2>1, StartAnchors, StartKeepsEvidence DEF Anchored, BlankUntilReported
  <2>3. Numbers' BY <1>1, <1>3, <1>4, <2>1, <2>2 DEF Numbers, NoBook
  <2>4. BlankUntilReported' /\ CoversWritten' /\ BookIsHonest'
    BY <2>2 DEF BlankUntilReported, CoversWritten, BookIsHonest, NoBook
  <2>5. LaterThanStart'
    BY <1>1, <1>4, <2>1, <2>2 DEF LaterThanStart, Numbers
  <2> QED BY <1>5, <2>3, <2>4, <2>5
<1> QED BY <1>6, <1>7

\* A candle's event is later than all there are, and records the ledger with it.
LEMMA ProcessEvident ==
  ASSUME Evident, NEW gain \in {0, 1}, ProcessCandle(gain)
  PROVE  Evident'
<1> USE DEF Evident
<1> DEFINE e == [at |-> NextCandle, gain |-> gain, equity |-> Ledger(original) + gain]
<1>1. /\ events' = Append(events, e) /\ original' = Append(original, e)
      /\ NextCandle <= now /\ original = <<>> => now > launched
      /\ UNCHANGED <<now, session, launched, tampered, file, live, cleanBase>>
  BY DEF ProcessCandle, runner, history
<1>2. events \in Seq(Entries) /\ original \in Seq(Entries) BY DEF Numbers
<1>3. /\ NextCandle \in Nat
      /\ \A n \in DOMAIN original : original[n].at < NextCandle /\ original[n].at \in Nat
      /\ original # <<>> => Last(original).at < NextCandle
  <2>1. CASE original = <<>> BY <2>1 DEF NextCandle, Numbers
  <2>2. CASE original # <<>>
    <3>1. \A n \in DOMAIN original : original[n] \in Entries BY <1>2
    <3>2. \A n \in DOMAIN original : original[n].at \in Nat BY <3>1 DEF Entries
    <3> QED BY <2>2, <3>2, LastIsLatest DEF NextCandle
  <2> QED BY <2>1, <2>2
<1>4. Ledger(original) \in Int BY <1>2, LedgerOfAppend, LedgerNumber DEF Ledger
<1>5. e \in Entries BY <1>3, <1>4 DEF Entries
<1>6. e.at = NextCandle /\ e.equity = Ledger(original) + gain /\ e.gain = gain OBVIOUS
<1> HIDE DEF e
<1>7. /\ original' \in Seq(Entries) /\ original' # <<>>
      /\ DOMAIN original' = DOMAIN original \cup {Len(original) + 1}
      /\ Last(original') = e /\ original'[Len(original) + 1] = e
      /\ \A n \in DOMAIN original : original'[n] = original[n]
      /\ \A n \in DOMAIN original : n < Len(original) + 1
  BY <1>1, <1>2, <1>5, Appended
<1>8. /\ events' \in Seq(Entries)
      /\ DOMAIN events' = DOMAIN events \cup {Len(events) + 1}
      /\ events'[Len(events) + 1] = e
      /\ \A n \in DOMAIN events : events'[n] = events[n]
  BY <1>1, <1>2, <1>5, Appended
<1>9. Numbers' BY <1>1, <1>7, <1>8 DEF Numbers
<1>10. InOrder'
  <2> SUFFICES ASSUME NEW m \in DOMAIN original', NEW n \in DOMAIN original', m < n
               PROVE  original'[m].at < original'[n].at
    BY DEF InOrder
  <2>1. Len(original) \in Nat /\ \A k \in DOMAIN original : k \in Nat BY <1>2
  <2>2. m \in DOMAIN original BY <1>7, <2>1
  <2>3. CASE n \in DOMAIN original BY <1>7, <2>2, <2>3 DEF InOrder
  <2>4. CASE n = Len(original) + 1 BY <1>3, <1>6, <1>7, <2>2, <2>4
  <2> QED BY <1>7, <2>3, <2>4
<1>11. \A t \in Nat : t < NextCandle => LedgerUpTo(original', t) = LedgerUpTo(original, t)
  <2> TAKE t \in Nat
  <2> HAVE t < NextCandle
  <2>1. e.at \notin 0..t BY <1>3, <1>6
  <2>2. LedgerOf(original, 0..t) \in Int BY <1>2, LedgerNumber
  <2> QED BY <1>1, <1>2, <1>5, <2>1, <2>2, LedgerOfAppend DEF LedgerUpTo
<1>12. EquityIsLedger'
  <2> SUFFICES ASSUME NEW n \in DOMAIN original'
               PROVE  original'[n].equity = LedgerUpTo(original', original'[n].at)
    BY DEF EquityIsLedger
  <2>1. CASE n \in DOMAIN original
    BY <1>3, <1>7, <1>11, <2>1 DEF EquityIsLedger
  <2>2. CASE n = Len(original) + 1
    <3>1. \A k \in DOMAIN original' : original'[k].at \in 0..NextCandle
      BY <1>3, <1>6, <1>7
    <3>2. \A k \in DOMAIN original' :
            original'[k].at \in Nat <=> original'[k].at \in 0..NextCandle
      BY <1>3, <3>1
    <3>3. LedgerUpTo(original', NextCandle) = Ledger(original')
      BY <1>7, <3>2, SameTimesSameLedger DEF Ledger, LedgerUpTo
    <3>4. Ledger(original') = Ledger(original) + gain
      BY <1>1, <1>2, <1>3, <1>5, <1>6, LedgerOfAppend DEF Ledger
    <3> QED BY <1>6, <1>7, <2>2, <3>3, <3>4
  <2> QED BY <1>7, <2>1, <2>2
<1>13. StoredWasWritten'
  <2>1. ASSUME NEW n \in DOMAIN events'
        PROVE  \E m \in DOMAIN original' :
                 events'[n].at = original'[m].at /\ events'[n].equity = original'[m].equity
    <3>1. CASE n \in DOMAIN events BY <1>7, <1>8, <3>1 DEF StoredWasWritten
    <3>2. CASE n = Len(events) + 1 BY <1>7, <1>8, <3>2
    <3> QED BY <1>8, <3>1, <3>2
  <2>2. ~tampered' => events' = original' BY <1>1 DEF StoredWasWritten
  <2> QED BY <2>1, <2>2 DEF StoredWasWritten
<1>14. BlankUntilReported' BY <1>1 DEF BlankUntilReported
<1>15. CoversWritten'
  BY SMTT(40), <1>1, <1>3, <1>6, <1>7, LastIsLatest DEF CoversWritten, Numbers
<1>16. LaterThanStart'
  <2> SUFFICES ASSUME Phase(file) = "RUNNING", live.session = session
               PROVE  /\ file.anchor <= launched
                      /\ \A n \in DOMAIN original' : file.anchor < original'[n].at
                      /\ \A d \in file.days : Day(file.anchor) <= d
    BY <1>1 DEF LaterThanStart, Phase, Day
  <2>1. file.anchor < NextCandle
    <3>1. CASE original = <<>>
      BY <1>1, <3>1 DEF NextCandle, LaterThanStart, Numbers
    <3>2. CASE original # <<>>
      BY <1>3, <3>2, LastIsLatest DEF LaterThanStart, Numbers
    <3> QED BY <3>1, <3>2
  <2> QED BY <1>6, <1>7, <2>1 DEF LaterThanStart
<1>17. BookIsHonest'
  <2> SUFFICES ASSUME file.book.cursor # 0, cleanBase, live.session = session
               PROVE  file.book.ledger = LedgerUpTo(original', file.book.cursor)
    BY <1>1 DEF BookIsHonest
  <2>1. file.book.cursor < NextCandle
    BY <1>3, LastIsLatest DEF CoversWritten, Numbers
  <2> QED BY <1>11, <2>1 DEF BookIsHonest, Numbers
<1> QED
  BY <1>9, <1>10, <1>12, <1>13, <1>14, <1>15, <1>16, <1>17

\* A report moves the checkpoint to the last stored event where the ledger of the
\* stored events is the one that event recorded.
LEMMA FinishEvident ==
  ASSUME Anchored, Evident, NEW ok \in BOOLEAN, FinishReport(ok)
  PROVE  Evident'
<1> USE DEF Evident
<1>1. /\ previous = file /\ Phase(file) # "INVALIDATED"
      /\ file' = Built(file, ok)
      /\ cleanBase' = IF Baseline(file.book) THEN ~tampered ELSE cleanBase
      /\ UNCHANGED <<now, session, launched, events, original, tampered, live>>
  BY DEF FinishReport, Anchored, ReadIsFresh, journal
<1>2. /\ file'.kind = "v2" /\ file'.anchor = file.anchor
      /\ file'.book = NextBook(events, file.book)
      /\ Phase(file') = "RUNNING" <=> Phase(file) = "RUNNING"
      /\ \A d \in file'.days : d \in file.days \/ d = Day(now)
  BY <1>1, WriteKeepsEvidence
<1>3. InOrder' /\ EquityIsLedger' /\ StoredWasWritten' /\ BlankUntilReported'
  BY <1>1, <1>2 DEF InOrder, EquityIsLedger, StoredWasWritten, BlankUntilReported
<1>4. LaterThanStart'
  BY <1>1, <1>2, DaysGrow DEF LaterThanStart, Numbers
<1>5. CASE file'.book = file.book
  <2>1. Numbers' /\ CoversWritten' BY <1>1, <1>2, <1>5 DEF Numbers, CoversWritten
  <2>2. BookIsHonest' BY <1>1, <1>5 DEF BookIsHonest, Baseline
  <2> QED BY <1>3, <1>4, <2>1, <2>2
<1>6. CASE file'.book = NoBook
  BY <1>1, <1>2, <1>3, <1>4, <1>6 DEF Numbers, CoversWritten, BookIsHonest, NoBook
<1>7. CASE /\ events # <<>>
           /\ file'.book = [cursor |-> Last(events).at, ledger |-> Ledger(events)]
           /\ Baseline(file.book) \/ Last(events).equity = Ledger(events)
  <2>1. /\ events \in Seq(Entries) /\ original \in Seq(Entries)
        /\ Len(events) \in DOMAIN events /\ Last(events) = events[Len(events)]
    BY <1>7 DEF Numbers, Last
  <2>2. PICK m \in DOMAIN original :
          Last(events).at = original[m].at /\ Last(events).equity = original[m].equity
    BY <2>1 DEF StoredWasWritten
  <2>3. original # <<>> BY <2>2
  <2>4. /\ file'.book.cursor = original[m].at /\ file'.book.ledger = Ledger(events)
    BY <1>7, <2>2
  <2>5. original[m] \in Entries BY <2>1
  <2>6. original[m].at \in Nat BY <2>5 DEF Entries
  <2>7. Numbers' BY <1>1, <1>2, <2>4, <2>6 DEF Numbers
  <2>8. CoversWritten' BY <1>1, <2>2, <2>3, <2>4, LastIsLatest DEF CoversWritten
  <2>9. BookIsHonest'
    <3> SUFFICES ASSUME cleanBase'
                 PROVE  Ledger(events) = LedgerUpTo(original, original[m].at)
      BY <1>1, <2>4 DEF BookIsHonest
    <3>1. CASE Last(events).equity = Ledger(events)
      BY <2>2, <3>1 DEF EquityIsLedger
    <3>2. CASE Baseline(file.book)
      <4>1. events = original BY <1>1, <3>2 DEF StoredWasWritten
      <4>2. original[m].at = Last(original).at BY <2>2, <4>1
      <4>3. \A n \in DOMAIN original : original[n].at \in Nat
        <5>1. \A n \in DOMAIN original : original[n] \in Entries BY <2>1
        <5> QED BY <5>1 DEF Entries
      <4>4. \A n \in DOMAIN original :
              original[n].at \in Nat <=> original[n].at \in 0..original[m].at
        BY <2>3, <2>6, <4>2, <4>3, LastIsLatest
      <4> QED BY <2>1, <4>1, <4>4, SameTimesSameLedger DEF Ledger, LedgerUpTo
    <3> QED BY <1>7, <3>1, <3>2
  <2> QED BY <1>3, <1>4, <2>7, <2>8, <2>9
<1> QED BY <1>2, <1>5, <1>6, <1>7, CheckpointCases

\* A changed or lost event was written all the same.
LEMMA TamperEvident ==
  ASSUME Evident, Tamper
  PROVE  Evident'
<1> USE DEF Evident
<1>1. /\ tampered' = TRUE
      /\ UNCHANGED <<now, session, launched, original, file, live, cleanBase>>
  BY DEF Tamper, runner, history
<1>2. PICK n \in DOMAIN events :
        \/ events' = [events EXCEPT ![n].gain = 1 - @]
        \/ events' = RemoveAt(events, n)
  BY DEF Tamper
<1>3. events \in Seq(Entries) /\ \A k \in DOMAIN events : events[k] \in Entries
  BY DEF Numbers
<1>4. /\ events' \in Seq(Entries)
      /\ \A k \in DOMAIN events' : \E m \in DOMAIN events :
           events'[k].at = events[m].at /\ events'[k].equity = events[m].equity
  <2>1. CASE events' = [events EXCEPT ![n].gain = 1 - @]
    <3> DEFINE e == [events[n] EXCEPT !.gain = 1 - @]
    <3>1. e \in Entries /\ e.at = events[n].at /\ e.equity = events[n].equity
      <4>1. PICK d \in Entries : d = events[n] BY <1>3
      <4>2. [d EXCEPT !.gain = 1 - @] = [at |-> d.at, gain |-> 1 - d.gain, equity |-> d.equity]
        BY <4>1 DEF Entries
      <4>3. d.at \in Nat /\ 1 - d.gain \in Int /\ d.equity \in Int
        BY <4>1 DEF Entries
      <4> QED BY <4>1, <4>2, <4>3 DEF Entries
    <3>2. events' = [events EXCEPT ![n] = e] BY <2>1
    <3> HIDE DEF e
    <3>3. events' \in Seq(Entries) /\ DOMAIN events' = DOMAIN events
      BY <1>3, <3>1, <3>2
    <3>4. \A k \in DOMAIN events : events'[k] = IF k = n THEN e ELSE events[k]
      BY <3>2
    <3> QED BY <3>1, <3>3, <3>4
  <2>2. CASE events' = RemoveAt(events, n)
    <3>1. n \in 1..Len(events) /\ Len(events) \in Nat BY <1>3
    <3> DEFINE front == SubSeq(events, 1, n - 1)
               back == SubSeq(events, n + 1, Len(events))
    <3>2. /\ front \in Seq(Entries) /\ Len(front) = n - 1
          /\ \A k \in 1..(n - 1) : front[k] = events[k]
      BY <1>3, <3>1
    <3>3. /\ back \in Seq(Entries) /\ Len(back) = Len(events) - n
          /\ \A k \in 1..(Len(events) - n) : back[k] = events[k + n]
      BY <1>3, <3>1
    <3>4. events' = front \o back BY <2>2 DEF RemoveAt
    <3> HIDE DEF front, back
    <3>5. events' \in Seq(Entries) /\ Len(events') = Len(events) - 1
      BY <3>1, <3>2, <3>3, <3>4
    <3>6. \A k \in 1..(Len(events) - 1) :
            events'[k] = IF k <= n - 1 THEN front[k] ELSE back[k - (n - 1)]
      BY SMTT(40), <3>1, <3>2, <3>3, <3>4
    <3>7. ASSUME NEW k \in DOMAIN events'
          PROVE  \E m \in DOMAIN events : events'[k] = events[m]
      <4>1. k \in 1..(Len(events) - 1) BY <3>1, <3>5
      <4>2. CASE k <= n - 1
        <5>1. k \in 1..(n - 1) /\ k \in DOMAIN events BY <3>1, <4>1, <4>2
        <5> QED BY <3>2, <3>6, <4>1, <4>2, <5>1
      <4>3. CASE ~(k <= n - 1)
        <5>1. k - (n - 1) \in 1..(Len(events) - n) /\ k + 1 \in DOMAIN events
              /\ (k - (n - 1)) + n = k + 1
          BY <3>1, <4>1, <4>3
        <5>2. events'[k] = back[k - (n - 1)] BY <3>6, <4>1, <4>3
        <5>3. back[k - (n - 1)] = events[k + 1] BY <3>3, <5>1
        <5> QED BY <5>1, <5>2, <5>3
      <4> QED BY <4>2, <4>3
    <3> QED BY <3>5, <3>7
  <2> QED BY <1>2, <2>1, <2>2
<1>5. StoredWasWritten'
  <2> SUFFICES ASSUME NEW k \in DOMAIN events'
               PROVE  \E m \in DOMAIN original :
                        events'[k].at = original[m].at /\ events'[k].equity = original[m].equity
    BY <1>1 DEF StoredWasWritten
  <2> QED BY <1>4 DEF StoredWasWritten
<1>6. Numbers' BY <1>1, <1>4 DEF Numbers
<1>7. InOrder' /\ EquityIsLedger' /\ BlankUntilReported'
  BY <1>1 DEF InOrder, EquityIsLedger, BlankUntilReported
<1>8. CoversWritten' /\ LaterThanStart' /\ BookIsHonest'
  BY <1>1 DEF CoversWritten, LaterThanStart, BookIsHonest, Phase, Day
<1> QED BY <1>5, <1>6, <1>7, <1>8

\* Every step keeps the evidence a certification's own.
LEMMA NextEvident ==
  ASSUME QuietEdits, ArchiveFirst
  PROVE  Anchored /\ Evident /\ [Next]_vars => Evident'
<1> SUFFICES ASSUME Anchored, Evident, [Next]_vars PROVE Evident'
  OBVIOUS
<1> DEFINE Rest == /\ UNCHANGED <<now, session, launched, live, cleanBase>>
                   /\ UNCHANGED <<events, original, tampered>>
<1>1. ASSUME Rest, file' = file PROVE Evident'
  BY <1>1 DEF Evident, Numbers, InOrder, EquityIsLedger, StoredWasWritten,
              BlankUntilReported, CoversWritten, LaterThanStart, BookIsHonest, Phase, Day
<1>2. CASE Restart BY <1>2, LaunchEvident DEF Restart
<1>3. CASE Process BY <1>3, ProcessEvident DEF Process
<1>4. CASE BeginReport BY <1>1, <1>4 DEF BeginReport, journal, history
<1>5. CASE Finish BY <1>5, FinishEvident DEF Finish
<1>6. CASE ReportFails BY <1>1, <1>6 DEF ReportFails, journal, history
<1>7. CASE Crash BY <1>1, <1>7 DEF Crash, journal, history
<1>8. CASE CandleCloses
  <2>1. /\ now' = now + 1
        /\ UNCHANGED <<session, launched, live, cleanBase, events, original, tampered, file>>
    BY <1>8 DEF CandleCloses, runner, journal, history
  <2>2. Numbers' BY <2>1 DEF Evident, Numbers
  <2> QED
    BY <2>1, <2>2 DEF Evident, InOrder, EquityIsLedger, StoredWasWritten,
              BlankUntilReported, CoversWritten, LaterThanStart, BookIsHonest, Phase, Day
<1>9. CASE Invalidate
  <2>1. /\ Rest
        /\ file' = [file EXCEPT !.invalid = TRUE]
    BY <1>9 DEF Invalidate, runner, journal, history
  <2>2. /\ file'.invalid /\ file'.kind = file.kind /\ file'.anchor = file.anchor
        /\ file'.book = file.book /\ file'.days = file.days
    BY <2>1 DEF Anchored, IsDocument
  <2>3. Phase(file') # "RUNNING" BY <2>2, PhaseCases
  <2>4. LaterThanStart' BY <2>3 DEF LaterThanStart
  <2> QED
    BY <2>1, <2>2, <2>4 DEF Evident, Numbers, InOrder, EquityIsLedger, StoredWasWritten,
              BlankUntilReported, CoversWritten, BookIsHonest
<1>10. CASE Archive
  <2>1. /\ UNCHANGED <<now, session, launched, cleanBase, events, original, tampered>>
        /\ file' = NoFile /\ live' = NoStart
    BY <1>10 DEF Archive, runner, journal
  <2>2. /\ file'.book = NoBook /\ file'.book.cursor = 0 /\ file'.days = {}
        /\ file'.anchor = 0 /\ ~file'.invalid /\ live'.session = 0
    BY <2>1 DEF NoFile, NoBook, NoStart
  <2>3. live'.session # session' BY <2>1, <2>2 DEF Evident, Numbers
  <2>4. Numbers' BY <2>1, <2>2 DEF Evident, Numbers
  <2>5. CoversWritten' /\ LaterThanStart' /\ BookIsHonest'
    BY <2>3 DEF CoversWritten, LaterThanStart, BookIsHonest
  <2>6. InOrder' /\ EquityIsLedger' /\ StoredWasWritten' /\ BlankUntilReported'
    BY <2>1, <2>2 DEF Evident, InOrder, EquityIsLedger, StoredWasWritten,
                      BlankUntilReported
  <2> QED BY <2>4, <2>5, <2>6 DEF Evident
<1>11. CASE Tamper BY <1>11, TamperEvident
<1>12. CASE UNCHANGED vars BY <1>1, <1>12 DEF vars, runner, journal, history
<1> QED
  BY <1>2, <1>3, <1>4, <1>5, <1>6, <1>7, <1>8, <1>9, <1>10, <1>11, <1>12 DEF Next

\* What is evident is the certification's own.
LEMMA EvidentIsOwn == Evident => EvidenceIsItsOwn
<1> SUFFICES ASSUME Evident PROVE NoEvidenceBeforeAnchor
  BY DEF Evident, EvidenceIsItsOwn
<1> SUFFICES ASSUME Phase(file) = "RUNNING", live.session = session
             PROVE  /\ \A n \in DOMAIN events : events[n].at > file.anchor
                    /\ \A d \in file.days : d >= Day(file.anchor)
  BY DEF NoEvidenceBeforeAnchor
<1>1. \A n \in DOMAIN original : original[n] \in Entries BY DEF Evident, Numbers
<1>2. \A n \in DOMAIN original : original[n].at \in Nat BY <1>1 DEF Entries
<1>3. ASSUME NEW n \in DOMAIN events PROVE events[n].at > file.anchor
  <2>1. PICK m \in DOMAIN original : events[n].at = original[m].at
    BY DEF Evident, StoredWasWritten
  <2> QED BY <1>2, <2>1 DEF Evident, LaterThanStart, Numbers
<1>4. ASSUME NEW d \in file.days PROVE d >= Day(file.anchor)
  BY <1>4 DEF Evident, LaterThanStart
<1> QED BY <1>3, <1>4

\* accounting_reconciliation.py:523-646 and certification_snapshot.py:24-39: whatever
\* is tampered with, lost, launched anew or crashes, a running certification counts
\* events and days after its START only, and its checkpoint is the ledger of the
\* events as the runner wrote them; for an operator who edits the file while no
\* report is written and archives a v2 file before a new START.
THEOREM EvidenceStaysOwn ==
  ASSUME QuietEdits, ArchiveFirst
  PROVE  Spec => []EvidenceIsItsOwn
<1>1. Init => Anchored /\ Evident BY InitAnchored, InitEvident
<1>2. Anchored /\ Evident /\ [Next]_vars => (Anchored /\ Evident)'
  BY NextAnchored, NextEvident
<1>3. Evident => EvidenceIsItsOwn BY EvidentIsOwn
<1> QED BY <1>1, <1>2, <1>3, PTL DEF Spec
=============================================================================
