--------------------------- MODULE DecisionJournal ---------------------------
(***************************************************************************)
(* What a paper session promises of its committed decisions: an append-only *)
(* journal with one entry per candle.  Entries are added in the order the   *)
(* candles close, none is ever changed or removed, and each records exactly *)
(* the entries before it, so that replaying a prefix reproduces the next    *)
(* entry.                                                                   *)
(***************************************************************************)
EXTENDS Naturals

VARIABLE journal       \* records with a field candle and a field after

CandlesOf(J) == {e.candle : e \in J}

Init == journal = {}

Append ==
  /\ journal \subseteq journal'
  /\ \A e \in journal', f \in journal' : e.candle = f.candle => e = f
  /\ \A e \in journal' \ journal :
       /\ \A f \in journal : f.candle < e.candle
       /\ e.after = {k \in CandlesOf(journal') : k < e.candle}

Spec == Init /\ [][Append]_journal
=============================================================================
