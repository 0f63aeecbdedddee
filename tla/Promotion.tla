------------------------------- MODULE Promotion -------------------------------
(***************************************************************************)
(* The promotion of a strategy up to HOLDOUT_READY (lab/promote.py): one   *)
(* sealed state file, rewritten as a whole by whoever holds a Promotion    *)
(* object.  Objects are values: a step makes a new one and persists it,    *)
(* and nothing stops a holder of an older one from stepping as well.       *)
(***************************************************************************)
EXTENDS Integers, Sequences, Files

CONSTANTS
  Holders,     \* who may hold a Promotion object
  MaxHistory,  \* bound: entries of a history
  MaxForgeries \* bound: edits of the file by hand

ASSUME PromotionAssumption == MaxHistory \in Nat /\ MaxForgeries \in Nat

VARIABLES
  state_file,  \* <root>/<strategy_identity>.state.json
  held,        \* the Promotion object of each holder
  forgeries    \* history: edits by hand

promotionVars == <<state_file, held, forgeries>>

States == <<"DRAFT", "PARITY_PASSED", "ROBUSTNESS_PASSED", "HOLDOUT_READY">>

ParityEvidence == [runtime_parity : BOOLEAN, double_run_reproducibility : BOOLEAN]
\* Window counts and expectancy (-1000: none) by sign, interpretations by the
\* one that is rejected.
RobustnessEvidence ==
  [profitable_windows : {0, 1}, expectancy : {-1000, 0, 1}, stable_negative : BOOLEAN,
   edge_present : BOOLEAN, promotable : BOOLEAN]
HoldoutReadinessEvidence ==
  [split_version : {1, 2}, pristine : BOOLEAN, human_approved : BOOLEAN,
   approver_named : BOOLEAN]

ShowsParity(e) == e.runtime_parity /\ e.double_run_reproducibility
ShowsEdge(e) ==
  /\ ~e.stable_negative /\ e.edge_present /\ e.promotable
  /\ e.profitable_windows > 0 /\ e.expectancy > 0
ShowsReadiness(e) ==
  /\ e.split_version = 1 /\ e.pristine
  /\ e.human_approved /\ e.approver_named

\* _persist: the file is written over, or torn when the process is killed; the
\* object of a killed process is gone.
Persist(h, promotion) ==
  \/ state_file' = promotion /\ held' = [held EXCEPT ![h] = promotion]
  \/ state_file' = Torn /\ held' = [held EXCEPT ![h] = Absent]

Create(h) ==
  /\ state_file = Absent
  /\ Persist(h, [state |-> "DRAFT", history |-> <<>>, sealed |-> TRUE])
  /\ UNCHANGED forgeries

\* load: what does not parse or does not match its seal is refused.
SealMatches(content) == content.sealed
Load(h) ==
  /\ state_file \notin {Absent, Torn} /\ SealMatches(state_file)
  /\ held' = [held EXCEPT ![h] = state_file]
  /\ UNCHANGED <<state_file, forgeries>>

Step(h, target, reason) ==
  /\ Len(held[h].history) < MaxHistory
  /\ Persist(h, [state |-> target, sealed |-> TRUE,
                 history |-> Append(held[h].history,
                               [origin |-> held[h].state, target |-> target,
                                reason |-> reason])])
  /\ UNCHANGED forgeries

DemandState_dropped(h, expected) == held[h] # Absent
DemandState(h, expected) == held[h] # Absent /\ held[h].state = expected

AdvanceToParity(h, e) ==
  DemandState(h, "DRAFT") /\ ShowsParity(e) /\ Step(h, "PARITY_PASSED", "parity")
AdvanceToRobustness(h, e) ==
  DemandState(h, "PARITY_PASSED") /\ ShowsEdge(e) /\ Step(h, "ROBUSTNESS_PASSED", "edge")
AdvanceToHoldoutReady(h, e) ==
  /\ DemandState(h, "ROBUSTNESS_PASSED") /\ ShowsReadiness(e)
  /\ Step(h, "HOLDOUT_READY", "approved")

AddResearchNote(h) ==
  held[h] # Absent /\ Step(h, held[h].state, "research-note")

\* Somebody edits the state in the file, without the seal.
EditByHand(state) ==
  /\ state_file \notin {Absent, Torn} /\ forgeries < MaxForgeries
  /\ state_file' = [state_file EXCEPT !.state = state, !.sealed = FALSE]
  /\ forgeries' = forgeries + 1
  /\ UNCHANGED held

\* The process of a holder ends; a torn file is removed by hand.
Drop(h) ==
  /\ held[h] # Absent
  /\ held' = [held EXCEPT ![h] = Absent]
  /\ UNCHANGED <<state_file, forgeries>>
RemoveTorn ==
  /\ state_file = Torn
  /\ state_file' = Absent
  /\ UNCHANGED <<held, forgeries>>

PromotionInit ==
  /\ state_file = Absent /\ held = [h \in Holders |-> Absent] /\ forgeries = 0

PromotionNext ==
  \/ \E h \in Holders :
       \/ Create(h) \/ Load(h) \/ AddResearchNote(h) \/ Drop(h)
       \/ \E e \in ParityEvidence : AdvanceToParity(h, e)
       \/ \E e \in RobustnessEvidence : AdvanceToRobustness(h, e)
       \/ \E e \in HoldoutReadinessEvidence : AdvanceToHoldoutReady(h, e)
  \/ \E i \in DOMAIN States : EditByHand(States[i])
  \/ RemoveTorn

PromotionSpec == PromotionInit /\ [][PromotionNext]_promotionVars

-----------------------------------------------------------------------------
(* Properties.                                                             *)

\* An entry of a history that promotes, a research note does not, and from where.
Promotes(entry) == entry.reason # "research-note"
FromTo(entry, below) == entry.origin = States[below] /\ entry.target = States[below + 1]
Rank(state) == CHOOSE i \in DOMAIN States : States[i] = state

\* A promotion object has one accepted entry for every state below its own, in
\* order, and no other.
Earned(p) ==
  LET promoted == { i \in DOMAIN p.history : Promotes(p.history[i]) }
      below == 1..(Rank(p.state) - 1)
  IN /\ \A b \in below : \E i \in promoted : FromTo(p.history[i], b)
     /\ \A i \in promoted : \E b \in below : FromTo(p.history[i], b)
     /\ \A i, j \in promoted :
          i < j => Rank(p.history[i].origin) < Rank(p.history[j].origin)

\* Whoever stepped, from whatever old object, over whatever file: a strategy
\* that an object, or a file with its seal, calls ready has earned every state
\* below it, and no edit by hand ever got in.
PromotionsAreEarned ==
  \A p \in { held[h] : h \in Holders } \cup {state_file} :
    p \notin {Absent, Torn} /\ p.sealed => Earned(p)

=============================================================================
