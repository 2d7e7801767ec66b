---------------------------- MODULE EngineState -----------------------------
(***************************************************************************)
(* The retained state of one runtime (crates/fidelity-engine/src/state.rs):*)
(* one slot per detector, and the two category sets that a snapshot shows. *)
(* The operators are pure; Runtime applies them under the state lock.      *)
(***************************************************************************)
EXTENDS Findings

CONSTANT
  MaxOccurrences   \* where the occurrence counter saturates (u32::MAX)

ASSUME OccurrencesAssumption == MaxOccurrences \in Nat \ {0}

Slot == [outcome : Outcome,
         strongest : SUBSET Finding,
         first : SUBSET Nat,
         latest : SUBSET Nat,
         occurrences : 0 .. MaxOccurrences]

State == [latched : CategorySet, hostLatched : CategorySet,
          slots : [Detectors -> Slot]]

NewSlot == [outcome |-> NotRun, strongest |-> {}, first |-> {},
            latest |-> {}, occurrences |-> 0]

NewState == [latched |-> {}, hostLatched |-> {},
             slots |-> [detector \in Detectors |-> NewSlot]]

\* Slip: a recovery starts the slot afresh.
SlotRecordForgets(slot, outcome) ==
  IF IsFinding(outcome)
  THEN [NewSlot EXCEPT !.outcome = outcome, !.strongest = {outcome.finding}]
  ELSE [NewSlot EXCEPT !.outcome = outcome]

\* A recovery overwrites the outcome and keeps the history. The strongest
\* finding is replaced by a strictly stronger one only.
SlotRecord(slot, outcome) ==
  IF ~IsFinding(outcome)
  THEN [slot EXCEPT !.outcome = outcome]
  ELSE LET finding == outcome.finding
       IN  [outcome |-> outcome,
            strongest |->
              IF \A held \in slot.strongest : finding.strength > held.strength
              THEN {finding} ELSE slot.strongest,
            first |-> IF slot.first = {} THEN {finding.at} ELSE slot.first,
            latest |-> {finding.at},
            occurrences |-> IF slot.occurrences < MaxOccurrences
                            THEN slot.occurrences + 1 ELSE slot.occurrences]

\* Every detector that the model names owns a slot, so the lookup succeeds.
StateRecord(state, detector, outcome) ==
  [state EXCEPT !.slots[detector] = SlotRecord(@, outcome)]

StateLatch(state, category) ==
  [state EXCEPT !.latched = @ \cup {category}]

\* Slip: a host latch is recorded as such, and not as a latch.
StateLatchByHostOnly(state, category) ==
  [state EXCEPT !.hostLatched = @ \cup {category}]

StateLatchByHost(state, category) ==
  [state EXCEPT !.latched = @ \cup {category},
                !.hostLatched = @ \cup {category}]
=============================================================================
