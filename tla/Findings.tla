------------------------------ MODULE Findings ------------------------------
(***************************************************************************)
(* The values that every part of Fidelity exchanges: categories, detectors,*)
(* signal strengths, findings, scan outcomes and actions                   *)
(* (crates/fidelity-types), and the policy that turns a finding into an    *)
(* action (crates/fidelity-engine/src/policy.rs).                          *)
(*                                                                         *)
(* An Option<T> of the source is a set with at most one element here, so   *)
(* is_none_or(p) is  \A x \in option : p(x).                               *)
(***************************************************************************)
EXTENDS Naturals, Sequences

CONSTANTS
  Categories,   \* the security questions, each with its own policy entry
  Detectors,    \* the built-in detectors, one state slot each
  CategoryOf    \* the category that a detector answers for

ASSUME DetectorAssumption == CategoryOf \in [Detectors -> Categories]

\* Categories are model values or strings, so a CategorySet (one u32 word in
\* the source, one bit per category) is a set of them.
CategorySet == SUBSET Categories

\* SignalStrength is ordered, and `reaches` is a comparison of two values.
Low == 1
Medium == 2
High == 3
SignalStrength == Low .. High
Reaches(strength, threshold) == strength >= threshold

Actions == {"Report", "Deny", "Callback", "Crash"}

\* Of the evidence only one bit matters to the engine: whether it describes
\* Fidelity itself (Evidence::DetectorHealth) or the environment.
Finding == [detector : Detectors, strength : SignalStrength,
            health : BOOLEAN, at : Nat]

NotRun == [kind |-> "NotRun"]
Clean == [kind |-> "Clean"]
Unsupported == [kind |-> "Unsupported"]
Found(finding) == [kind |-> "Finding", finding |-> finding]

Outcome ==
  [kind : {"NotRun", "Clean", "Unsupported"}]
    \cup [kind : {"Finding"}, finding : Finding]

IsFinding(outcome) == outcome.kind = "Finding"

\* One entry of the vector that a scan returns.
Observed == [detector : Detectors, outcome : Outcome]

\* One entry of the vector that `record` returns: a finding that reached its
\* threshold, and what the policy does about it.
Report == [finding : Finding, action : Actions]

-----------------------------------------------------------------------------
(* The policy: one action and one threshold per category.                  *)

Policy == [Categories -> [action : Actions, threshold : SignalStrength]]

NeedsCallback(policy) ==
  \E category \in Categories : policy[category].action = "Callback"

\* Slip: a finding at the threshold does not reach it.
QualifyingActionStrict(policy, finding) ==
  LET entry == policy[CategoryOf[finding.detector]]
  IN  IF finding.strength > entry.threshold THEN {entry.action} ELSE {}

\* None below the threshold. A detector-health finding describes Fidelity, so
\* Crash is lowered to Report for it.
QualifyingAction(policy, finding) ==
  LET entry == policy[CategoryOf[finding.detector]]
  IN  IF ~Reaches(finding.strength, entry.threshold)
      THEN {}
      ELSE IF entry.action = "Crash" /\ finding.health
           THEN {"Report"}
           ELSE {entry.action}

\* A detector supplied real coverage when it answered about the environment.
SuppliesCoverage(outcome) ==
  \/ outcome.kind = "Clean"
  \/ IsFinding(outcome) /\ ~outcome.finding.health
=============================================================================
