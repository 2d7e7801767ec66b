------------------------------ MODULE Pending -------------------------------
(***************************************************************************)
(* The bounded queue between a host report and the worker                  *)
(* (crates/fidelity-engine/src/pending.rs).                                *)
(***************************************************************************)
EXTENDS Findings

CONSTANT MOST_REPORTS   \* how many reports the queue holds (16 in the source)

ASSUME MostReportsAssumption == MOST_REPORTS \in Nat \ {0}

\* Slip: the queue has no limit.
PendingAddUnbounded(queue, qualified) == queue \o qualified

\* `add` pushes the reports in order and stops at the first one that does not
\* fit, so the queue keeps its oldest entries.
PendingAdd(queue, qualified) ==
  queue \o SubSeq(qualified, 1,
                  IF Len(qualified) <= MOST_REPORTS - Len(queue)
                  THEN Len(qualified) ELSE MOST_REPORTS - Len(queue))
=============================================================================
