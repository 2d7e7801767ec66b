------------------------------ MODULE StartGate ------------------------------
(***************************************************************************)
(* What the process-wide runtime promises to a host, without threads,      *)
(* locks and process words (crates/fidelity/src/lib.rs:138-223): one slot, *)
(* a set of denials that only grows while the slot is held, a startup      *)
(* window that is armed at most once per start and lifted at most once,    *)
(* and a failed start that leaves nothing behind. RuntimeGate shows that   *)
(* Runtime implements it.                                                  *)
(***************************************************************************)
CONSTANT Denials             \* the categories that a denial may name

VARIABLES
  slot,        \* "free", "starting", "live", "failing", or "down"
  denials,     \* the categories that are denied
  armed,       \* protected operations are denied until the first full scan
  scanned      \* the first full scan is complete

gate == <<slot, denials, armed, scanned>>

Held == slot \in {"starting", "live"}

GateInit ==
  /\ slot = "free"
  /\ denials = {}
  /\ armed = FALSE
  /\ scanned = FALSE

\* One start at a time wins the slot, and finds nothing of an earlier one.
GateClaim ==
  /\ slot = "free"
  /\ slot' = "starting"
  /\ UNCHANGED <<denials, armed, scanned>>

\* deny_until_first_full_scan(), before any outcome is recorded.
GateArm ==
  /\ slot = "starting"
  /\ ~armed /\ ~scanned /\ denials = {}
  /\ armed' = TRUE
  /\ UNCHANGED <<slot, denials, scanned>>

\* A finding, or the host, denies a category for the rest of the process.
GateDeny(category) ==
  /\ Held
  /\ denials' = denials \cup {category}
  /\ UNCHANGED <<slot, armed, scanned>>

\* The worker completes its first full scan, which lifts the startup denial.
\* It may do so before start() has returned.
GateScanned ==
  /\ Held
  /\ scanned' = TRUE
  /\ UNCHANGED <<slot, denials, armed>>

\* start() returns the handle: from here on nothing is taken back.
GateOpens ==
  /\ slot = "starting"
  /\ slot' = "live"
  /\ UNCHANGED <<denials, armed, scanned>>

\* start() fails: what it did is gone at once, the slot comes back after it.
GateFails ==
  /\ slot = "starting"
  /\ ~scanned
  /\ slot' = "failing"
  /\ denials' = {} /\ armed' = FALSE
  /\ UNCHANGED scanned

GateReleased ==
  /\ slot = "failing"
  /\ slot' = "free"
  /\ UNCHANGED <<denials, armed, scanned>>

\* A Crash response aborts the process.
GateAborts ==
  /\ Held
  /\ slot' = "down"
  /\ UNCHANGED <<denials, armed, scanned>>

GateNext ==
  \/ GateClaim \/ GateArm \/ GateScanned \/ GateOpens
  \/ GateFails \/ GateReleased \/ GateAborts
  \/ \E category \in Denials : GateDeny(category)

GateSpec == GateInit /\ [][GateNext]_gate
=============================================================================
