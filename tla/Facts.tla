------------------------------- MODULE Facts -------------------------------
(***************************************************************************)
(* The facts that the platform probes report (crates/fidelity-core,        *)
(* fact/*.rs), without the text that goes with them. The detectors         *)
(* (DetectorSet) turn them into outcomes.                                  *)
(***************************************************************************)

TracerState == {"Absent", "Present"}
CodeOrigin == {"Accounted", "Unaccounted"}
ImageCatalogState == {"Accounted", "Unregistered"}
SystemBuild == {"Released", "Development"}
BootVerification == {"Verified", "Unverified"}
MachineHost == {"Hardware", "VirtualMachine", "Simulated"}
PlatformTrust == {"Accepted", "Rejected", "Unavailable"}
IdentityMatch == {"Same", "Different"}
WorkerSetup == {"NothingToDo", "Prepared", "Failed"}

\* A probe states a fact, that the platform offers no answer, or that the
\* check failed.
Observation(facts) == facts \cup {"Unsupported", "Failed"}

\* A capability that a platform does not implement keeps the default of its
\* trait.
NO_PROBE == "Unsupported"
=============================================================================
