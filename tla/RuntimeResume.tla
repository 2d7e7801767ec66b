--------------------------- MODULE RuntimeResume ---------------------------
(***************************************************************************)
(* Runtime in a process that a mobile system suspends during the worker's  *)
(* wait and resumes later. One variable remembers that the worker has not  *)
(* completed a full scan since the last resume.                            *)
(***************************************************************************)
EXTENDS Runtime

VARIABLE resumed

rvars == <<vars, resumed>>

RInit == Init /\ resumed = FALSE

\* The system resumes the process during the sleep that ends a cycle.
Resume ==
  /\ pc[Worker] = "take" /\ scanDone /\ ~crashed
  /\ resumed' = TRUE
  /\ UNCHANGED vars

RNext ==
  \/ Resume
  \/ /\ Next
     /\ resumed' = (resumed /\ ~(pc[Worker] = "scan" /\ pc'[Worker] # "scan"))

RSpec == RInit /\ [][RNext]_rvars

\* "After a resume, the worker completes `scan_all()` before it applies a
\* pending host callback or a pending stop action" (CHANGELOG.md), although
\* the loop dispatches the pending reports first (worker.rs:217).
ScanBeforeResponse ==
  resumed => pc[Worker] # "callback" /\ ~crashed
=============================================================================
