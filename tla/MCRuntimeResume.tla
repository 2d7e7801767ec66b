--------------------------- MODULE MCRuntimeResume ---------------------------
(* The instances of MCRuntime for a process that is suspended and resumed. *)
EXTENDS RuntimeResume, MCRuntime
=============================================================================
