-------------------------- MODULE MCRuntimeHistory --------------------------
(* The instances of MCRuntime for the specification with history.          *)
EXTENDS RuntimeHistory, MCRuntime
=============================================================================
