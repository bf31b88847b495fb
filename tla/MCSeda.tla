------------------------------- MODULE MCSeda -------------------------------
(***************************************************************************)
(* Model checking of the SEDA library: a pool of two threads shared by the *)
(* session, metrics and timer stages, start to destruction.                *)
(***************************************************************************)
EXTENDS Seda
=============================================================================
