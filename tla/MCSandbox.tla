----------------------------- MODULE MCSandbox ------------------------------
(* Constants for model checking Sandbox.                                   *)
EXTENDS Sandbox

Submitted == {Transfer(1, 0, 1, 0, 0), [Transfer(1, 0, 1, 1, 1) EXCEPT !.signed = FALSE]}
=============================================================================
