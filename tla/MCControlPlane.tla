----------------------------- MODULE MCControlPlane -----------------------------
(* A small instance of ControlPlane for TLC. *)
EXTENDS ControlPlane

CONSTANTS t1, t2
TwoThreads == {t1, t2}
TwoPids == 1..2
=================================================================================
