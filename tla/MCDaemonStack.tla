----------------------------- MODULE MCDaemonStack -----------------------------
(* Small instances of DaemonStack for TLC. *)
EXTENDS DaemonStack

CONSTANTS m1, m2
TwoMembers == {m1, m2}
AllSettings == SUBSET {"exit", "failure"}
=============================================================================
