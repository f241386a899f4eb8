--------------------------- MODULE MCOrderLifecycle ---------------------------
(* Small instances of OrderLifecycle for TLC. *)
EXTENDS OrderLifecycle, TLC

CONSTANTS o1, o2, p1, p2

OneOrder == {o1}
TwoOrders == {o1, o2}
OneProc == {p1}
TwoProcs == {p1, p2}
AllModes == {"DRY_RUN", "TEST", "LIVE"}
LiveOnly == {"LIVE"}
None == {}

\* Order ids are interchangeable where no constant names one of them.
OrderSymmetry == Permutations(Orders)
=============================================================================
