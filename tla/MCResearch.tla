-------------------------------- MODULE MCResearch --------------------------------
(* Small instances of Research for TLC. *)
EXTENDS Research

BothMarkets == {"SPOT", "FUTURES"}
AllTradeSides == {"long", "short", "both"}
TwoPrices == {2, 4}
===================================================================================
