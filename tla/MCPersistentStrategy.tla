------------------------- MODULE MCPersistentStrategy -------------------------
(* Small instances of PersistentStrategy for TLC. *)
EXTENDS PersistentStrategy

AllModes == {"LIVE", "TEST", "DRY_RUN"}
LiveOnly == {"LIVE"}
===============================================================================
