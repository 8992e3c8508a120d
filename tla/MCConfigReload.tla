--------------------------- MODULE MCConfigReload ---------------------------
(* A small instance of ConfigReload: an accept loop and the statistics     *)
(* loop read, the file is written twice.                                   *)
EXTENDS ConfigReload, TLC

CONSTANTS accept, statistics, watcher
=============================================================================
