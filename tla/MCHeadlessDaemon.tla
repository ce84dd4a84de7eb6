--------------------------- MODULE MCHeadlessDaemon ---------------------------
(***************************************************************************)
(* A small instance of HeadlessDaemon for TLC.                             *)
(***************************************************************************)
EXTENDS HeadlessDaemon
=============================================================================
