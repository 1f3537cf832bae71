----------------------------- MODULE MCReloader -----------------------------
(* ReloaderReports for TLC. *)
EXTENDS ReloaderReports
=============================================================================
