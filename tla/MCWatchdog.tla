----------------------------- MODULE MCWatchdog -----------------------------
(* Two tasks; the cfg files give the limits their proportions.             *)
EXTENDS WatchdogProofs
=============================================================================
