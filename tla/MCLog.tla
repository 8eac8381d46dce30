------------------------------- MODULE MCLog -------------------------------
(* Values for the constants of Log are in MCLog.cfg.                       *)
EXTENDS Log

=============================================================================
