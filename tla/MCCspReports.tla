---------------------------- MODULE MCCspReports ----------------------------
(* Instances of CspReports for TLC. *)
EXTENDS CspReports
=============================================================================
