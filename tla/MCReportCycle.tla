--------------------------- MODULE MCReportCycle ---------------------------
(***************************************************************************)
(* ReportCycle for TLC: two processes that may both report are             *)
(* interchangeable.  The symmetry is used for invariants only.             *)
(***************************************************************************)
EXTENDS ReportCycle, TLC

Symmetry == Permutations(Reporters)

=============================================================================
