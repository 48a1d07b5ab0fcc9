-------------------------- MODULE MCReportArtifacts --------------------------
(* Two workers and as many attempts as make one of them stale.             *)
EXTENDS ReportArtifacts
CONSTANTS w1, w2
=============================================================================
