--------------------------- MODULE MCEvidenceExport ---------------------------
(* Instances of EvidenceExport for TLC. *)
EXTENDS EvidenceExport
=============================================================================
