--------------------------- MODULE MCSiteBackups ---------------------------
(* Instances of SiteBackups for TLC. *)
EXTENDS SiteBackups

KeepOne == [daily |-> 1]
=============================================================================
