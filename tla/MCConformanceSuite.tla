------------------------ MODULE MCConformanceSuite ------------------------
(* The suite with the adapter in every profile, and with an erratic        *)
(* candidate in the short one. *)
EXTENDS ConformanceSuite

MCErraticArgument == {"http", "unknown"}
=============================================================================
