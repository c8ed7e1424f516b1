------------------------- MODULE MCMetadataRewrite -------------------------
(* Instances of MetadataRewrite for TLC. *)
EXTENDS MetadataRewrite
CONSTANTS v1, v2, p1, p2
=============================================================================
