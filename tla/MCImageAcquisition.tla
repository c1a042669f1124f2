------------------------- MODULE MCImageAcquisition -------------------------
(* Instances of ImageAcquisition for TLC. *)
EXTENDS ImageAcquisition
=============================================================================
