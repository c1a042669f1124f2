--------------------------- MODULE MCMainWindow ---------------------------
(***************************************************************************)
(* MainWindow with a disk and an image on two volumes.                     *)
(***************************************************************************)
EXTENDS MainWindow

CONSTANTS disk, image, v1, v2

OnVolumes == [s \in {disk, image} |-> IF s = disk THEN v1 ELSE v2]
============================================================================
