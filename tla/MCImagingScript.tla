--------------------------- MODULE MCImagingScript ---------------------------
(***************************************************************************)
(* Two tables, so that one can be there without the other.                 *)
(***************************************************************************)
EXTENDS ImagingScriptProperties
=============================================================================
