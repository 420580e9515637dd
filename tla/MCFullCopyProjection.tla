------------------------ MODULE MCFullCopyProjection ------------------------
(***************************************************************************)
(* Small instances of FullCopyProjection: the preview copy and the         *)
(* requirements copy, told apart by the constant Preview.                  *)
(***************************************************************************)
EXTENDS FullCopyProjection

=============================================================================
