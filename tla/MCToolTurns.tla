---------------------------- MODULE MCToolTurns ----------------------------
(* Small conversations for ToolTurns.                                       *)
EXTENDS ToolTurns
=============================================================================
