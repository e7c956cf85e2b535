------------------------------ MODULE MCAudio -------------------------------
(* AudioPath on small sets, for TLC. *)
EXTENDS AudioPath
=============================================================================
