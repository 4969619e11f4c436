--------------------------- MODULE GroundScriptMC ---------------------------
(* Instances of GroundScript for TLC. *)
EXTENDS GroundScript

MCOneWord == {<<0, 1>>}
=============================================================================
