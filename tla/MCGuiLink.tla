---------------------------- MODULE MCGuiLink ----------------------------
(***************************************************************************)
(* Instances of GuiLink for TLC.                                           *)
(***************************************************************************)
EXTENDS GuiLink

Ids == 1..5

=============================================================================
