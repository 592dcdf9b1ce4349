------------------------------ MODULE MCMicRecord ------------------------------
(***************************************************************************)
(* Instance of MicRecord for TLC.                                          *)
(***************************************************************************)
EXTENDS MicRecord

=============================================================================
