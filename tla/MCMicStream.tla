------------------------------ MODULE MCMicStream ------------------------------
(***************************************************************************)
(* Instance of MicStream for TLC: a listener of each kind.                 *)
(***************************************************************************)
EXTENDS MicStream

CONSTANTS stream, call_rx

TwoListeners == {stream, call_rx}

=============================================================================
