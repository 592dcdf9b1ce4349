------------------------------ MODULE MCLiveCall ------------------------------
(***************************************************************************)
(* Instance of LiveCall for TLC: two runs of the client, so that one may   *)
(* be refused, late, or next.                                              *)
(***************************************************************************)
EXTENDS LiveCall

TwoClients == {1, 2}
NoNumber == 0

=============================================================================
