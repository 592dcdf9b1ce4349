---------------------------- MODULE MCEspAudio ----------------------------
(***************************************************************************)
(* Instances of EspAudio for TLC: lengths of the audio packets.            *)
(***************************************************************************)
EXTENDS EspAudio

\* Whole samples.
EvenLens == {2, 4}

=============================================================================
