----------------------------- MODULE MCFaceTracker -----------------------------
(***************************************************************************)
(* Instance of FaceTracker for TLC: a frame of 704 by 576 pixels, which    *)
(* three does not divide, and a face in each zone, next to the lines       *)
(* between columns and between rows of the small picture.                  *)
(***************************************************************************)
EXTENDS FaceTracker

MCFaces == {117, 118, 235} \X {95, 96, 192}

=============================================================================
