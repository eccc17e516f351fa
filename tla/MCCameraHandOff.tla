--------------------------- MODULE MCCameraHandOff ---------------------------
(***************************************************************************)
(* CameraHandOff for TLC: cameras are interchangeable, and so are channels.*)
(***************************************************************************)
EXTENDS CameraHandOff, TLC

Symmetry == Permutations(Camera) \cup Permutations(Channel)
=============================================================================
