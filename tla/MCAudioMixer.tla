----------------------------- MODULE MCAudioMixer -----------------------------
(***************************************************************************)
(* Participants are told apart by nothing but their names.                 *)
(***************************************************************************)
EXTENDS AudioMixer, TLC

Symmetry == Permutations(Participants)
=============================================================================
