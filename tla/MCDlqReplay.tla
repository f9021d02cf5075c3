---------------------------- MODULE MCDlqReplay ----------------------------
(***************************************************************************)
(* Small instances of DlqReplay for TLC.                                   *)
(***************************************************************************)
EXTENDS DlqReplay, TLC

ReplayerSymmetry == Permutations(Replayers)
=============================================================================
