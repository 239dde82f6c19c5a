---------------------------- MODULE MCMusicPlayback ----------------------------
(***************************************************************************)
(* Small instances of MusicPlayback for TLC.                                *)
(***************************************************************************)
EXTENDS MusicPlayback
=============================================================================
