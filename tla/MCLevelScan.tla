---------------------------- MODULE MCLevelScan ----------------------------
(* LevelScan on every range of a small word.                                 *)
EXTENDS LevelScan
============================================================================
