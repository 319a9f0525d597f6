----------------------------- MODULE MCDeletion -----------------------------
(* Small instance of Deletion for TLC.                                     *)
EXTENDS Deletion

LeaderPatches == [leader : BOOLEAN]

\* INACTIVE is to a row and to its deletion what ACTIVE is.
StatusPatches == [status : {"ACTIVE", "DELETED"}]
=============================================================================
