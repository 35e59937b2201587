-------------------------- MODULE MCStagingArena --------------------------
(* Small instances of StagingArena.                                        *)
EXTENDS StagingArena
===========================================================================
