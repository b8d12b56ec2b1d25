---------------------------- MODULE MCDiscovery ----------------------------
(***************************************************************************)
(* Instance of Discovery for TLC.                                          *)
(***************************************************************************)
EXTENDS Discovery, TLC

\* queryLimit (discover-businesses.ts:34).
Queries == [Quick |-> 2, Thorough |-> 4]
=============================================================================
