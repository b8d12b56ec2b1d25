-------------------------- MODULE MCOperationLock --------------------------
(***************************************************************************)
(* Instances of OperationLock: the worker's cycles, and a web process that *)
(* may be asked for two maintenance operations at once.                    *)
(***************************************************************************)
EXTENDS OperationLock, TLC

CONSTANTS worker, web, cycle, restore, reset

MCProcessOf == [c \in Client |-> IF c = cycle THEN worker ELSE web]
=============================================================================
