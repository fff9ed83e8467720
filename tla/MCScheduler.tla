---------------------------- MODULE MCScheduler ----------------------------
(* A small system: init and a driver of level 0, an application of level 1. *)
EXTENDS Scheduler, TLC

CONSTANTS i, d1, a1, a2, empty, TInit, TDriver, TApp

MCThreads == {i, d1, a1, a2}
MCTaskOf  == i :> TInit @@ d1 :> TDriver @@ a1 :> TApp @@ a2 :> TApp
MCLevel   == TInit :> 0 @@ TDriver :> 0 @@ TApp :> 1
MCPriority == TInit :> 1 @@ TDriver :> 1 @@ TApp :> 1
=============================================================================
