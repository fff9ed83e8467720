------------------------------- MODULE MCIpc -------------------------------
(* init, a driver that takes interrupts and a level 1 application.           *)
EXTENDS Ipc, TLC

CONSTANTS i, d1, a1, empty, TInit, TDriver, TApp

MCThreads   == {i, d1, a1}
MCTaskOf    == i :> TInit @@ d1 :> TDriver @@ a1 :> TApp
MCLevel     == TInit :> 0 @@ TDriver :> 0 @@ TApp :> 1
MCPriority  == TInit :> 1 @@ TDriver :> 1 @@ TApp :> 1
MCMailOwner == TInit :> i @@ TDriver :> d1 @@ TApp :> a1
\* init waits for a task it has created (kernel.c), setup for init or the
\* disk (disk.c), a module takes everybody's messages (libkmod/init.c).
MCAllowPids == TInit :> {TApp} @@ TDriver :> {TInit, DUMMY_TASK}
               @@ TApp :> {ANY_TASK}
=============================================================================
