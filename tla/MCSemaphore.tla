---------------------------- MODULE MCSemaphore ----------------------------
(* init and an application of three threads over two semaphores.            *)
EXTENDS Semaphore, TLC

CONSTANTS i, a1, a2, a3, empty, TInit, TApp

MCThreads  == {i, a1, a2, a3}
MCTaskOf   == i :> TInit @@ a1 :> TApp @@ a2 :> TApp @@ a3 :> TApp
MCLevel    == TInit :> 0 @@ TApp :> 0
MCPriority == TInit :> 1 @@ TApp :> 1

\* The two uses in the code: a wait for one event (libkmod/init.c:74,
\* rpc.c:162) and a pool of units (libfifo); and a soft counter.
MCParams == {[max |-> 1, value |-> 0, soft |-> FALSE],
             [max |-> 2, value |-> 2, soft |-> FALSE],
             [max |-> 1, value |-> 1, soft |-> TRUE]}

=============================================================================
