----------------------------- MODULE MCRpcClient -----------------------------
(* The threads of the tty: the one that echoes keys and the one that answers *)
(* getchar.                                                                   *)
EXTENDS RpcClient

CONSTANTS echo, getchar

MCCallers == {echo, getchar}
=============================================================================
