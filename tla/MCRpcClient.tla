---------------------------- MODULE MCRpcClient ----------------------------
(* Values of the constants of RpcClient for TLC.                           *)
EXTENDS RpcClient

\* A call may wait forever, or for a while.
MCTimeouts == {-1, 1}
=============================================================================
