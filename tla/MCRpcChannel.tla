---------------------------- MODULE MCRpcChannel ----------------------------
(* Instances of RpcChannel for TLC.                                         *)
EXTENDS RpcChannel
=============================================================================
