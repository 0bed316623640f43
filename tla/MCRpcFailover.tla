---------------------------- MODULE MCRpcFailover ----------------------------
EXTENDS RpcFailover
CONSTANTS t1, t2
=============================================================================
