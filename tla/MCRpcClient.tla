---------------------------- MODULE MCRpcClient -----------------------------
\* The instance of RpcClient that TLC checks; its constants are in RpcClient.cfg.
EXTENDS RpcClient

=============================================================================
