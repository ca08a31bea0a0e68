----------------------------- MODULE MCRpcReads -----------------------------
EXTENDS RpcReads

MCRequest == {<<k>> : k \in Key} \cup {<<k, l>> : k, l \in Key}

=============================================================================
