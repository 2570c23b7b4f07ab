-------------------------- MODULE MCRemoteReconnect --------------------------
EXTENDS RemoteReconnect
=============================================================================
