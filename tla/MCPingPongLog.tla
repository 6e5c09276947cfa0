---------------------------- MODULE MCPingPongLog ----------------------------
EXTENDS PingPongLog
=============================================================================
