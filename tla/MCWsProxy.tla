------------------------------ MODULE MCWsProxy ------------------------------
EXTENDS WsProxy
=============================================================================
