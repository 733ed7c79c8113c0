---------------------------- MODULE MCServeHost ----------------------------
EXTENDS ServeHost
=============================================================================
