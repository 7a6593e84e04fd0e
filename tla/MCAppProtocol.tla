---------------------------- MODULE MCAppProtocol ----------------------------
EXTENDS AppProtocol
=============================================================================
