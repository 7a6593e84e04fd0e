------------------------------ MODULE MCSeccIso20 ------------------------------
EXTENDS SeccIso20
=============================================================================
