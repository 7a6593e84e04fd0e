---------------------------- MODULE MCHlcService ----------------------------
EXTENDS HlcService
=============================================================================
