---------------------------- MODULE MCAutoSetup ----------------------------
EXTENDS AutoSetup

CONSTANTS view, send, other
=============================================================================
