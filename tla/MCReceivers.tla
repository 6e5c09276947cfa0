---------------------------- MODULE MCReceivers ----------------------------
EXTENDS Receivers
=============================================================================
