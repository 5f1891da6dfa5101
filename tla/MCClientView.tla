---------------------------- MODULE MCClientView ----------------------------
EXTENDS ClientView
=============================================================================
