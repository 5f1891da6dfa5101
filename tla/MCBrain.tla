------------------------------ MODULE MCBrain ------------------------------
EXTENDS Brain
=============================================================================
