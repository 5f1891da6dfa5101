---------------------------- MODULE MCLogChannel ----------------------------
EXTENDS LogChannel
=============================================================================
