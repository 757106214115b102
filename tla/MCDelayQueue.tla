--------------------------- MODULE MCDelayQueue ----------------------------
EXTENDS DelayQueue
=============================================================================
