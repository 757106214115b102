------------------------------- MODULE MCDram -------------------------------
EXTENDS Dram
=============================================================================
