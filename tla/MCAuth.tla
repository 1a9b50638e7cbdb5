------------------------------- MODULE MCAuth -------------------------------
EXTENDS Auth
=============================================================================
