------------------------------ MODULE MCNetwork ------------------------------
EXTENDS NetworkModeProps
==============================================================================
