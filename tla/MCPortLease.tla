---------------------------- MODULE MCPortLease ----------------------------
EXTENDS PortLease
=============================================================================
