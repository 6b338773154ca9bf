---------------------------- MODULE MCCtpSession ----------------------------
EXTENDS CtpSession
=============================================================================
