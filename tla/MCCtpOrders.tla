---------------------------- MODULE MCCtpOrders -----------------------------
EXTENDS CtpOrders
=============================================================================
