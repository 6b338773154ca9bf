-------------------------- MODULE MCCtpMarketData --------------------------
\* A small instance of CtpMarketData.
EXTENDS CtpMarketData
=============================================================================
