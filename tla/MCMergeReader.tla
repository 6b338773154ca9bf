---------------------------- MODULE MCMergeReader ----------------------------
EXTENDS MergeReader

CONSTANTS j1, j2, j3
==============================================================================
