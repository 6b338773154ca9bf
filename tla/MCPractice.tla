----------------------------- MODULE MCPractice -----------------------------
(* Practice with one apprentice beside cached, and one process killed *)
EXTENDS Practice

MCApps == {"ledger"}
=============================================================================
