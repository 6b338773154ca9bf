----------------------------- MODULE MCJournal -----------------------------
(* Small instances of Journal: one unit per header, a page of 6 units holds *)
(* one frame with a unit of data and one without, then PageEnd.             *)
EXTENDS JournalInv

CONSTANT r1
=============================================================================
