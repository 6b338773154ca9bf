----------------------------- MODULE JournalLog -----------------------------
(***************************************************************************)
(* What a journal promises its readers, whatever happens to pages and      *)
(* headers: frames are numbered 1, 2, ... in the order they are published; *)
(* a reader receives published frames only, each one once and in that      *)
(* order with none left out in between, and a reader that joined from the  *)
(* start receives frame 1 first.                                           *)
(***************************************************************************)
EXTENDS Naturals, Sequences

CONSTANT Readers

VARIABLES written,   \* number of frames published
          got,       \* got[r]: the frames delivered to reader r
          whole      \* readers that joined from the start of the journal

Init == /\ written = 0
        /\ got = [r \in Readers |-> << >>]
        /\ whole = {}

\* a reader joins; nothing has been delivered to it yet
Join(r) == /\ r \notin whole /\ got[r] = << >>
           /\ whole' = whole \cup {r}
           /\ UNCHANGED <<written, got>>

Publish == written' = written + 1 /\ UNCHANGED <<got, whole>>

\* the frames that may be delivered to r next
Due(r) == IF got[r] # << >> THEN {got[r][Len(got[r])] + 1}
          ELSE IF r \in whole THEN {1} ELSE Nat \ {0}

Deliver(r) == /\ \E k \in 1 .. written : /\ k \in Due(r)
                                         /\ got' = [got EXCEPT ![r] = Append(@, k)]
              /\ UNCHANGED <<written, whole>>

Next == Publish \/ \E r \in Readers : Join(r) \/ Deliver(r)

vars == <<written, got, whole>>

Spec == Init /\ [][Next]_vars
=============================================================================
