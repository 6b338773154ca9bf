---------------------------- MODULE MergeReader ----------------------------
(***************************************************************************)
(* journal::reader and hero::drain: one process polls several journals and *)
(* is handed their frames in the order of gen_time.  A writer takes the    *)
(* gen_time of a frame (close_frame's argument) before the frame becomes   *)
(* visible, so a frame may turn up behind one with a later gen_time that   *)
(* the reader was already handed.                                          *)
(***************************************************************************)
EXTENDS Integers, Sequences, FiniteSets

CONSTANTS Journals,     \* the journals the process may join
          None,         \* current_ == nullptr
          MaxFrames,    \* bound: frames of a journal
          MaxTime,      \* bound: clock
          MaxLeaves     \* bound: calls of disjoin

ASSUME NoneAssumption == None \notin Journals
ASSUME MergeAssumption == MaxFrames \in Nat /\ MaxTime \in Nat /\ MaxLeaves \in Nat

VARIABLES
  clock,     \* the host-wide clock
  stamp,     \* gen_time a journal's writer has taken for a frame not yet visible; 0 = none
  frames,    \* gen_times of the visible frames of a journal
  joined,    \* keys of reader::journals_
  begin,     \* history: where a join's seek_to_time put the cursor
  pos,       \* cursor of a joined journal
  current,   \* reader::current_
  leaves,    \* how often disjoin was called
  busy,      \* the journal whose frame the handlers are looking at, None between frames
  got,       \* history: the frames of a journal that were handed over since it was joined
  jumped     \* history: journals between which a disjoin moved current_ under a frame in hand

vars == <<clock, stamp, frames, joined, begin, pos, current, leaves, busy, got, jumped>>

Init ==
  /\ clock = 0
  /\ stamp = [j \in Journals |-> 0]
  /\ frames = [j \in Journals |-> << >>]
  /\ joined = {}
  /\ begin = [j \in Journals |-> 1]
  /\ pos = [j \in Journals |-> 1]
  /\ current = None
  /\ leaves = 0
  /\ busy = None
  /\ got = [j \in Journals |-> << >>]
  /\ jumped = {}

----------------------------------------------------------------------------
(* writers of the journals *)

\* the gen_time argument of close_frame is evaluated
Stamp(j) ==
  /\ stamp[j] = 0 /\ Len(frames[j]) < MaxFrames /\ clock < MaxTime
  /\ clock' = clock + 1
  /\ stamp' = [stamp EXCEPT ![j] = clock + 1]
  /\ UNCHANGED <<frames, joined, begin, pos, current, leaves, busy, got, jumped>>

\* set_data_length
Publish(j) ==
  /\ stamp[j] # 0
  /\ frames' = [frames EXCEPT ![j] = Append(@, stamp[j])]
  /\ stamp' = [stamp EXCEPT ![j] = 0]
  /\ UNCHANGED <<clock, joined, begin, pos, current, leaves, busy, got, jumped>>

----------------------------------------------------------------------------
(* reader *)

has_data(j, ps) == ps[j] <= Len(frames[j])

Waiting(js, ps) == {j \in js : has_data(j, ps)}

\* mutant: a journal once chosen is kept
SortSticky(js, ps, c) ==
  IF c # None \/ Waiting(js, ps) = {} THEN c
  ELSE CHOOSE j \in Waiting(js, ps) :
         \A x \in Waiting(js, ps) : frames[j][ps[j]] <= frames[x][ps[x]]

\* reader::sort on journals js with cursors ps: the frame with the least gen_time;
\* current_ stays what it is when no journal has a frame
Sort(js, ps, c) ==
  IF Waiting(js, ps) = {} THEN c
  ELSE CHOOSE j \in Waiting(js, ps) :
         \A x \in Waiting(js, ps) : frames[j][ps[j]] <= frames[x][ps[x]]

\* hero::drain: data_available() is true and the handlers get current_frame()
Poll ==
  /\ busy = None
  /\ LET c == Sort(joined, pos, current)
     IN  /\ c # None /\ has_data(c, pos)
         /\ current' = c
         /\ busy' = c
         /\ got' = [got EXCEPT ![c] = Append(@, pos[c])]
  /\ UNCHANGED <<clock, stamp, frames, joined, begin, pos, leaves, jumped>>

\* reader::next
Advance ==
  /\ busy # None
  /\ busy' = None
  /\ pos' = IF current = None THEN pos ELSE [pos EXCEPT ![current] = @ + 1]
  /\ current' = Sort(joined, pos', current)
  /\ UNCHANGED <<clock, stamp, frames, joined, begin, leaves, got, jumped>>

\* mutant: join always sorts
SortOnJoin(c) == TRUE

\* "do not sort if current_ is set (because we could be in process of reading)"
SortsOnJoin(c) == c = None

\* reader::join, by a handler or between frames; seek_to_time passes the frames
\* that are not younger than t
Join(j, t) ==
  /\ j \notin joined
  /\ joined' = joined \cup {j}
  /\ \E i \in 1 .. Len(frames[j]) + 1 :
       /\ \A x \in 1 .. Len(frames[j]) : x < i <=> frames[j][x] <= t
       /\ pos' = [pos EXCEPT ![j] = i]
       /\ begin' = [begin EXCEPT ![j] = i]
  /\ current' = IF SortsOnJoin(current) THEN Sort(joined', pos', current) ELSE current
  /\ got' = [got EXCEPT ![j] = << >>]
  /\ jumped' = jumped \ {j}
  /\ UNCHANGED <<clock, stamp, frames, leaves, busy>>

\* mutant: current_ is not reset
ResortOnly(js) == Sort(js, pos, current)

Resort(js) == Sort(js, pos, None)

\* reader::disjoin, disjoin_channel: the cursor is dropped, current_ chosen anew
Disjoin(j) ==
  /\ j \in joined /\ leaves < MaxLeaves
  /\ leaves' = leaves + 1
  /\ joined' = joined \ {j}
  /\ current' = Resort(joined')
  /\ jumped' = IF busy \in {None, current'} THEN jumped ELSE jumped \cup {busy, current'}
  /\ UNCHANGED <<clock, stamp, frames, begin, pos, busy, got>>

\* master::deregister_app is called from on_active or for a notice, when no frame
\* is in hand; apprentice::on_deregister is the handler of a Deregister frame of
\* another journal
MayLeave(j) == busy # j

Leave(j) == MayLeave(j) /\ Disjoin(j)

Next ==
  \/ \E j \in Journals : \/ Stamp(j) \/ Publish(j) \/ Leave(j)
                         \/ \E t \in 0 .. clock : Join(j, t)
  \/ Poll
  \/ Advance

Spec == Init /\ [][Next]_vars

\* the event loop polls and finishes its handlers, and writers finish their frames
Fairness == /\ WF_vars(Poll) /\ WF_vars(Advance)
            /\ \A j \in Journals : WF_vars(Publish(j))

FairSpec == Spec /\ Fairness

----------------------------------------------------------------------------
TypeOK ==
  /\ clock \in Nat
  /\ stamp \in [Journals -> Nat]
  /\ frames \in [Journals -> Seq(Nat)]
  /\ joined \subseteq Journals
  /\ begin \in [Journals -> Nat \ {0}] /\ pos \in [Journals -> Nat \ {0}]
  /\ current \in joined \cup {None}
  /\ leaves \in Nat
  /\ busy \in Journals \cup {None}
  /\ got \in [Journals -> Seq(Nat)]
  /\ jumped \subseteq Journals

\* how many frames of j were handed over, the one in hand included
Handed(j) == pos[j] - begin[j] + (IF busy = j THEN 1 ELSE 0)

\* Every frame of a joined journal is handed over exactly once and in order:
\* reader::next steps over the frame the handlers were given and over no other, while
\* handlers join and leave journals.  Excepted are the two journals between which a
\* disjoin by a handler moved current_: next() then steps over a frame nobody saw.
ExactlyOnce ==
  \A j \in joined \ jumped :
    /\ Len(got[j]) = Handed(j)
    /\ \A i \in 1 .. Len(got[j]) : got[j][i] = begin[j] + i - 1

\* Every visible frame of a joined journal is handed over unless the journal is left
\* or is one of those of ExactlyOnce's exception.
AllDelivered ==
  \A j \in Journals : \A i \in 1 .. MaxFrames :
    (j \in joined /\ begin[j] <= i /\ i <= Len(frames[j]))
      ~> (j \notin joined \/ j \in jumped \/ Len(got[j]) > i - begin[j] \/ i < begin[j])
=============================================================================
