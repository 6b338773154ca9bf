--------------------------- MODULE JournalProofs ---------------------------
(***************************************************************************)
(* Machine-checked proofs about Journal, for every value of its constants. *)
(***************************************************************************)
EXTENDS JournalInv, TLAPS

TypeInv == TypeOK /\ Ranges

Conts == {"full", "walk", "read", "end_head"}

USE SizeAssumption, ProcAssumption, BoundAssumption

----------------------------------------------------------------------------
(* Types *)

LEMMA TypeInit == Init => TypeInv
  BY DEF Init, TypeInv, TypeOK, Ranges, Procs, Pages, Offsets, Labels, Header, Zero, NoFile,
     Rolling, Loading, Cursored, Ending, Writing, InPage, NextAddress, NoMsg, Data, PageEnd, Junk

\* page::load is entered: only the control state of process q changes.
LEMMA LoadType ==
  ASSUME TypeOK, NEW q \in Procs, NEW p \in Pages, NEW l \in Conts, Load(q, p, l)
  PROVE  /\ pc' \in [Procs -> Labels] /\ want' \in [Procs -> Pages] /\ cont' \in [Procs -> Conts]
         /\ pc'[q] \in {"size", "open"} /\ want'[q] = p /\ cont'[q] = l
         /\ \A x \in Procs \ {q} : pc'[x] = pc[x] /\ want'[x] = want[x] /\ cont'[x] = cont[x]
  BY DEF TypeOK, Load, LoadStep, Goto, Labels, Conts

LEMMA GotoType ==
  ASSUME TypeOK, NEW q \in Procs, NEW l \in Labels, Goto(q, l)
  PROVE  /\ pc' \in [Procs -> Labels] /\ pc'[q] = l
         /\ \A x \in Procs \ {q} : pc'[x] = pc[x]
  BY DEF TypeOK, Goto

\* The header under a cursor, and its parts.
LEMMA HeaderType ==
  ASSUME TypeOK, NEW p \in Pages, NEW o \in Offsets
  PROVE  /\ mem[p][o] \in Header
         /\ mem[p][o].length \in Nat /\ mem[p][o].gen_time \in Nat /\ mem[p][o].id \in Nat
         /\ mem[p][o].msg_type \in {NoMsg, Data, PageEnd, Junk}
         /\ mem[p][o].header_length \in {0, FrameHeader}
  BY DEF TypeOK, Header

LEMMA CursorType ==
  ASSUME TypeOK, NEW q \in Procs
  PROVE  /\ pc[q] \in Labels /\ want[q] \in Pages /\ cont[q] \in Conts
         /\ addr[q] \in Offsets /\ page[q] \in Pages \cup {0} /\ time[q] \in Nat
  BY DEF TypeOK, Conts

LEMMA SetFrameType ==
  ASSUME TypeOK, NEW p \in Pages, NEW o \in Offsets, NEW h \in Header, SetFrame(p, o, h)
  PROVE  /\ mem' \in [Pages -> [Offsets -> Header]]
         /\ mem'[p][o] = h
         /\ \A x \in Pages, y \in Offsets : <<x, y>> # <<p, o>> => mem'[x][y] = mem[x][y]
  BY DEF TypeOK, SetFrame

LEMMA FirstOffset == first_frame_address \in Offsets /\ address_border \in Offsets
  BY DEF first_frame_address, Offsets, address_border

\* A step of process q that writes no frame leaves the ranges alone if q's own
\* new control state respects them.
LEMMA RangesFrame ==
  ASSUME TypeOK, Ranges, NEW q \in Procs,
         \A x \in Procs \ {q} : /\ pc'[x] = pc[x] /\ want'[x] = want[x] /\ cont'[x] = cont[x]
                                /\ page'[x] = page[x] /\ addr'[x] = addr[x],
         UNCHANGED <<dlen, endAt, todo>>,
         pc'[q] \notin Writing \cup Ending \/ (pc'[q] = "idle" /\ q = Writer),
         pc'[q] \in Cursored => page'[q] \in Pages,
         q \in Readers => cont'[q] # "end_head",
         q = Writer => /\ pc'[q] \notin {"read", "next"} /\ cont'[q] # "read"
                       /\ pc'[q] \in Loading /\ cont'[q] = "end_head" =>
                            page'[q] \in Pages /\ want'[q] = page'[q] + 1
  PROVE Ranges'
  <1> USE DEF Writing, Ending, Loading
  <1>1. (\A x \in Procs : pc[x] \in Cursored => page[x] \in Pages)'
    BY DEF Ranges, Cursored
  <1>2. (\A r \in Readers : pc[r] \notin Writing \cup Ending /\ cont[r] # "end_head")'
    BY DEF Ranges, Procs
  <1>3. CASE q = Writer
    BY <1>1, <1>2, <1>3 DEF Ranges, Rolling
  <1>4. CASE q # Writer
    <2>1. /\ pc'[Writer] = pc[Writer] /\ cont'[Writer] = cont[Writer]
          /\ want'[Writer] = want[Writer]
          /\ page'[Writer] = page[Writer] /\ addr'[Writer] = addr[Writer]
      BY <1>4 DEF Procs
    <2> QED BY <1>1, <1>2, <2>1 DEF Ranges, Rolling, NextAddress, InPage
  <1> QED BY <1>3, <1>4

\* The effect of a step that only moves the control state of process q.
Moves(q) ==
  /\ pc' \in [Procs -> Labels] /\ want' \in [Procs -> Pages] /\ cont' \in [Procs -> Conts]
  /\ \A x \in Procs \ {q} : pc'[x] = pc[x] /\ want'[x] = want[x] /\ cont'[x] = cont[x]

\* The control states in which ScanOn, ScanTime and journal::next leave process q.
LEMMA LoadMoves ==
  ASSUME TypeOK, NEW q \in Procs, NEW p \in Pages, NEW l \in Conts, Load(q, p, l)
  PROVE  Moves(q) /\ pc'[q] \in {"size", "open"} /\ want'[q] = p /\ cont'[q] = l
  BY LoadType DEF Moves

LEMMA GotoMoves ==
  ASSUME TypeOK, NEW q \in Procs, NEW l \in Labels, Goto(q, l), UNCHANGED <<want, cont>>
  PROVE  Moves(q) /\ pc'[q] = l /\ want'[q] = want[q] /\ cont'[q] = cont[q]
  BY GotoType DEF Moves, TypeOK, Conts

LEMMA ScanOnMoves ==
  ASSUME TypeOK, NEW q \in Procs, ScanOn(q)
  PROVE  /\ Moves(q)
         /\ \/ want[q] > 1 /\ pc'[q] = "scan_size" /\ want'[q] = want[q] - 1 /\ cont'[q] = cont[q]
            \/ want[q] = 1 /\ pc'[q] \in {"size", "open"} /\ want'[q] = 1 /\ cont'[q] = "full"
  <1>1. CASE want[q] > 1
    <2>1. "scan_size" \in Labels BY DEF Labels
    <2>2. Goto(q, "scan_size") /\ UNCHANGED cont /\ want' = [want EXCEPT ![q] = @ - 1]
      BY <1>1 DEF ScanOn
    <2>3. want[q] - 1 \in Pages BY <1>1, CursorType DEF Pages
    <2> QED BY <1>1, <2>1, <2>2, <2>3, GotoType DEF Moves, TypeOK, Conts
  <1>2. CASE ~(want[q] > 1)
    <2>1. Load(q, 1, "full") BY <1>2 DEF ScanOn
    <2>2. 1 \in Pages /\ "full" \in Conts BY DEF Pages, Conts
    <2>3. want[q] = 1 BY <1>2, CursorType DEF Pages
    <2> QED BY <2>1, <2>2, <2>3, LoadMoves
  <1> QED BY <1>1, <1>2

\* journal::next: to the next page, to the next frame, or outside the mapping
LEMMA NextMoves ==
  ASSUME TypeInv, NEW q \in Procs, NEW l \in Conts \cap Labels, page[q] \in Pages, Next_(q, l)
  PROVE  /\ Moves(q)
         /\ addr' \in [Procs -> Offsets]
         /\ \A x \in Procs \ {q} : addr'[x] = addr[x]
         /\ \/ /\ Frame(q).msg_type = PageEnd
               /\ page[q] + 1 \in Pages
               /\ pc'[q] \in {"size", "open"} /\ want'[q] = page[q] + 1 /\ cont'[q] = l
               /\ addr' = addr
            \/ /\ Frame(q).msg_type # PageEnd
               /\ InPage(addr[q] + Frame(q).length)
               /\ pc'[q] = l /\ want' = want /\ cont' = cont
               /\ addr' = [addr EXCEPT ![q] = addr[q] + Frame(q).length]
            \/ /\ Frame(q).msg_type # PageEnd
               /\ ~InPage(addr[q] + Frame(q).length)
               /\ pc'[q] = "overrun" /\ want' = want /\ cont' = cont /\ addr' = addr
  <1> USE DEF TypeInv
  <1>1. addr \in [Procs -> Offsets] BY DEF TypeOK
  <1>2. CASE Frame(q).msg_type = PageEnd
    <2>1. Load(q, page[q] + 1, l) /\ page[q] < MaxPage /\ UNCHANGED addr BY <1>2 DEF Next_
    <2>2. page[q] + 1 \in Pages BY <2>1 DEF Pages
    <2> QED BY <1>1, <1>2, <2>1, <2>2, LoadMoves
  <1>3. CASE Frame(q).msg_type # PageEnd /\ InPage(addr[q] + Frame(q).length)
    <2>1. /\ Goto(q, l) /\ addr' = [addr EXCEPT ![q] = addr[q] + Frame(q).length]
          /\ UNCHANGED <<want, cont>>
      BY <1>3 DEF Next_
    <2>2. addr[q] + Frame(q).length \in Offsets
      BY <1>3, CursorType, HeaderType DEF Frame, InPage, Offsets
    <2> QED BY <1>1, <1>3, <2>1, <2>2, GotoMoves
  <1>4. CASE Frame(q).msg_type # PageEnd /\ ~InPage(addr[q] + Frame(q).length)
    <2>1. Goto(q, "overrun") /\ UNCHANGED <<want, cont, addr>>
      BY <1>4 DEF Next_
    <2>2. "overrun" \in Labels BY DEF Labels
    <2> QED BY <1>1, <1>4, <2>1, <2>2, GotoMoves
  <1> QED BY <1>2, <1>3, <1>4

\* A step that moves control and possibly the cursor of q inside its page.
LEMMA TypeMoves ==
  ASSUME TypeInv, NEW q \in Procs, Moves(q),
         UNCHANGED <<shared, page, time, local, now, crashes, ghost>>,
         addr' \in [Procs -> Offsets], \A x \in Procs \ {q} : addr'[x] = addr[x],
         pc'[q] \notin Writing \cup Ending \/ (pc'[q] = "idle" /\ q = Writer),
         pc'[q] \in Cursored => page[q] \in Pages,
         q \in Readers => cont'[q] # "end_head",
         q = Writer => /\ pc'[q] \notin {"read", "next"} /\ cont'[q] # "read"
                       /\ pc'[q] \in Loading => cont'[q] # "end_head"
  PROVE TypeInv'
  <1> USE DEF TypeInv, Moves
  <1>1. TypeOK' BY DEF TypeOK, shared, local, ghost, Conts
  <1>2. Ranges' BY <1>1, RangesFrame DEF local
  <1> QED BY <1>1, <1>2

\* Facts about q that every step below needs.
LEMMA SeekFacts ==
  ASSUME TypeInv, NEW q \in Procs
  PROVE  /\ TypeOK /\ addr \in [Procs -> Offsets]
         /\ q \in Readers => cont[q] # "end_head"
         /\ q = Writer => pc[q] \notin {"read", "next"} /\ cont[q] # "read"
         /\ q = Writer \/ q \in Readers
         /\ Writer \notin Readers
  BY DEF TypeInv, TypeOK, Ranges, Procs

LEMMA TypeListPages == ASSUME TypeInv, NEW q \in Procs, ListPages(q) PROVE TypeInv'
  <1> USE SeekFacts DEF Writing, Ending, Cursored, Loading
  <1>1. CASE PageFiles = {} \/ time[q] = 0
    <2>1. Load(q, 1, "full") BY <1>1 DEF ListPages
    <2>2. 1 \in Pages /\ "full" \in Conts BY DEF Pages, Conts
    <2>3. Moves(q) /\ pc'[q] \in {"size", "open"} /\ cont'[q] = "full" BY <2>1, <2>2, LoadMoves
    <2> QED BY <2>3, TypeMoves DEF ListPages
  <1>2. CASE ~(PageFiles = {} \/ time[q] = 0)
    <2>1. PICK p \in PageFiles : want' = [want EXCEPT ![q] = p]
      BY <1>2 DEF ListPages
    <2>2. p \in Pages BY DEF PageFiles
    <2>3. Goto(q, "scan_size") /\ UNCHANGED cont BY <1>2 DEF ListPages
    <2>4. "scan_size" \in Labels BY DEF Labels
    <2>5. Moves(q) /\ pc'[q] = "scan_size" /\ cont'[q] = cont[q]
      BY <2>1, <2>2, <2>3, <2>4, GotoType DEF Moves, TypeOK, Conts
    <2> QED BY <2>5, TypeMoves DEF ListPages
  <1> QED BY <1>1, <1>2

LEMMA TypeScanOn ==
  ASSUME TypeInv, NEW q \in Procs, ScanOn(q),
         UNCHANGED <<shared, page, addr, time, local, now, crashes, ghost>>
  PROVE  TypeInv'
  <1> USE SeekFacts DEF Writing, Ending, Cursored, Loading
  <1> QED BY ScanOnMoves, TypeMoves

LEMMA TypeScanSize == ASSUME TypeInv, NEW q \in Procs, ScanSize(q) PROVE TypeInv'
  <1> USE SeekFacts DEF Writing, Ending, Cursored, Loading
  <1>1. CASE fsize[want[q]] < PageHeader
    BY <1>1, TypeScanOn DEF ScanSize
  <1>2. CASE ~(fsize[want[q]] < PageHeader)
    <2>1. "scan_time" \in Labels BY DEF Labels
    <2>2. Moves(q) /\ pc'[q] = "scan_time" /\ cont'[q] = cont[q]
      BY <1>2, <2>1, GotoMoves DEF ScanSize
    <2> QED BY <2>2, TypeMoves DEF ScanSize
  <1> QED BY <1>1, <1>2

LEMMA TypeScanTime == ASSUME TypeInv, NEW q \in Procs, ScanTime(q) PROVE TypeInv'
  <1> USE SeekFacts DEF Writing, Ending, Cursored, Loading
  <1>1. CASE lfp[want[q]] = 0
    <2>1. "segv" \in Labels BY DEF Labels
    <2>2. Moves(q) /\ pc'[q] = "segv" /\ cont'[q] = cont[q]
      BY <1>1, <2>1, GotoMoves DEF ScanTime
    <2> QED BY <2>2, TypeMoves DEF ScanTime
  <1>2. CASE lfp[want[q]] # 0 /\ begin_time(want[q]) < time[q]
    <2>1. Load(q, want[q], "full") BY <1>2 DEF ScanTime
    <2>2. want[q] \in Pages /\ "full" \in Conts BY CursorType DEF Conts
    <2>3. Moves(q) /\ pc'[q] \in {"size", "open"} /\ cont'[q] = "full" BY <2>1, <2>2, LoadMoves
    <2> QED BY <2>3, TypeMoves DEF ScanTime
  <1>3. CASE lfp[want[q]] # 0 /\ ~(begin_time(want[q]) < time[q])
    BY <1>3, TypeScanOn DEF ScanTime
  <1> QED BY <1>1, <1>2, <1>3

LEMMA TypeSeekPage == ASSUME TypeInv, NEW q \in Procs, SeekPage(q) PROVE TypeInv'
  <1> USE SeekFacts DEF Writing, Ending, Cursored, Loading
  <1>0. page[q] \in Pages BY DEF SeekPage, TypeInv, Ranges
  <1>1. CASE is_full(page[q]) /\ end_time(page[q]) <= time[q]
    <2>1. Load(q, page[q] + 1, "full") /\ page[q] < MaxPage BY <1>1 DEF SeekPage
    <2>2. page[q] + 1 \in Pages /\ "full" \in Conts BY <1>0, <2>1 DEF Conts, Pages
    <2>3. Moves(q) /\ pc'[q] \in {"size", "open"} /\ cont'[q] = "full" BY <2>1, <2>2, LoadMoves
    <2> QED BY <2>3, TypeMoves DEF SeekPage
  <1>2. CASE ~(is_full(page[q]) /\ end_time(page[q]) <= time[q])
    <2>1. "walk" \in Labels BY DEF Labels
    <2>2. Moves(q) /\ pc'[q] = "walk" /\ cont'[q] = cont[q]
      BY <1>2, <2>1, GotoMoves DEF SeekPage
    <2> QED BY <1>0, <2>2, TypeMoves DEF SeekPage
  <1> QED BY <1>1, <1>2

LEMMA TypeSeekFrame == ASSUME TypeInv, NEW q \in Procs, SeekFrame(q) PROVE TypeInv'
  <1> USE SeekFacts DEF Writing, Ending, Cursored, Loading
  <1>0. page[q] \in Pages BY DEF SeekFrame, Passes, TypeInv, Ranges
  <1>1. CASE has_data(Frame(q)) /\ Frame(q).gen_time <= time[q]
    <2>1. Next_(q, "walk") BY <1>1 DEF SeekFrame, Passes
    <2>2. "walk" \in Conts \cap Labels BY DEF Conts, Labels
    <2> QED BY <1>0, <2>1, <2>2, NextMoves, TypeMoves DEF SeekFrame, Passes
  <1>2. CASE ~(has_data(Frame(q)) /\ Frame(q).gen_time <= time[q])
    <2>1. "idle" \in Labels /\ "read" \in Labels BY DEF Labels
    <2>2. Moves(q) /\ pc'[q] = (IF q = Writer THEN "idle" ELSE "read") /\ cont'[q] = cont[q]
      BY <1>2, <2>1, GotoMoves DEF SeekFrame, Passes
    <2>3. UNCHANGED addr BY <1>2 DEF SeekFrame, Passes
    <2> QED BY <1>0, <2>2, <2>3, TypeMoves DEF SeekFrame, Passes
  <1> QED BY <1>1, <1>2

LEMMA TypeAdvance == ASSUME TypeInv, NEW r \in Readers, Advance(r) PROVE TypeInv'
  <1> USE SeekFacts DEF Writing, Ending, Cursored, Loading, Procs
  <1>0. page[r] \in Pages BY DEF Advance, TypeInv, Ranges
  <1>2. "read" \in Conts \cap Labels BY DEF Conts, Labels
  <1> QED BY <1>0, <1>2, NextMoves, TypeMoves DEF Advance

LEMMA TypeLoadSize == ASSUME TypeInv, NEW q \in Procs, LoadSize(q) PROVE TypeInv'
  <1> USE SeekFacts DEF Writing, Ending, Cursored, Loading
  <1>1. "failed" \in Labels /\ "check" \in Labels BY DEF Labels
  <1>2. Moves(q) /\ pc'[q] \in {"failed", "check"} /\ UNCHANGED <<page, addr, want, cont>>
    BY <1>1, GotoMoves DEF LoadSize
  <1>3. TypeOK' BY <1>2 DEF LoadSize, TypeInv, TypeOK, Moves, shared, local, ghost, Conts
  <1>4. q = Writer /\ pc'[q] \in Loading /\ cont'[q] = "end_head" =>
          page'[q] \in Pages /\ want'[q] = page'[q] + 1
    BY <1>2 DEF LoadSize, TypeInv, Ranges, Rolling
  <1>5. Ranges' BY <1>2, <1>4, RangesFrame DEF LoadSize, local, Moves, TypeInv
  <1> QED BY <1>3, <1>5 DEF TypeInv

\* LoadOpen and LoadStretch touch the page's file only.
LEMMA TypeFile ==
  ASSUME TypeInv, NEW q \in Procs, NEW l \in {"stretch", "check"}, pc[q] \in Loading, Goto(q, l),
         fsize' \in [Pages -> {NoFile, 0, PageSize}],
         UNCHANGED <<lfp, mem, page, addr, want, cont, time, local, now, crashes, ghost>>
  PROVE  TypeInv'
  <1> USE SeekFacts DEF Writing, Ending, Cursored, Loading
  <1>1. l \in Labels BY DEF Labels
  <1>2. Moves(q) /\ pc'[q] = l BY <1>1, GotoMoves
  <1>3. TypeOK' BY <1>2 DEF TypeInv, TypeOK, Moves, local, ghost, Conts
  <1>4. q = Writer /\ pc'[q] \in Loading /\ cont'[q] = "end_head" =>
          page'[q] \in Pages /\ want'[q] = page'[q] + 1
    BY <1>2 DEF TypeInv, Ranges, Rolling
  <1>5. Ranges' BY <1>2, <1>4, RangesFrame DEF local, Moves, TypeInv
  <1> QED BY <1>3, <1>5 DEF TypeInv

LEMMA TypeLoadOpen == ASSUME TypeInv, NEW q \in Procs, LoadOpen(q) PROVE TypeInv'
  <1>1. fsize' \in [Pages -> {NoFile, 0, PageSize}] BY DEF LoadOpen, TypeInv, TypeOK
  <1> QED BY <1>1, TypeFile DEF LoadOpen, Loading

LEMMA TypeLoadStretch == ASSUME TypeInv, NEW q \in Procs, LoadStretch(q) PROVE TypeInv'
  <1>1. fsize' \in [Pages -> {NoFile, 0, PageSize}] BY DEF LoadStretch, TypeInv, TypeOK
  <1> QED BY <1>1, TypeFile DEF LoadStretch, Loading

\* journal::load_page: the cursor goes to the first frame of the page loaded.
LEMMA TypeLoaded ==
  ASSUME TypeInv, NEW q \in Procs, pc[q] \in Loading, Loaded(q),
         lfp' \in [Pages -> Offsets], num' \in [Pages -> [Offsets -> Nat]],
         UNCHANGED <<fsize, mem, want, cont, time, local, now, crashes, written, got>>
  PROVE  TypeInv'
  <1> USE SeekFacts DEF Loading
  <1>1. cont[q] \in Labels /\ cont[q] \in Conts /\ want[q] \in Pages
    BY CursorType DEF Labels, Conts
  <1>2. Moves(q) /\ pc'[q] = cont[q] BY <1>1, GotoMoves DEF Loaded
  <1>3. page'[q] = want[q] /\ addr'[q] = first_frame_address
    BY <1>1 DEF Loaded, TypeInv, TypeOK
  <1>4. TypeOK' BY <1>1, <1>2, FirstOffset DEF Loaded, TypeInv, TypeOK, Moves, local, Conts
  <1>5. \A x \in Procs \ {q} : page'[x] = page[x] /\ addr'[x] = addr[x]
    BY DEF Loaded, TypeInv, TypeOK
  <1>6. CASE cont[q] # "end_head"
    BY <1>1, <1>2, <1>3, <1>4, <1>5, <1>6, RangesFrame
       DEF local, Moves, TypeInv, Writing, Ending, Conts
  <1>7. CASE cont[q] = "end_head"
    <2>1. q = Writer /\ pc'[q] = "end_head" /\ page'[q] > 1
      <3>1. q = Writer BY <1>7
      <3>2. Rolling BY <1>7, <3>1 DEF Rolling
      <3>3. page[q] \in Pages /\ want[q] = page[q] + 1 BY <3>1, <3>2 DEF TypeInv, Ranges
      <3> QED BY <1>2, <1>3, <1>7, <3>1, <3>3 DEF Pages
    <2>2. page'[q] \in Pages BY <1>1, <1>3
    <2>3. ~Rolling' BY <2>1 DEF Rolling
    <2>4. (\A x \in Procs : pc[x] \in Cursored => page[x] \in Pages)'
      BY <1>2, <1>5, <2>2 DEF TypeInv, Ranges, Moves
    <2>5. (\A r \in Readers : pc[r] \notin Writing \cup Ending /\ cont[r] # "end_head")'
      BY <1>2, <2>1 DEF TypeInv, Ranges, Moves, Procs
    <2> QED BY <1>4, <2>1, <2>3, <2>4, <2>5 DEF TypeInv, Ranges
  <1> QED BY <1>6, <1>7

LEMMA TypeLoadCheck == ASSUME TypeInv, NEW q \in Procs, LoadCheck(q) PROVE TypeInv'
  <1>1. CASE lfp[want[q]] # 0
    BY <1>1, TypeLoaded DEF LoadCheck, TypeInv, TypeOK, shared, ghost, Loading
  <1>2. CASE lfp[want[q]] = 0
    <2> USE SeekFacts DEF Writing, Ending, Cursored, Loading
    <2>1. "init" \in Labels /\ "segv" \in Labels BY DEF Labels
    <2>2. Moves(q) /\ pc'[q] \in {"init", "segv"} /\ UNCHANGED <<page, addr, want, cont>>
      BY <1>2, <2>1, GotoMoves DEF LoadCheck
    <2>3. TypeOK' BY <2>2 DEF LoadCheck, TypeInv, TypeOK, Moves, shared, local, ghost, Conts
    <2>4. q = Writer /\ pc'[q] \in Loading /\ cont'[q] = "end_head" =>
            page'[q] \in Pages /\ want'[q] = page'[q] + 1
      BY <2>2 DEF LoadCheck, TypeInv, Ranges, Rolling
    <2>5. Ranges' BY <2>2, <2>4, RangesFrame DEF LoadCheck, local, Moves, TypeInv
    <2> QED BY <2>3, <2>5 DEF TypeInv
  <1> QED BY <1>1, <1>2

LEMMA TypeLoadInit == ASSUME TypeInv, NEW q \in Procs, LoadInit(q) PROVE TypeInv'
  <1>1. want[q] \in Pages /\ first_frame_address \in Offsets BY CursorType, FirstOffset DEF TypeInv
  <1>2. lfp' \in [Pages -> Offsets] BY <1>1 DEF LoadInit, TypeInv, TypeOK
  <1>3. num' \in [Pages -> [Offsets -> Nat]] BY <1>1 DEF LoadInit, TypeInv, TypeOK
  <1> QED BY <1>2, <1>3, TypeLoaded DEF LoadInit, Loading

LEMMA TypeJoin ==
  ASSUME TypeInv, NEW r \in Readers, NEW t \in 0 .. now, Join(r, t) PROVE TypeInv'
  <1> USE SeekFacts DEF Writing, Ending, Cursored, Loading, Procs
  <1>1. "list" \in Labels BY DEF Labels
  <1>2. Moves(r) /\ pc'[r] = "list" /\ UNCHANGED <<page, addr, want, cont>>
    BY <1>1, GotoMoves DEF Join
  <1>3. time' \in [Procs -> Nat] BY DEF Join, TypeInv, TypeOK
  <1>4. TypeOK' BY <1>2, <1>3 DEF Join, TypeInv, TypeOK, Moves, shared, local, ghost, Conts
  <1>5. Ranges' BY <1>2, RangesFrame DEF Join, local, Moves, TypeInv
  <1> QED BY <1>4, <1>5 DEF TypeInv

LEMMA TypeDeliver == ASSUME TypeInv, NEW r \in Readers, Deliver(r) PROVE TypeInv'
  <1> USE SeekFacts DEF Writing, Ending, Cursored, Loading, Procs
  <1>1. "next" \in Labels BY DEF Labels
  <1>2. Moves(r) /\ pc'[r] = "next" /\ UNCHANGED <<page, addr, want, cont>>
    BY <1>1, GotoMoves DEF Deliver
  <1>3. page[r] \in Pages BY DEF Deliver, TypeInv, Ranges
  <1>4. Frame(r).id \in Nat BY <1>3, CursorType, HeaderType DEF Frame
  <1>5. got' \in [Readers -> Seq(Nat)] BY <1>4, SMTT(30) DEF Deliver, TypeInv, TypeOK
  <1>6. TypeOK' BY <1>2, <1>5 DEF Deliver, TypeInv, TypeOK, Moves, shared, local, Conts
  <1>7. Ranges' BY <1>2, <1>3, RangesFrame DEF Deliver, local, Moves, TypeInv
  <1> QED BY <1>6, <1>7 DEF TypeInv

LEMMA WriterProc == Writer \in Procs
  BY DEF Procs

LEMMA TypeStart ==
  ASSUME TypeInv, NEW s \in 0 .. MaxSkew, s < now, Start(s) PROVE TypeInv'
  <1> USE SeekFacts, WriterProc DEF Writing, Ending, Cursored, Loading
  <1>1. "list" \in Labels BY DEF Labels
  <1>2. Moves(Writer) /\ pc'[Writer] = "list" /\ UNCHANGED <<page, addr, want, cont>>
    BY <1>1, GotoMoves DEF Start, SeekTime
  <1>3. now \in Nat /\ now - s \in Nat BY DEF TypeInv, TypeOK
  <1>4. time' \in [Procs -> Nat] BY <1>3 DEF Start, SeekTime, TypeInv, TypeOK
  <1>5. TypeOK' BY <1>2, <1>3, <1>4 DEF Start, SeekTime, TypeInv, TypeOK, Moves, shared, ghost, Conts
  <1>6. Ranges' BY <1>2, RangesFrame DEF Start, SeekTime, Moves, TypeInv
  <1> QED BY <1>5, <1>6 DEF TypeInv

LEMMA TypeOpenFrame ==
  ASSUME TypeInv, NEW d \in DataLengths, OpenFrame(d) PROVE TypeInv'
  <1> USE SeekFacts, WriterProc DEF Writing, Ending, Loading
  <1>0. page[Writer] \in Pages BY DEF OpenFrame, TypeInv, Ranges, Cursored
  <1>1. CASE MustRoll(d)
    <2>1. Load(Writer, page[Writer] + 1, "end_head") /\ page[Writer] < MaxPage
      BY <1>1 DEF OpenFrame
    <2>2. page[Writer] + 1 \in Pages /\ "end_head" \in Conts BY <1>0, <2>1 DEF Pages, Conts
    <2>3. /\ Moves(Writer) /\ pc'[Writer] \in {"size", "open"}
          /\ want'[Writer] = page[Writer] + 1 /\ cont'[Writer] = "end_head"
      BY <2>1, <2>2, LoadMoves
    <2>4. TypeOK' BY <2>3 DEF OpenFrame, TypeInv, TypeOK, Moves, shared, ghost, Conts
    <2>5. (\A x \in Procs : pc[x] \in Cursored => page[x] \in Pages)'
      BY <1>0, <2>3 DEF OpenFrame, TypeInv, Ranges, Moves
    <2>6. (\A r \in Readers : pc[r] \notin Writing \cup Ending /\ cont[r] # "end_head")'
      BY <2>3 DEF TypeInv, Ranges, Moves, Procs
    <2>7. UNCHANGED <<page, addr>> BY DEF OpenFrame
    <2> QED BY <1>0, <2>3, <2>4, <2>5, <2>6, <2>7 DEF TypeInv, Ranges, Rolling
  <1>2. CASE ~MustRoll(d)
    <2>1. "head" \in Labels BY DEF Labels
    <2>2. Moves(Writer) /\ pc'[Writer] = "head" /\ UNCHANGED <<page, addr, want, cont>>
      BY <1>2, <2>1, GotoMoves DEF OpenFrame
    <2>3. TypeOK' BY <2>2 DEF OpenFrame, TypeInv, TypeOK, Moves, shared, ghost, Conts
    <2>4. (\A x \in Procs : pc[x] \in Cursored => page[x] \in Pages)'
      BY <1>0, <2>2 DEF TypeInv, Ranges, Moves
    <2>5. (\A r \in Readers : pc[r] \notin Writing \cup Ending /\ cont[r] # "end_head")'
      BY <2>2 DEF TypeInv, Ranges, Moves, Procs
    <2> QED BY <2>2, <2>3, <2>4, <2>5 DEF TypeInv, Ranges, Rolling
  <1> QED BY <1>1, <1>2

\* A step of the writer that goes to step l and keeps its page.
LEMMA WriterRanges ==
  ASSUME TypeInv, NEW l \in Writing \cup Ending \cup {"overrun", "down"}, Goto(Writer, l),
         UNCHANGED <<page, want, cont>>, pc[Writer] \in Cursored \/ l = "down",
         l \in Ending => page[Writer] > 1,
         l \in Ending \ {"end_head"} => InPage(endAt'),
         (l = "store" /\ "next" \notin todo') => InPage(NextAddress')
  PROVE  Ranges'
  <1> USE WriterProc DEF Writing, Ending
  <1>1. l \in Labels BY DEF Labels
  <1>2. Moves(Writer) /\ pc'[Writer] = l BY <1>1, GotoMoves DEF TypeInv
  <1>3. (\A x \in Procs : pc[x] \in Cursored => page[x] \in Pages)'
    BY <1>2 DEF TypeInv, Ranges, Moves, Cursored
  <1>4. (\A r \in Readers : pc[r] \notin Writing \cup Ending /\ cont[r] # "end_head")'
    BY <1>2 DEF TypeInv, Ranges, Moves, Procs
  <1>5. ~Rolling' BY <1>2 DEF Rolling, Loading
  <1> QED BY <1>2, <1>3, <1>4, <1>5 DEF TypeInv, Ranges

LEMMA WriterGoto ==
  ASSUME TypeInv, NEW l \in Writing \cup Ending \cup {"overrun", "down"}, Goto(Writer, l)
  PROVE  pc' \in [Procs -> Labels]
  <1>1. l \in Labels BY DEF Labels, Writing, Ending
  <1> QED BY <1>1, WriterProc, GotoType DEF TypeInv

\* Where the writer is while it writes.
LEMMA WriterAt ==
  ASSUME TypeInv, pc[Writer] \in Writing \cup Ending
  PROVE  /\ page[Writer] \in Pages /\ addr[Writer] \in Offsets
         /\ pc[Writer] \in Ending => LastPage \in Pages
         /\ Frame(Writer) \in Header
         /\ dlen \in Nat /\ written \in Nat /\ now - skew \in Nat /\ endAt \in Nat
         /\ pc[Writer] \in Cursored
  <1>1. pc[Writer] \in Cursored BY DEF Cursored
  <1>2. page[Writer] \in Pages /\ addr[Writer] \in Offsets
    BY <1>1, WriterProc DEF TypeInv, Ranges, TypeOK
  <1>3. pc[Writer] \in Ending => LastPage \in Pages
    BY <1>2 DEF TypeInv, Ranges, LastPage, Pages
  <1>4. Frame(Writer) \in Header BY <1>2, HeaderType DEF TypeInv, Frame
  <1>5. dlen \in Nat /\ written \in Nat /\ now - skew \in Nat /\ endAt \in Nat
    BY DEF TypeInv, TypeOK
  <1> QED BY <1>1, <1>2, <1>3, <1>4, <1>5

LEMMA OffsetInPage == ASSUME NEW o \in Nat, InPage(o) PROVE o \in Offsets
  BY DEF InPage, Offsets

LEMMA TypeEndHead == ASSUME TypeInv, EndHead PROVE TypeInv'
  <1> USE WriterAt, WriterProc DEF Writing, Ending
  <1>1. pc[Writer] = "end_head" /\ LastPage \in Pages BY DEF EndHead, EndAddress
  <1>2. lfp[LastPage] \in Offsets BY <1>1 DEF TypeInv, TypeOK
  <1>3. endAt' \in Nat
    BY <1>1, <1>2, HeaderType DEF EndHead, EndAddress, TypeInv, Offsets
  <1>4. CASE InPage(endAt')
    <2>1. endAt' \in Offsets BY <1>3, <1>4, OffsetInPage
    <2>2. mem' \in [Pages -> [Offsets -> Header]]
      <3>1. [mem[LastPage][endAt'] EXCEPT !.header_length = FrameHeader, !.msg_type = PageEnd]
              \in Header
        BY <1>1, <2>1, HeaderType DEF TypeInv, Header, PageEnd
      <3> QED BY <1>1, <1>4, <2>1, <3>1, SetFrameType DEF EndHead, EndAddress, TypeInv
    <2>3. Goto(Writer, "end_time") BY <1>4 DEF EndHead, EndAddress
    <2>4. pc' \in [Procs -> Labels] BY <2>3, WriterGoto
    <2>5. TypeOK' BY <1>3, <2>2, <2>4 DEF EndHead, EndAddress, TypeInv, TypeOK, ghost
    <2>6. page[Writer] > 1 BY <1>1 DEF TypeInv, Ranges
    <2>7. Ranges' BY <1>1, <1>4, <2>3, <2>6, WriterRanges DEF EndHead, EndAddress
    <2> QED BY <2>5, <2>7 DEF TypeInv
  <1>5. CASE ~InPage(endAt')
    <2>1. Goto(Writer, "overrun") /\ UNCHANGED mem BY <1>5 DEF EndHead, EndAddress
    <2>2. pc' \in [Procs -> Labels] BY <2>1, WriterGoto
    <2>3. TypeOK' BY <1>3, <2>1, <2>2 DEF EndHead, EndAddress, TypeInv, TypeOK, ghost
    <2>4. Ranges' BY <1>1, <2>1, WriterRanges DEF EndHead, EndAddress
    <2> QED BY <2>3, <2>4 DEF TypeInv
  <1> QED BY <1>4, <1>5

\* The remaining stores of close_page go to the address EndHead has tested.
LEMMA TypeEndStore ==
  ASSUME TypeInv, pc[Writer] \in Ending \ {"end_head"},
         NEW l \in {"end_length", "end_pos", "head"}, Goto(Writer, l),
         mem' \in [Pages -> [Offsets -> Header]], lfp' \in [Pages -> Offsets],
         UNCHANGED <<fsize, page, addr, want, cont, time, local, now, crashes, ghost>>
  PROVE  TypeInv'
  <1> USE WriterAt, WriterProc DEF Writing, Ending
  <1>1. page[Writer] > 1 /\ InPage(endAt) BY DEF TypeInv, Ranges
  <1>2. pc' \in [Procs -> Labels] BY WriterGoto
  <1>3. TypeOK' BY <1>2 DEF TypeInv, TypeOK, local, ghost
  <1>4. InPage(endAt') BY <1>1 DEF local, InPage
  <1>5. Ranges' BY <1>1, <1>4, WriterRanges
  <1> QED BY <1>3, <1>5 DEF TypeInv

LEMMA EndAtOffset ==
  ASSUME TypeInv, pc[Writer] \in Ending \ {"end_head"} PROVE endAt \in Offsets /\ LastPage \in Pages
  <1>1. InPage(endAt) BY DEF TypeInv, Ranges, Ending
  <1> QED BY <1>1, OffsetInPage, WriterAt DEF Ending

LEMMA TypeEndTime == ASSUME TypeInv, EndTime PROVE TypeInv'
  <1> USE DEF Ending
  <1>1. endAt \in Offsets /\ LastPage \in Pages /\ WriterNow \in Nat
    BY EndAtOffset, WriterAt DEF EndTime, WriterNow
  <1>2. mem' \in [Pages -> [Offsets -> Header]]
    <2>1. [mem[LastPage][endAt] EXCEPT !.gen_time = WriterNow] \in Header
      BY <1>1, HeaderType DEF TypeInv, Header
    <2> QED BY <1>1, <2>1, SetFrameType DEF EndTime, TypeInv
  <1>3. lfp' \in [Pages -> Offsets] BY DEF EndTime, TypeInv, TypeOK
  <1> QED BY <1>2, <1>3, TypeEndStore DEF EndTime

LEMMA TypeEndLength == ASSUME TypeInv, EndLength PROVE TypeInv'
  <1> USE DEF Ending
  <1>1. endAt \in Offsets /\ LastPage \in Pages BY EndAtOffset DEF EndLength, EndFrameLength
  <1>2. mem' \in [Pages -> [Offsets -> Header]]
    <2>1. [mem[LastPage][endAt] EXCEPT !.length = FrameHeader] \in Header
      BY <1>1, HeaderType DEF TypeInv, Header
    <2> QED BY <1>1, <2>1, SetFrameType DEF EndLength, EndFrameLength, TypeInv
  <1>3. lfp' \in [Pages -> Offsets] BY DEF EndLength, EndFrameLength, TypeInv, TypeOK
  <1> QED BY <1>2, <1>3, TypeEndStore DEF EndLength, EndFrameLength

LEMMA TypeEndPosition == ASSUME TypeInv, EndPosition PROVE TypeInv'
  <1> USE DEF Ending
  <1>1. endAt \in Offsets /\ LastPage \in Pages BY EndAtOffset DEF EndPosition
  <1>2. mem' \in [Pages -> [Offsets -> Header]] BY DEF EndPosition, TypeInv, TypeOK
  <1>3. lfp' \in [Pages -> Offsets] BY <1>1 DEF EndPosition, TypeInv, TypeOK
  <1> QED BY <1>2, <1>3, TypeEndStore DEF EndPosition

LEMMA TypeOpenHead == ASSUME TypeInv, OpenHead PROVE TypeInv'
  <1> USE WriterAt, WriterProc DEF Writing, Ending
  <1>1. pc[Writer] = "head" /\ WriterNow \in Nat BY DEF OpenHead, WriterNow
  <1>2. mem' \in [Pages -> [Offsets -> Header]]
    <2>1. [Frame(Writer) EXCEPT !.header_length = FrameHeader, !.msg_type = Data] \in Header
      BY <1>1 DEF Header, Data
    <2> QED BY <1>1, <2>1, SetFrameType DEF OpenHead, TypeInv
  <1>3. time' \in [Procs -> Nat] BY <1>1 DEF OpenHead, TypeInv, TypeOK
  <1>4. pc' \in [Procs -> Labels] BY WriterGoto DEF OpenHead
  <1>5. TypeOK' BY <1>2, <1>3, <1>4 DEF OpenHead, TypeInv, TypeOK, ghost
  <1>6. Ranges' BY <1>1, WriterRanges DEF OpenHead
  <1> QED BY <1>5, <1>6 DEF TypeInv

LEMMA TypeStoreBody == ASSUME TypeInv, StoreBody PROVE TypeInv'
  <1> USE WriterAt, WriterProc DEF Writing, Ending
  <1>1. pc[Writer] = "store" BY DEF StoreBody
  <1>2. CASE NextAddress <= PageSize
    <2>1. mem' = WithBody /\ todo' = todo \ {"body"} /\ UNCHANGED pc BY <1>2 DEF StoreBody
    <2>2. Garbage \in Header BY DEF Garbage, Header, Junk
    <2>3. \A o \in Offsets : [mem[page[Writer]][o] EXCEPT !.id = written + 1] \in Header
      BY <1>1, HeaderType DEF TypeInv, Header
    <2>4. mem' \in [Pages -> [Offsets -> Header]]
      BY <1>1, <2>1, <2>2, <2>3, ZenonT(30) DEF WithBody, TypeInv, TypeOK
    <2>5. TypeOK' BY <2>1, <2>4 DEF StoreBody, TypeInv, TypeOK, ghost
    <2>6. Ranges'
      BY <1>1, <2>1 DEF StoreBody, TypeInv, Ranges, Rolling, InPage, NextAddress
    <2> QED BY <2>5, <2>6 DEF TypeInv
  <1>3. CASE ~(NextAddress <= PageSize)
    <2>1. Goto(Writer, "overrun") /\ UNCHANGED <<mem, todo>> BY <1>3 DEF StoreBody
    <2>2. pc' \in [Procs -> Labels] BY <2>1, WriterGoto
    <2>3. TypeOK' BY <2>1, <2>2 DEF StoreBody, TypeInv, TypeOK, ghost
    <2>4. Ranges' BY <1>1, <2>1, WriterRanges DEF StoreBody
    <2> QED BY <2>3, <2>4 DEF TypeInv
  <1> QED BY <1>2, <1>3

LEMMA NextAddressNat == ASSUME TypeInv, pc[Writer] \in Writing PROVE NextAddress \in Nat
  BY WriterAt DEF NextAddress, Offsets

LEMMA TypeStoreNext == ASSUME TypeInv, StoreNext PROVE TypeInv'
  <1> USE WriterAt, WriterProc DEF Writing, Ending
  <1>1. pc[Writer] = "store" BY DEF StoreNext, MemsetNext
  <1>2. CASE InPage(NextAddress)
    <2>1. /\ SetFrame(page[Writer], NextAddress, Zero)
          /\ todo' = todo \ {"next"} /\ UNCHANGED pc
      BY <1>2 DEF StoreNext, MemsetNext
    <2>2. Zero \in Header BY DEF Zero, Header, NoMsg
    <2>3. NextAddress \in Offsets BY <1>1, <1>2, NextAddressNat, OffsetInPage
    <2>4. mem' \in [Pages -> [Offsets -> Header]]
      BY <1>1, <2>1, <2>2, <2>3, SetFrameType DEF TypeInv
    <2>5. TypeOK' BY <2>1, <2>4 DEF StoreNext, MemsetNext, TypeInv, TypeOK, ghost
    <2>6. Ranges'
      BY <1>1, <1>2, <2>1 DEF StoreNext, MemsetNext, TypeInv, Ranges, Rolling, InPage, NextAddress
    <2> QED BY <2>5, <2>6 DEF TypeInv
  <1>3. CASE ~InPage(NextAddress)
    <2>1. Goto(Writer, "overrun") /\ UNCHANGED <<mem, todo>> BY <1>3 DEF StoreNext, MemsetNext
    <2>2. pc' \in [Procs -> Labels] BY <2>1, WriterGoto
    <2>3. TypeOK' BY <2>1, <2>2 DEF StoreNext, MemsetNext, TypeInv, TypeOK, ghost
    <2>4. Ranges' BY <1>1, <2>1, WriterRanges DEF StoreNext, MemsetNext
    <2> QED BY <2>3, <2>4 DEF TypeInv
  <1> QED BY <1>2, <1>3

LEMMA TypeStoreTime == ASSUME TypeInv, StoreTime PROVE TypeInv'
  <1> USE WriterAt, WriterProc DEF Writing, Ending
  <1>1. pc[Writer] = "store" /\ time[Writer] \in Nat BY CursorType DEF StoreTime, TypeInv
  <1>2. mem' \in [Pages -> [Offsets -> Header]]
    <2>1. [Frame(Writer) EXCEPT !.gen_time = time[Writer]] \in Header
      BY <1>1 DEF Header
    <2> QED BY <1>1, <2>1, SetFrameType DEF StoreTime, TypeInv
  <1>3. TypeOK' BY <1>2 DEF StoreTime, TypeInv, TypeOK, procs, ghost
  <1>4. Ranges'
    BY <1>1 DEF StoreTime, TypeInv, Ranges, Rolling, InPage, NextAddress, procs
  <1> QED BY <1>3, <1>4 DEF TypeInv

LEMMA TypeStoreLength == ASSUME TypeInv, StoreLength PROVE TypeInv'
  <1> USE WriterAt, WriterProc DEF Writing, Ending
  <1>1. pc[Writer] = "store" /\ NextAddress \in Nat BY NextAddressNat DEF StoreLength
  <1>2. mem' \in [Pages -> [Offsets -> Header]]
    <2>1. [Frame(Writer) EXCEPT !.length = FrameHeader + dlen] \in Header
      BY <1>1 DEF Header
    <2> QED BY <1>1, <2>1, SetFrameType DEF StoreLength, TypeInv
  <1>3. num[page[Writer]][addr[Writer]] \in Nat BY <1>1 DEF TypeInv, TypeOK
  <1>4. num' \in [Pages -> [Offsets -> Nat]]
    <2> DEFINE f == [o \in Offsets |-> IF o = NextAddress THEN num[page[Writer]][addr[Writer]] + 1
                                       ELSE num[page[Writer]][o]]
    <2>1. num \in [Pages -> [Offsets -> Nat]] BY DEF TypeInv, TypeOK
    <2>2. f \in [Offsets -> Nat] BY <1>1, <1>3, <2>1
    <2>3. num' = [num EXCEPT ![page[Writer]] = f] BY DEF StoreLength
    <2> HIDE DEF f
    <2> QED BY <2>1, <2>2, <2>3
  <1>5. TypeOK'
    <2>1. written' \in Nat BY <1>1 DEF StoreLength
    <2>2. todo' \subseteq {"body", "next", "time", "length"} BY DEF StoreLength, TypeInv, TypeOK
    <2> QED BY <1>2, <1>4, <2>1, <2>2 DEF StoreLength, TypeInv, TypeOK, procs
  <1>6. Ranges'
    BY <1>1 DEF StoreLength, TypeInv, Ranges, Rolling, InPage, NextAddress, procs
  <1> QED BY <1>5, <1>6 DEF TypeInv

LEMMA TypePosition == ASSUME TypeInv, Position PROVE TypeInv'
  <1> USE WriterAt, WriterProc DEF Writing, Ending
  <1>1. pc[Writer] = "store" /\ todo = {} BY DEF Position
  <1>2. InPage(NextAddress) BY <1>1 DEF TypeInv, Ranges
  <1>3. NextAddress \in Offsets BY <1>1, <1>2, NextAddressNat, OffsetInPage
  <1>4. lfp' \in [Pages -> Offsets] /\ addr' \in [Procs -> Offsets]
    BY <1>1, <1>3 DEF Position, TypeInv, TypeOK
  <1>5. PICK l \in {"idle", "stray"} : Goto(Writer, l) BY DEF Position
  <1>6. pc' \in [Procs -> Labels] BY <1>5, WriterGoto
  <1>7. TypeOK' BY <1>4, <1>6 DEF Position, TypeInv, TypeOK, local, ghost
  <1>8. Ranges' BY <1>1, <1>5, WriterRanges DEF Position
  <1> QED BY <1>7, <1>8 DEF TypeInv

LEMMA TypeStrayClose == ASSUME TypeInv, StrayClose PROVE TypeInv'
  <1> USE WriterAt, WriterProc DEF Writing, Ending
  <1>1. pc[Writer] = "stray" /\ WriterNow \in Nat BY DEF StrayClose, WriterNow
  <1>2. [Zero EXCEPT !.gen_time = WriterNow] \in Header BY <1>1 DEF Zero, Header, NoMsg
  <1>3. mem' \in [Pages -> [Offsets -> Header]] BY <1>1, <1>2, SetFrameType DEF StrayClose, TypeInv
  <1>4. lfp' \in [Pages -> Offsets] BY <1>1 DEF StrayClose, TypeInv, TypeOK
  <1>5. pc' \in [Procs -> Labels] BY WriterGoto DEF StrayClose
  <1>6. TypeOK' BY <1>3, <1>4, <1>5 DEF StrayClose, TypeInv, TypeOK, local, ghost
  <1>7. Ranges' BY <1>1, WriterRanges DEF StrayClose
  <1> QED BY <1>6, <1>7 DEF TypeInv

LEMMA TypeCrash == ASSUME TypeInv, Crash PROVE TypeInv'
  <1> USE WriterProc DEF Writing, Ending
  <1>1. Goto(Writer, "down") BY DEF Crash
  <1>2. pc' \in [Procs -> Labels] BY <1>1, WriterGoto
  <1>3. TypeOK' BY <1>2 DEF Crash, TypeInv, TypeOK, shared, ghost
  <1>4. Ranges' BY <1>1, WriterRanges DEF Crash
  <1> QED BY <1>3, <1>4 DEF TypeInv

LEMMA TypeTick == ASSUME TypeInv, Tick PROVE TypeInv'
  <1>1. TypeOK' BY DEF Tick, TypeInv, TypeOK, shared, procs, local, ghost
  <1>2. Ranges' BY DEF Tick, TypeInv, Ranges, procs, local, Rolling, InPage, NextAddress
  <1> QED BY <1>1, <1>2 DEF TypeInv

LEMMA TypeStutter == ASSUME TypeInv, UNCHANGED vars PROVE TypeInv'
  <1>1. TypeOK' BY DEF vars, TypeInv, TypeOK, shared, procs, local, ghost
  <1>2. Ranges' BY DEF vars, TypeInv, Ranges, procs, local, Rolling, InPage, NextAddress
  <1> QED BY <1>1, <1>2 DEF TypeInv

LEMMA TypeNext == ASSUME TypeInv, [Next]_vars PROVE TypeInv'
  <1>1. ASSUME NEW q \in Procs, JournalStep(q) PROVE TypeInv'
    BY <1>1, TypeListPages, TypeScanSize, TypeScanTime, TypeSeekPage, TypeSeekFrame,
       TypeLoadSize, TypeLoadOpen, TypeLoadStretch, TypeLoadCheck, TypeLoadInit
       DEF JournalStep, LoadStep_, SeekStep
  <1>2. ASSUME NEW r \in Readers, ReaderStep(r) PROVE TypeInv'
    BY <1>1, <1>2, TypeDeliver, TypeAdvance DEF ReaderStep, Procs
  <1>3. CASE WriterStep
    BY <1>1, <1>3, WriterProc, TypeOpenHead, TypeStoreBody, TypeStoreNext, TypeStoreTime,
       TypeStoreLength, TypePosition, TypeStrayClose, TypeEndHead, TypeEndTime, TypeEndLength,
       TypeEndPosition DEF WriterStep, FrameStep, PageStep
  <1> QED BY <1>2, <1>3, TypeJoin, TypeStart, TypeOpenFrame, TypeCrash, TypeTick, TypeStutter
          DEF Next

\* Every reachable state is well typed: page files, headers, cursors and the
\* addresses the writer stores to stay in their domains, whatever crashes, clock
\* skew, store reordering or oversized frames occur.
THEOREM TypeCorrect == Spec => []TypeOK
  <1>1. Spec => []TypeInv BY TypeInit, TypeNext, PTL DEF Spec
  <1>2. TypeInv => TypeOK BY DEF TypeInv
  <1> QED BY <1>1, <1>2, PTL

-----------------------------------------------------------------------------
(***************************************************************************)
(* The page chain survives crashes: a proof that ChainInv is inductive for *)
(* every page size, set of data lengths, set of readers (low latency ones  *)
(* included) and number of crashes, provided that stores are seen in       *)
(* program order, no clock is behind and every frame fits an empty page.   *)
(***************************************************************************)

MemInv == PageInv /\ HeadInv /\ OrderInv

\* process x does not move
SameProc(x) == /\ pc'[x] = pc[x] /\ page'[x] = page[x] /\ addr'[x] = addr[x]
               /\ want'[x] = want[x] /\ cont'[x] = cont[x] /\ time'[x] = time[x]

Others(q) == \A x \in Procs \ {q} : SameProc(x)

\* what every step does to memory: pages, heads and frames only ever appear
Grow == /\ \A p \in Pages : lfp[p] # 0 => lfp'[p] # 0
        /\ \A p \in Pages : fsize[p] = PageSize => fsize'[p] = PageSize
        /\ \A p \in Pages, o \in Offsets : IsHead(p, o) => IsHead(p, o)'
        /\ \A p \in Pages, o \in Offsets :
             IsHead(p, o) /\ has_data(mem[p][o]) => has_data(mem'[p][o])

----------------------------------------------------------------------------
(* Frame lemmas: what a step leaves alone keeps its part of the invariant. *)

LEMMA MemSame ==
  ASSUME MemInv, UNCHANGED <<shared, num, written>> PROVE MemInv'
  <1> USE DEF shared, IsHead
  <1>1. PageInv' BY DEF MemInv, PageInv
  <1>2. HeadInv' BY DEF MemInv, HeadInv
  <1>3. OrderInv' BY DEF MemInv, OrderInv
  <1> QED BY <1>1, <1>2, <1>3 DEF MemInv

LEMMA GrowSame == ASSUME UNCHANGED <<shared, num>> PROVE Grow
  BY DEF Grow, IsHead, shared

LEMMA CursorSame ==
  ASSUME TypeInv, NEW q \in Procs, CursorOK(q), SameProc(q), Grow PROVE CursorOK(q)'
  <1>1. want[q] \in Pages /\ addr[q] \in Offsets BY CursorType DEF TypeInv
  <1>2. pc[q] \in Cursored => page[q] \in Pages BY DEF TypeInv, Ranges
  <1>3. "next" \in Cursored BY DEF Cursored
  <1>4. (pc[q] \in Cursored => lfp[page[q]] # 0 /\ IsHead(page[q], addr[q]))'
    BY <1>1, <1>2 DEF CursorOK, SameProc, Grow, IsHead
  <1>5. (pc[q] \in {"check", "init"} => fsize[want[q]] = PageSize)'
    BY <1>1 DEF CursorOK, SameProc, Grow
  <1>6. (q \in Readers /\ pc[q] = "next" => has_data(Frame(q)))'
    BY <1>1, <1>2, <1>3 DEF CursorOK, SameProc, Grow, Frame
  <1>7. (q \in Readers /\ pc[q] \in Loading =>
            /\ want[q] = 1 \/ lfp[want[q]] # 0
            /\ cont[q] = "read" => lfp[want[q]] # 0)'
    BY <1>1 DEF CursorOK, SameProc, Grow
  <1> QED BY <1>4, <1>5, <1>6, <1>7 DEF CursorOK, SameProc

LEMMA CursorsSame ==
  ASSUME TypeInv, CursorInv, NEW q \in Procs, Others(q), Grow, CursorOK(q)'
  PROVE  CursorInv'
  BY CursorSame DEF CursorInv, Others

\* lfp matters to the writer's part only as far as it is zero or not
LEMMA WriterSame ==
  ASSUME TypeInv, TimeInv, WriterInv, StoreInv, SameProc(Writer),
         UNCHANGED <<mem, num, local, now, written>>,
         \A p \in Pages : lfp'[p] = 0 <=> lfp[p] = 0
  PROVE  TimeInv' /\ WriterInv' /\ StoreInv'
  <1> USE DEF SameProc, local
  <1>1. TimeInv' BY DEF TimeInv, Seeking
  <1>2. StoreInv' BY DEF StoreInv, Rolling, NextAddress, Frame, IsHead
  <1>3. WriterInv'
    <2>1. Rolling' <=> Rolling BY DEF Rolling
    <2>2. Seeking' <=> Seeking BY DEF Seeking
    <2>3. Rolling \/ pc[Writer] \in Cursored => page[Writer] \in Pages
      BY WriterProc DEF TypeInv, Ranges
    <2>4. pc[Writer] \in Ending => LastPage \in Pages BY WriterAt
    <2>5. LastPage' = LastPage BY DEF LastPage
    <2> QED BY <2>1, <2>2, <2>3, <2>4, <2>5 DEF WriterInv, Frame, IsHead
  <1> QED BY <1>1, <1>2, <1>3

\* a step of a reader that stores nothing
LEMMA ReaderStill ==
  ASSUME TypeInv, ChainInv, NEW r \in Readers, Others(r),
         UNCHANGED <<shared, num, written, local, now>>, CursorOK(r)'
  PROVE  ChainInv'
  <1>1. r \in Procs /\ SameProc(Writer) BY DEF Procs, Others
  <1>2. MemInv' BY MemSame DEF MemInv, ChainInv
  <1>3. CursorInv' BY <1>1, GrowSame, CursorsSame DEF ChainInv
  <1>4. TimeInv' /\ WriterInv' /\ StoreInv' BY <1>1, WriterSame DEF ChainInv, shared
  <1> QED BY <1>2, <1>3, <1>4 DEF ChainInv, MemInv

\* a step of the writer that stores nothing
LEMMA WriterStill ==
  ASSUME TypeInv, ChainInv, Others(Writer), UNCHANGED <<shared, num, written>>,
         CursorOK(Writer)', TimeInv', WriterInv', StoreInv'
  PROVE  ChainInv'
  <1>1. MemInv' BY MemSame DEF MemInv, ChainInv
  <1>2. CursorInv' BY WriterProc, GrowSame, CursorsSame DEF ChainInv
  <1> QED BY <1>1, <1>2 DEF ChainInv, MemInv

----------------------------------------------------------------------------
(* What a process finds on a head. *)

LEMMA HeadFacts ==
  ASSUME TypeInv, HeadInv, NEW p \in Pages, NEW o \in Offsets, IsHead(p, o)
  PROVE  /\ first_frame_address <= o /\ o < address_border
         /\ ~has_data(mem[p][o]) => mem[p][o].length = 0
         /\ has_data(mem[p][o]) /\ mem[p][o].msg_type # PageEnd =>
               /\ mem[p][o].msg_type = Data
               /\ o + mem[p][o].length \in Offsets
               /\ IsHead(p, o + mem[p][o].length)
               /\ o + mem[p][o].length < address_border
               /\ InPage(o + mem[p][o].length)
         /\ mem[p][o].msg_type = PageEnd => p + 1 \in Pages /\ lfp[p + 1] # 0
  <1>1. mem[p][o].length \in Nat /\ mem[p][o].msg_type \in {NoMsg, Data, PageEnd, Junk}
    BY HeaderType DEF TypeInv
  <1>2. mem[p][o].msg_type # Junk /\ (mem[p][o].length > 0 => mem[p][o].msg_type # NoMsg)
    BY DEF HeadInv
  <1>3. ~has_data(mem[p][o]) => mem[p][o].length = 0
    BY <1>1, <1>2 DEF has_data, NoMsg, Data, PageEnd, Junk
  <1>4. ASSUME has_data(mem[p][o]), mem[p][o].msg_type # PageEnd
        PROVE  /\ mem[p][o].msg_type = Data
               /\ o + mem[p][o].length \in Offsets
               /\ IsHead(p, o + mem[p][o].length)
               /\ o + mem[p][o].length < address_border
               /\ InPage(o + mem[p][o].length)
    <2>1. mem[p][o].msg_type = Data /\ mem[p][o].length > 0
      BY <1>1, <1>2, <1>4 DEF has_data, NoMsg, Data, PageEnd, Junk
    <2>2. o + mem[p][o].length \in Offsets /\ IsHead(p, o + mem[p][o].length)
      BY <2>1 DEF HeadInv
    <2>3. o + mem[p][o].length < address_border BY <2>2 DEF HeadInv
    <2>4. InPage(o + mem[p][o].length) BY <2>2, <2>3 DEF InPage, address_border, Offsets
    <2> QED BY <2>1, <2>2, <2>3, <2>4
  <1> QED BY <1>3, <1>4 DEF HeadInv

\* a page that is full ends with PageEnd, so the page after it is ready
LEMMA FullFacts ==
  ASSUME TypeInv, PageInv, HeadInv, NEW p \in Pages, lfp[p] # 0, is_full(p)
  PROVE  p + 1 \in Pages /\ lfp[p + 1] # 0
  <1>1. lfp[p] \in Offsets /\ IsHead(p, lfp[p]) BY DEF TypeInv, TypeOK, PageInv
  <1>2. lfp[p] + mem[p][lfp[p]].length > address_border BY DEF is_full
  <1>3. mem[p][lfp[p]].length \in Nat BY <1>1, HeaderType DEF TypeInv
  <1>4. address_border \in Int /\ lfp[p] \in Int BY <1>1, FirstOffset DEF Offsets
  <1>5. has_data(mem[p][lfp[p]])
    BY <1>1, <1>2, <1>3, <1>4, HeadFacts
  <1>6. mem[p][lfp[p]].msg_type = PageEnd
    BY <1>1, <1>2, <1>3, <1>4, <1>5, HeadFacts
  <1> QED BY <1>1, <1>6, HeadFacts

----------------------------------------------------------------------------
(* The cursor of a process that stores nothing. *)

LEMMA LoadCursor ==
  ASSUME NEW q \in Procs, pc'[q] \in {"size", "open"}, UNCHANGED lfp,
         q \in Readers => /\ want'[q] = 1 \/ lfp[want'[q]] # 0
                          /\ cont'[q] = "read" => lfp[want'[q]] # 0
  PROVE  CursorOK(q)'
  BY DEF CursorOK, Cursored, Writing, Ending, Loading

\* steps in which q neither has a cursor nor loads a page
LEMMA SeekCursor ==
  ASSUME NEW q \in Procs, pc'[q] \in {"list", "scan_size", "scan_time", "failed", "segv", "down"},
         q \in Readers => cont'[q] # "read"
  PROVE  CursorOK(q)'
  BY DEF CursorOK, Cursored, Writing, Ending, Loading

LEMMA OthersMove ==
  ASSUME NEW q \in Procs, Moves(q), UNCHANGED time,
         \A x \in Procs \ {q} : page'[x] = page[x] /\ addr'[x] = addr[x]
  PROVE  Others(q)
  BY DEF Others, SameProc, Moves

LEMMA NextCursor ==
  ASSUME TypeInv, ChainInv, NEW q \in Procs, NEW l \in {"walk", "read"}, page[q] \in Pages,
         pc[q] \in Cursored, has_data(Frame(q)), Next_(q, l),
         UNCHANGED <<shared, num, page, time>>, l = "walk" => cont[q] # "read"
  PROVE  /\ CursorOK(q)' /\ Others(q)
         /\ \/ pc'[q] = l /\ addr'[q] = addr[q] + Frame(q).length
               /\ want'[q] = want[q] /\ cont'[q] = cont[q]
            \/ pc'[q] \in {"size", "open"} /\ want'[q] = page[q] + 1 /\ cont'[q] = l
               /\ addr'[q] = addr[q]
  <1>1. l \in Conts \cap Labels BY DEF Conts, Labels
  <1>2. addr[q] \in Offsets /\ lfp[page[q]] # 0 /\ IsHead(page[q], addr[q])
    BY CursorType DEF ChainInv, CursorInv, CursorOK, TypeInv
  <1>3. Moves(q) /\ (\A x \in Procs \ {q} : addr'[x] = addr[x]) /\ addr' \in [Procs -> Offsets]
    BY <1>1, NextMoves
  <1>4. Others(q) BY <1>3, OthersMove
  <1>5. CASE Frame(q).msg_type = PageEnd
    <2>1. pc'[q] \in {"size", "open"} /\ want'[q] = page[q] + 1 /\ cont'[q] = l /\ addr' = addr
      BY <1>1, <1>5, NextMoves
    <2>2. lfp[page[q] + 1] # 0 BY <1>2, <1>5, HeadFacts DEF ChainInv, Frame
    <2>3. CursorOK(q)' BY <2>1, <2>2, LoadCursor DEF shared
    <2> QED BY <1>4, <2>1, <2>3
  <1>6. CASE Frame(q).msg_type # PageEnd
    <2> DEFINE a == addr[q] + Frame(q).length
    <2>1. IsHead(page[q], a) /\ InPage(a) /\ a \in Offsets
      BY <1>2, <1>6, HeadFacts DEF ChainInv, Frame
    <2>2. pc'[q] = l /\ want' = want /\ cont' = cont /\ addr' = [addr EXCEPT ![q] = a]
      BY <1>1, <1>6, <2>1, NextMoves
    <2>3. addr'[q] = a /\ page'[q] = page[q] BY <2>2 DEF TypeInv, TypeOK
    <2>4. CursorOK(q)'
      BY <1>2, <2>1, <2>2, <2>3 DEF CursorOK, Cursored, Writing, Ending, Loading, IsHead, shared
    <2> QED BY <1>4, <2>2, <2>3, <2>4
  <1> QED BY <1>5, <1>6

----------------------------------------------------------------------------
(* Readers. *)

LEMMA ReaderFacts ==
  ASSUME TypeInv, ChainInv, NEW r \in Readers
  PROVE  /\ r \in Procs /\ r # Writer /\ TypeOK /\ CursorOK(r)
         /\ want[r] \in Pages /\ addr[r] \in Offsets
         /\ pc[r] \in Cursored =>
              page[r] \in Pages /\ lfp[page[r]] # 0 /\ IsHead(page[r], addr[r])
         /\ 1 \in Pages /\ {"full", "walk", "read"} \subseteq Conts
  BY CursorType DEF TypeInv, Ranges, Procs, Pages, Conts, ChainInv, CursorInv, CursorOK

LEMMA ReaderListPages ==
  ASSUME TypeInv, ChainInv, NEW r \in Readers, ListPages(r) PROVE ChainInv'
  <1> USE ReaderFacts
  <1>0. cont[r] # "read" BY DEF CursorOK, ListPages
  <1>1. CASE PageFiles = {} \/ time[r] = 0
    <2>1. Load(r, 1, "full") BY <1>1 DEF ListPages
    <2>2. Moves(r) /\ pc'[r] \in {"size", "open"} /\ want'[r] = 1 /\ cont'[r] = "full"
      BY <2>1, LoadMoves
    <2>3. CursorOK(r)' BY <2>2, LoadCursor DEF ListPages, shared
    <2> QED BY <2>2, <2>3, OthersMove, ReaderStill DEF ListPages, ghost
  <1>2. CASE ~(PageFiles = {} \/ time[r] = 0)
    <2>1. PICK p \in PageFiles : want' = [want EXCEPT ![r] = p]
      BY <1>2 DEF ListPages
    <2>2. Goto(r, "scan_size") /\ UNCHANGED cont BY <1>2 DEF ListPages
    <2>3. Moves(r) /\ pc'[r] = "scan_size" /\ cont'[r] = cont[r]
      BY <2>1, <2>2, GotoType DEF Moves, TypeOK, Conts, PageFiles, Labels
    <2>4. CursorOK(r)' BY <1>0, <2>3, SeekCursor
    <2> QED BY <2>3, <2>4, OthersMove, ReaderStill DEF ListPages, ghost
  <1> QED BY <1>1, <1>2

LEMMA ReaderScanOn ==
  ASSUME TypeInv, ChainInv, NEW r \in Readers, ScanOn(r), cont[r] # "read",
         UNCHANGED <<shared, page, addr, time, local, now, crashes, ghost>>
  PROVE  ChainInv'
  <1> USE ReaderFacts
  <1>1. Moves(r) BY ScanOnMoves
  <1>2. CASE pc'[r] = "scan_size" /\ cont'[r] = cont[r]
    BY <1>1, <1>2, SeekCursor, OthersMove, ReaderStill DEF ghost
  <1>3. CASE pc'[r] \in {"size", "open"} /\ want'[r] = 1 /\ cont'[r] = "full"
    BY <1>1, <1>3, LoadCursor, OthersMove, ReaderStill DEF ghost, shared
  <1> QED BY <1>2, <1>3, ScanOnMoves

LEMMA ReaderScanSize ==
  ASSUME TypeInv, ChainInv, NEW r \in Readers, ScanSize(r) PROVE ChainInv'
  <1> USE ReaderFacts
  <1>0. cont[r] # "read" BY DEF CursorOK, ScanSize
  <1>1. CASE fsize[want[r]] < PageHeader
    BY <1>0, <1>1, ReaderScanOn DEF ScanSize
  <1>2. CASE ~(fsize[want[r]] < PageHeader)
    <2>1. Moves(r) /\ pc'[r] = "scan_time" /\ cont'[r] = cont[r]
      BY <1>2, GotoMoves DEF ScanSize, Labels
    <2> QED BY <1>0, <2>1, SeekCursor, OthersMove, ReaderStill DEF ScanSize, ghost
  <1> QED BY <1>1, <1>2

LEMMA ReaderScanTime ==
  ASSUME TypeInv, ChainInv, NEW r \in Readers, ScanTime(r) PROVE ChainInv'
  <1> USE ReaderFacts
  <1>0. cont[r] # "read" BY DEF CursorOK, ScanTime
  <1>1. CASE lfp[want[r]] = 0
    <2>1. Moves(r) /\ pc'[r] = "segv" /\ cont'[r] = cont[r]
      BY <1>1, GotoMoves DEF ScanTime, Labels
    <2> QED BY <1>0, <2>1, SeekCursor, OthersMove, ReaderStill DEF ScanTime, ghost
  <1>2. CASE lfp[want[r]] # 0 /\ begin_time(want[r]) < time[r]
    <2>1. Load(r, want[r], "full") BY <1>2 DEF ScanTime
    <2>2. Moves(r) /\ pc'[r] \in {"size", "open"} /\ want'[r] = want[r] /\ cont'[r] = "full"
      BY <2>1, LoadMoves
    <2>3. CursorOK(r)' BY <1>2, <2>2, LoadCursor DEF ScanTime, shared
    <2> QED BY <2>2, <2>3, OthersMove, ReaderStill DEF ScanTime, ghost
  <1>3. CASE lfp[want[r]] # 0 /\ ~(begin_time(want[r]) < time[r])
    BY <1>0, <1>3, ReaderScanOn DEF ScanTime
  <1> QED BY <1>1, <1>2, <1>3

\* a read-only load that finds the file too short was not sent there by PageEnd
LEMMA ReaderLoadSize ==
  ASSUME TypeInv, ChainInv, NEW r \in Readers, LoadSize(r) PROVE ChainInv'
  <1> USE ReaderFacts
  <1>1. /\ Moves(r) /\ UNCHANGED <<want, cont, page, addr, fsize, lfp>>
        /\ pc'[r] = IF fsize[want[r]] < PageHeader THEN "failed" ELSE "check"
    BY GotoMoves DEF LoadSize, Labels, shared
  <1>2. fsize[want[r]] \in {NoFile, 0, PageSize} BY DEF TypeOK
  <1>3. want[r] = 1 \/ lfp[want[r]] # 0 BY DEF CursorOK, LoadSize, Loading
  <1>4. cont[r] = "read" => lfp[want[r]] # 0 BY DEF CursorOK, LoadSize, Loading
  <1>5. lfp[want[r]] # 0 => fsize[want[r]] = PageSize BY DEF ChainInv, PageInv
  <1>6. CASE fsize[want[r]] < PageHeader
    <2>1. cont[r] # "read" BY <1>4, <1>5, <1>6
    <2> QED BY <1>1, <1>6, <2>1, SeekCursor, OthersMove, ReaderStill DEF LoadSize, ghost
  <1>7. CASE ~(fsize[want[r]] < PageHeader)
    <2>1. pc'[r] = "check" /\ fsize[want[r]] = PageSize BY <1>1, <1>2, <1>7 DEF NoFile
    <2>2. CursorOK(r)'
      BY <1>1, <1>3, <1>4, <2>1 DEF CursorOK, Cursored, Writing, Ending, Loading
    <2> QED BY <1>1, <2>2, OthersMove, ReaderStill DEF LoadSize, ghost
  <1> QED BY <1>6, <1>7

\* the cursor that journal::load_page leaves
LEMMA LoadedCursor ==
  ASSUME TypeInv, NEW q \in Procs, Loaded(q), cont[q] # "end_head" \/ q = Writer,
         q = Writer => cont[q] # "read",
         UNCHANGED <<want, cont, time>>, lfp'[want[q]] # 0,
         IsHead(want[q], first_frame_address)'
  PROVE  /\ CursorOK(q)' /\ Others(q) /\ pc'[q] = cont[q]
         /\ page'[q] = want[q] /\ addr'[q] = first_frame_address
  <1>1. cont[q] \in Labels /\ cont[q] \in Conts /\ want[q] \in Pages
    BY CursorType DEF Labels, Conts, TypeInv
  <1>2. Moves(q) /\ pc'[q] = cont[q] BY <1>1, GotoMoves DEF Loaded, TypeInv
  <1>3. page'[q] = want[q] /\ addr'[q] = first_frame_address
    BY <1>1 DEF Loaded, TypeInv, TypeOK
  <1>4. \A x \in Procs \ {q} : page'[x] = page[x] /\ addr'[x] = addr[x]
    BY DEF Loaded, TypeInv, TypeOK
  <1>5. Others(q) BY <1>2, <1>4, OthersMove
  <1>6. CursorOK(q)'
    BY <1>1, <1>2, <1>3 DEF CursorOK, Conts, Loading, IsHead, Procs
  <1> QED BY <1>2, <1>3, <1>5, <1>6

LEMMA ReaderLoadCheck ==
  ASSUME TypeInv, ChainInv, NEW r \in Readers, LoadCheck(r) PROVE ChainInv'
  <1> USE ReaderFacts
  <1>1. CASE lfp[want[r]] # 0
    <2>1. Loaded(r) /\ cont[r] # "end_head" BY <1>1 DEF LoadCheck, TypeInv, Ranges
    <2>2. IsHead(want[r], first_frame_address)' /\ lfp'[want[r]] # 0
      BY <1>1 DEF ChainInv, PageInv, LoadCheck, shared, ghost, IsHead
    <2> QED BY <2>1, <2>2, LoadedCursor, ReaderStill DEF LoadCheck, ghost
  <1>2. CASE lfp[want[r]] = 0
    <2>1. /\ Moves(r) /\ UNCHANGED <<want, cont, page, addr>>
          /\ pc'[r] \in {"init", "segv"}
      BY <1>2, GotoMoves DEF LoadCheck, Labels
    <2>2. want[r] = 1 /\ cont[r] # "read" /\ fsize[want[r]] = PageSize
      BY <1>2 DEF CursorOK, LoadCheck, Loading
    <2>3. CursorOK(r)'
      BY <2>1, <2>2 DEF CursorOK, Cursored, Writing, Ending, Loading, LoadCheck, shared
    <2> QED BY <2>1, <2>3, OthersMove, ReaderStill DEF LoadCheck, ghost
  <1> QED BY <1>1, <1>2

LEMMA ReaderSeekPage ==
  ASSUME TypeInv, ChainInv, NEW r \in Readers, SeekPage(r) PROVE ChainInv'
  <1> USE ReaderFacts
  <1>0. /\ page[r] \in Pages /\ lfp[page[r]] # 0 /\ IsHead(page[r], addr[r])
        /\ cont[r] # "read"
    BY DEF SeekPage, Cursored, CursorOK
  <1>1. CASE is_full(page[r]) /\ end_time(page[r]) <= time[r]
    <2>1. Load(r, page[r] + 1, "full") BY <1>1 DEF SeekPage
    <2>2. page[r] + 1 \in Pages /\ lfp[page[r] + 1] # 0
      BY <1>0, <1>1, FullFacts DEF ChainInv
    <2>3. Moves(r) /\ pc'[r] \in {"size", "open"} /\ want'[r] = page[r] + 1 /\ cont'[r] = "full"
      BY <2>1, <2>2, LoadMoves
    <2>4. CursorOK(r)' BY <2>2, <2>3, LoadCursor DEF SeekPage, shared
    <2> QED BY <2>3, <2>4, OthersMove, ReaderStill DEF SeekPage, ghost
  <1>2. CASE ~(is_full(page[r]) /\ end_time(page[r]) <= time[r])
    <2>1. Moves(r) /\ pc'[r] = "walk" /\ UNCHANGED <<want, cont>>
      BY <1>2, GotoMoves DEF SeekPage, Labels
    <2>2. CursorOK(r)'
      BY <1>0, <2>1 DEF CursorOK, SeekPage, shared, ghost, IsHead, Loading
    <2> QED BY <2>1, <2>2, OthersMove, ReaderStill DEF SeekPage, ghost
  <1> QED BY <1>1, <1>2

LEMMA ReaderSeekFrame ==
  ASSUME TypeInv, ChainInv, NEW r \in Readers, SeekFrame(r) PROVE ChainInv'
  <1> USE ReaderFacts
  <1>0. /\ pc[r] \in Cursored /\ page[r] \in Pages /\ lfp[page[r]] # 0
        /\ IsHead(page[r], addr[r]) /\ cont[r] # "read"
    BY DEF SeekFrame, Cursored, CursorOK
  <1>1. CASE Passes(r)
    <2>1. Next_(r, "walk") /\ has_data(Frame(r)) BY <1>1 DEF SeekFrame, Passes
    <2>2. CursorOK(r)' /\ Others(r) BY <1>0, <2>1, NextCursor DEF SeekFrame, ghost
    <2> QED BY <2>2, ReaderStill DEF SeekFrame, ghost
  <1>2. CASE ~Passes(r)
    <2>1. Moves(r) /\ pc'[r] = "read" /\ UNCHANGED <<want, cont, addr>>
      BY <1>2, GotoMoves DEF SeekFrame, Labels
    <2>2. CursorOK(r)'
      BY <1>0, <2>1 DEF CursorOK, SeekFrame, shared, ghost, IsHead, Loading
    <2> QED BY <2>1, <2>2, OthersMove, ReaderStill DEF SeekFrame, ghost
  <1> QED BY <1>1, <1>2

LEMMA ReaderAdvance ==
  ASSUME TypeInv, ChainInv, NEW r \in Readers, Advance(r) PROVE ChainInv'
  <1> USE ReaderFacts
  <1>0. pc[r] \in Cursored /\ page[r] \in Pages /\ has_data(Frame(r))
    BY DEF Advance, Cursored, CursorOK
  <1>1. CursorOK(r)' /\ Others(r) BY <1>0, NextCursor DEF Advance, ghost
  <1> QED BY <1>1, ReaderStill DEF Advance, ghost

LEMMA ReaderDeliver ==
  ASSUME TypeInv, ChainInv, NEW r \in Readers, Deliver(r) PROVE ChainInv'
  <1> USE ReaderFacts
  <1>1. Moves(r) /\ pc'[r] = "next" /\ UNCHANGED <<want, cont, page, addr, lfp, mem, num>>
    BY GotoMoves DEF Deliver, Labels, shared
  <1>2. lfp[page[r]] # 0 /\ IsHead(page[r], addr[r]) /\ has_data(Frame(r))
    BY DEF Deliver, Cursored
  <1>3. CursorOK(r)' BY <1>1, <1>2 DEF CursorOK, IsHead, Frame, Loading
  <1> QED BY <1>1, <1>3, OthersMove, ReaderStill DEF Deliver

LEMMA ReaderJoin ==
  ASSUME TypeInv, ChainInv, NEW r \in Readers, NEW t \in 0 .. now, Join(r, t) PROVE ChainInv'
  <1> USE ReaderFacts
  <1>1. Moves(r) /\ pc'[r] = "list" /\ UNCHANGED <<want, cont, page, addr>>
    BY GotoMoves DEF Join, Labels
  <1>2. \A x \in Procs \ {r} : time'[x] = time[x] BY DEF Join, TypeOK
  <1>3. CursorOK(r)' BY <1>1, SeekCursor DEF Join, CursorOK
  <1>4. Others(r) BY <1>1, <1>2 DEF Others, SameProc, Moves
  <1> QED BY <1>3, <1>4, ReaderStill DEF Join, ghost

----------------------------------------------------------------------------
(* page::load creates, stretches and initialises the page. *)

\* the file only grows; the writer's part is left alone if a reader loads, or
\* if the writer goes on loading
LEMMA WriterLoading ==
  ASSUME TypeInv, TimeInv, WriterInv, StoreInv, pc[Writer] \in Loading, pc'[Writer] \in Loading,
         UNCHANGED <<lfp, mem, num, local, now, written, page, addr, want, cont, time>>
  PROVE  TimeInv' /\ WriterInv' /\ StoreInv'
  <1> USE DEF local
  <1>1. Rolling' <=> Rolling BY DEF Rolling
  <1>2. Seeking' <=> Seeking BY DEF Seeking, Loading
  <1>3. TimeInv' BY <1>2 DEF TimeInv, Loading
  <1>4. StoreInv' BY <1>1 DEF StoreInv, Loading, Ending
  <1>5. WriterInv'
    BY <1>1, <1>2 DEF WriterInv, Loading, Ending, Writing, IsHead
  <1> QED BY <1>3, <1>4, <1>5

\* the constructor or close_page fails: nothing is left to keep
LEMMA WriterStopped ==
  ASSUME TimeInv, pc'[Writer] \in {"failed", "segv"},
         UNCHANGED <<mem, skew, now, time>>
  PROVE  TimeInv' /\ WriterInv' /\ StoreInv'
  BY DEF TimeInv, WriterInv, StoreInv, Seeking, Rolling, Loading, Writing, Ending

LEMMA FileStep ==
  ASSUME TypeInv, ChainInv, NEW q \in Procs, NEW l \in {"stretch", "check"},
         pc[q] \in Loading, Goto(q, l), NEW n \in {0, PageSize},
         fsize' = [fsize EXCEPT ![want[q]] = n],
         n = PageSize \/ fsize[want[q]] # PageSize, l = "check" => n = PageSize,
         UNCHANGED <<lfp, mem, page, addr, want, cont, time, local, now, crashes, ghost>>
  PROVE  ChainInv'
  <1> USE DEF ghost
  <1>1. Moves(q) /\ pc'[q] = l BY GotoMoves DEF Labels, TypeInv
  <1>2. Others(q) BY <1>1, OthersMove
  <1>3. want[q] \in Pages /\ fsize'[want[q]] = n BY CursorType DEF TypeInv, TypeOK
  <1>4. \A p \in Pages : fsize[p] = PageSize => fsize'[p] = PageSize
    BY <1>3 DEF TypeInv, TypeOK
  <1>5. MemInv'
    <2>1. PageInv' BY <1>4 DEF ChainInv, PageInv, IsHead
    <2>2. HeadInv' BY DEF ChainInv, HeadInv, IsHead
    <2>3. OrderInv' BY DEF ChainInv, OrderInv, IsHead
    <2> QED BY <2>1, <2>2, <2>3 DEF MemInv
  <1>6. Grow BY <1>4 DEF Grow, IsHead
  <1>7. CursorOK(q)'
    BY <1>1, <1>3 DEF CursorOK, ChainInv, CursorInv, Cursored, Writing, Ending, Loading
  <1>8. CursorInv' BY <1>2, <1>6, <1>7, CursorsSame DEF ChainInv
  <1>9. TimeInv' /\ WriterInv' /\ StoreInv'
    <2>1. CASE q = Writer BY <1>1, <2>1, WriterLoading DEF ChainInv, Loading
    <2>2. CASE q # Writer
      <3>1. SameProc(Writer) BY <1>2, <2>2, WriterProc DEF Others
      <3> QED BY <3>1, WriterSame DEF ChainInv
    <2> QED BY <2>1, <2>2
  <1> QED BY <1>5, <1>8, <1>9 DEF ChainInv, MemInv

LEMMA ChainLoadOpen ==
  ASSUME TypeInv, ChainInv, NEW q \in Procs, LoadOpen(q) PROVE ChainInv'
  <1>1. want[q] \in Pages /\ fsize[want[q]] \in {NoFile, 0, PageSize}
    BY CursorType DEF TypeInv, TypeOK
  <1> DEFINE n == IF fsize[want[q]] = NoFile THEN 0 ELSE fsize[want[q]]
  <1>2. n \in {0, PageSize} /\ fsize' = [fsize EXCEPT ![want[q]] = n] BY <1>1 DEF LoadOpen
  <1>3. n = PageSize \/ fsize[want[q]] # PageSize BY <1>1 DEF NoFile
  <1> HIDE DEF n
  <1> QED BY <1>2, <1>3, FileStep DEF LoadOpen, Loading

LEMMA ChainLoadStretch ==
  ASSUME TypeInv, ChainInv, NEW q \in Procs, LoadStretch(q) PROVE ChainInv'
  BY FileStep DEF LoadStretch, Loading

\* the header of page w is written, by whoever found it missing
LEMMA InitMem ==
  ASSUME TypeInv, MemInv, NEW w \in Pages, fsize[w] = PageSize,
         lfp' = [lfp EXCEPT ![w] = first_frame_address],
         num' = [num EXCEPT ![w][first_frame_address] = IF @ = 0 THEN written + 1 ELSE @],
         UNCHANGED <<fsize, mem, written>>
  PROVE  /\ MemInv' /\ Grow
         /\ lfp'[w] # 0 /\ IsHead(w, first_frame_address)'
         /\ \A p \in Pages \ {w} : lfp'[p] = lfp[p] /\ num'[p] = num[p]
         /\ lfp[w] # 0 => num' = num
         /\ lfp[w] = 0 => \A o \in Offsets : IsHead(w, o)' => o = first_frame_address
  <1> DEFINE f == first_frame_address
  <1>1. f \in Offsets /\ f # 0 /\ f < address_border
    BY DEF first_frame_address, Offsets, address_border
  <1>2. lfp'[w] = f /\ \A p \in Pages \ {w} : lfp'[p] = lfp[p] /\ num'[p] = num[p]
    BY DEF TypeInv, TypeOK
  <1>3. \A o \in Offsets \ {f} : num'[w][o] = num[w][o] BY <1>1 DEF TypeInv, TypeOK
  <1>4. num'[w][f] = IF num[w][f] = 0 THEN written + 1 ELSE num[w][f]
    BY <1>1 DEF TypeInv, TypeOK
  <1>5. num'[w][f] > 0 /\ num'[w][f] \in Nat BY <1>1, <1>4 DEF TypeInv, TypeOK
  <1>6. lfp[w] # 0 => num' = num
    BY <1>1, <1>2, <1>3, <1>4 DEF TypeInv, TypeOK, MemInv, PageInv, IsHead
  <1>7. lfp[w] = 0 => \A o \in Offsets : mem[w][o] = Zero /\ num[w][o] = 0
    BY DEF MemInv, PageInv
  <1>8. \A p \in Pages, o \in Offsets :
          IsHead(p, o)' => IsHead(p, o) \/ (lfp[w] = 0 /\ p = w /\ o = f)
    BY <1>2, <1>3, <1>6 DEF IsHead
  <1>9. \A p \in Pages, o \in Offsets : IsHead(p, o) => IsHead(p, o)'
    BY <1>2, <1>3, <1>5 DEF IsHead
  <1> HIDE DEF f
  <1>10. PageInv'
    BY <1>1, <1>2, <1>5, <1>9 DEF MemInv, PageInv, IsHead, TypeInv, TypeOK, f
  <1>11. HeadInv'
    <2> SUFFICES ASSUME NEW p \in Pages, NEW o \in Offsets, IsHead(p, o)'
                 PROVE  /\ first_frame_address <= o /\ o < address_border
                        /\ mem[p][o].msg_type # Junk
                        /\ mem[p][o].length > 0 => mem[p][o].msg_type # NoMsg
                        /\ (mem[p][o].length > 0 /\ mem[p][o].msg_type = Data) =>
                              /\ mem[p][o].length >= FrameHeader
                              /\ o + mem[p][o].length \in Offsets
                              /\ IsHead(p, o + mem[p][o].length)'
                              /\ mem[p][o].id \in 1 .. written
                              /\ mem[p][o].gen_time > 0
                        /\ mem[p][o].msg_type = PageEnd => p + 1 \in Pages /\ lfp'[p + 1] # 0
      BY DEF HeadInv
    <2>1. CASE IsHead(p, o)
      <3>1. \A x \in Pages : lfp[x] # 0 => lfp'[x] # 0 BY <1>1, <1>2
      <3> QED BY <2>1, <3>1, <1>9 DEF MemInv, HeadInv
    <2>2. CASE lfp[w] = 0 /\ p = w /\ o = f
      BY <1>1, <1>7, <2>2 DEF Zero, NoMsg, Junk, Data, PageEnd, f, Offsets
    <2> QED BY <1>8, <2>1, <2>2
  <1>12. OrderInv'
    <2> SUFFICES ASSUME NEW p \in Pages, NEW o1 \in Offsets, NEW o2 \in Offsets,
                        IsHead(p, o1)', IsHead(p, o2)', o1 < o2
                 PROVE  /\ has_data(mem[p][o1])
                        /\ mem[p][o1].msg_type = Data => o1 + mem[p][o1].length <= o2
      BY DEF OrderInv
    <2>1. ~(lfp[w] = 0 /\ p = w)
      BY <1>3, <1>7 DEF IsHead, Offsets
    <2>2. IsHead(p, o1) /\ IsHead(p, o2) BY <1>8, <2>1
    <2> QED BY <2>2 DEF MemInv, OrderInv
  <1>13. Grow BY <1>1, <1>2, <1>9 DEF Grow
  <1>14. lfp[w] = 0 => \A o \in Offsets : IsHead(w, o)' => o = f
    BY <1>3, <1>7 DEF IsHead
  <1> QED BY <1>1, <1>2, <1>5, <1>6, <1>10, <1>11, <1>12, <1>13, <1>14 DEF MemInv, IsHead, f

LEMMA ReaderLoadInit ==
  ASSUME TypeInv, ChainInv, NEW r \in Readers, LoadInit(r) PROVE ChainInv'
  <1> USE ReaderFacts
  <1> DEFINE w == want[r]
  <1>1. fsize[w] = PageSize /\ (w = 1 \/ lfp[w] # 0)
    BY DEF LoadInit, CursorOK, Loading
  <1>2. /\ MemInv' /\ Grow
        /\ lfp'[w] # 0 /\ IsHead(w, first_frame_address)'
        /\ \A p \in Pages \ {w} : lfp'[p] = lfp[p] /\ num'[p] = num[p]
        /\ lfp[w] # 0 => num' = num
    BY <1>1, InitMem DEF LoadInit, ChainInv, MemInv
  <1>3. cont[r] # "end_head" /\ Loaded(r) BY DEF LoadInit, TypeInv, Ranges
  <1>4. CursorOK(r)' /\ Others(r) BY <1>2, <1>3, LoadedCursor DEF LoadInit
  <1>5. CursorInv' BY <1>2, <1>4, CursorsSame DEF ChainInv
  <1>6. SameProc(Writer) BY <1>4, WriterProc DEF Others
  <1>7. UNCHANGED <<mem, local, now, written>> BY DEF LoadInit
  <1> HIDE DEF w
  <1>8. TimeInv' /\ WriterInv' /\ StoreInv'
    <2>1. CASE lfp[w] # 0
      <3>1. \A p \in Pages : lfp'[p] = 0 <=> lfp[p] = 0 BY <1>2, <2>1
      <3> QED BY <1>2, <1>6, <1>7, <2>1, <3>1, WriterSame DEF ChainInv
    <2>2. CASE lfp[w] = 0
      <3> USE DEF SameProc, local
      <3>1. w = 1 BY <1>1, <2>2
      <3>2. Rolling' <=> Rolling BY <1>6 DEF Rolling
      <3>3. Seeking' <=> Seeking BY <1>6 DEF Seeking
      <3>4. pc[Writer] \in Cursored => /\ page[Writer] \in Pages /\ lfp[page[Writer]] # 0
                                       /\ page[Writer] # w
        BY <2>2, WriterProc DEF TypeInv, Ranges, ChainInv, CursorInv, CursorOK
      <3>5. Rolling => page[Writer] \in Pages /\ page[Writer] # w
        BY <2>2 DEF TypeInv, Ranges, ChainInv, WriterInv
      <3>6. pc[Writer] \in Ending => LastPage \in Pages /\ LastPage # w
        BY <2>2, WriterAt DEF ChainInv, WriterInv
      <3>7. LastPage' = LastPage BY <1>6 DEF LastPage
      <3>8. want[Writer] \in Pages BY WriterProc, CursorType
      <3>9. TimeInv' BY <1>6, <1>7, <3>3 DEF ChainInv, TimeInv
      <3>10. StoreInv'
        <4>1. pc[Writer] = "store" => page[Writer] \in Pages \ {w} BY <3>4 DEF Cursored, Writing
        <4> QED BY <1>2, <1>6, <1>7, <3>2, <4>1
                DEF ChainInv, StoreInv, NextAddress, Frame, IsHead
      <3>11. Writing \cup Ending \cup {"full", "walk"} \subseteq Cursored BY DEF Cursored
      <3>14. (/\ pc[Writer] \in Writing \cup Ending \cup {"full", "walk"} \/ Rolling
                 => \A p \in Pages : p > page[Writer] => lfp[p] = 0
              /\ pc[Writer] \in {"scan_size", "scan_time"} \/ (Seeking /\ pc[Writer] \in Loading)
                 => \A p \in Pages : p > want[Writer] => lfp[p] = 0)'
        <4>1. \A p \in Pages, x \in Pages : p > x => p \in Pages \ {w} BY <3>1 DEF Pages
        <4> QED BY <1>2, <1>6, <3>2, <3>3, <3>4, <3>5, <3>8, <3>11, <4>1
                DEF ChainInv, WriterInv
      <3>15. (/\ Rolling => lfp[page[Writer]] # 0
              /\ (pc[Writer] \in Writing /\ ~(pc[Writer] = "store" /\ todo = {})) \/ Rolling
                   => \A o \in Offsets : IsHead(page[Writer], o) => o <= addr[Writer]
              /\ (pc[Writer] \in Writing \cup Ending /\ ~(pc[Writer] = "store" /\ todo = {}))
                   => Frame(Writer).length = 0)'
        BY <1>2, <1>6, <1>7, <3>2, <3>4, <3>5, <3>11 DEF ChainInv, WriterInv, Frame, IsHead
      <3>16. (/\ pc[Writer] \in Ending =>
                   /\ addr[Writer] = first_frame_address
                   /\ \A o \in Offsets : IsHead(page[Writer], o) => o = first_frame_address
                   /\ lfp[LastPage] # 0
              /\ pc[Writer] = "end_head" =>
                   \A o \in Offsets : IsHead(LastPage, o) => mem[LastPage][o].msg_type # PageEnd
              /\ pc[Writer] \in Ending \ {"end_head"} =>
                   IsHead(LastPage, endAt) /\ mem[LastPage][endAt].msg_type = PageEnd)'
        <4>1. "end_head" \in Ending BY DEF Ending
        <4>2. first_frame_address' = first_frame_address BY DEF first_frame_address
        <4> QED BY <1>2, <1>6, <1>7, <3>4, <3>6, <3>7, <3>11, <4>1, <4>2
                DEF ChainInv, WriterInv, IsHead
      <3> QED BY <3>9, <3>10, <3>14, <3>15, <3>16 DEF WriterInv
    <2> QED BY <2>1, <2>2
  <1> QED BY <1>2, <1>5, <1>8 DEF ChainInv, MemInv

LEMMA ReaderChain ==
  ASSUME TypeInv, ChainInv, NEW r \in Readers, ReaderStep(r) PROVE ChainInv'
  BY ReaderFacts, ReaderListPages, ReaderScanSize, ReaderScanTime, ReaderLoadSize, ReaderLoadCheck,
     ReaderSeekPage, ReaderSeekFrame, ReaderAdvance, ReaderDeliver, ReaderLoadInit,
     ChainLoadOpen, ChainLoadStretch
     DEF ReaderStep, JournalStep, LoadStep_, SeekStep

----------------------------------------------------------------------------
(* The writer's constructor looks for the end of the journal. *)

LEMMA WriterFacts ==
  ASSUME TypeInv, ChainInv
  PROVE  /\ Writer \in Procs /\ Writer \notin Readers /\ TypeOK /\ CursorOK(Writer)
         /\ want[Writer] \in Pages /\ addr[Writer] \in Offsets /\ time[Writer] \in Nat
         /\ pc[Writer] \in Cursored =>
              /\ page[Writer] \in Pages /\ lfp[page[Writer]] # 0
              /\ IsHead(page[Writer], addr[Writer])
         /\ 1 \in Pages /\ {"full", "walk", "end_head"} \subseteq Conts
         /\ PageInv /\ HeadInv /\ OrderInv /\ TimeInv /\ WriterInv /\ StoreInv
  BY WriterProc, CursorType DEF TypeInv, Ranges, Pages, Conts, ChainInv, CursorInv, CursorOK

\* no page after the one being looked at has a header
LEMMA WriterScans ==
  ASSUME TimeInv, Seeking, UNCHANGED <<mem, time, now, skew>>,
         pc'[Writer] \in {"scan_size", "scan_time", "size", "open"},
         pc'[Writer] \in {"size", "open"} => cont'[Writer] # "end_head",
         \A p \in Pages : p > want'[Writer] => lfp'[p] = 0
  PROVE  TimeInv' /\ WriterInv' /\ StoreInv'
  BY DEF TimeInv, WriterInv, StoreInv, Seeking, Rolling, Loading, Writing, Ending

LEMMA WriterWalks ==
  ASSUME TimeInv, Seeking, UNCHANGED <<mem, time, now, skew>>,
         pc'[Writer] \in {"full", "walk"},
         \A p \in Pages : p > page'[Writer] => lfp'[p] = 0
  PROVE  TimeInv' /\ WriterInv' /\ StoreInv'
  BY DEF TimeInv, WriterInv, StoreInv, Seeking, Rolling, Loading, Writing, Ending

LEMMA WriterListPages ==
  ASSUME TypeInv, ChainInv, ListPages(Writer) PROVE ChainInv'
  <1> USE WriterFacts
  <1>0. Seeking /\ time[Writer] > 0 BY DEF ListPages, Seeking, TimeInv
  <1>1. \A p \in Pages : fsize[p] = NoFile => lfp[p] = 0 BY DEF PageInv, NoFile
  <1>2. UNCHANGED <<shared, num, written, mem, time, now, skew, lfp>>
    BY DEF ListPages, shared, ghost, local
  <1>3. CASE PageFiles = {} \/ time[Writer] = 0
    <2>1. PageFiles = {} BY <1>0, <1>3
    <2>2. Load(Writer, 1, "full") BY <1>3 DEF ListPages
    <2>3. /\ Moves(Writer) /\ pc'[Writer] \in {"size", "open"}
          /\ want'[Writer] = 1 /\ cont'[Writer] = "full"
      BY <2>2, LoadMoves
    <2>4. CursorOK(Writer)' BY <1>2, <2>3, LoadCursor
    <2>5. \A p \in Pages : lfp'[p] = 0 BY <1>1, <1>2, <2>1 DEF PageFiles
    <2>6. TimeInv' /\ WriterInv' /\ StoreInv' BY <1>0, <1>2, <2>3, <2>5, WriterScans
    <2> QED BY <1>2, <2>3, <2>4, <2>6, OthersMove, WriterStill DEF ListPages
  <1>4. CASE ~(PageFiles = {} \/ time[Writer] = 0)
    <2>1. PICK p \in PageFiles : /\ \A x \in PageFiles : x <= p
                                 /\ want' = [want EXCEPT ![Writer] = p]
      BY <1>4 DEF ListPages
    <2>2. Goto(Writer, "scan_size") /\ UNCHANGED cont BY <1>4 DEF ListPages
    <2>3. Moves(Writer) /\ pc'[Writer] = "scan_size" /\ want'[Writer] = p
      BY <2>1, <2>2, GotoType, ZenonT(30) DEF Moves, TypeOK, Conts, PageFiles, Labels
    <2>4. CursorOK(Writer)' BY <2>3, SeekCursor
    <2>5. \A x \in Pages : x > p => lfp'[x] = 0 BY <1>1, <1>2, <2>1 DEF PageFiles, Pages
    <2>6. TimeInv' /\ WriterInv' /\ StoreInv' BY <1>0, <1>2, <2>3, <2>5, WriterScans
    <2> QED BY <1>2, <2>3, <2>4, <2>6, OthersMove, WriterStill DEF ListPages
  <1> QED BY <1>3, <1>4

\* a page without a header is given up
LEMMA WriterScanSize ==
  ASSUME TypeInv, ChainInv, ScanSize(Writer) PROVE ChainInv'
  <1> USE WriterFacts
  <1>0. Seeking /\ \A p \in Pages : p > want[Writer] => lfp[p] = 0
    BY DEF ScanSize, Seeking, WriterInv
  <1>2. UNCHANGED <<shared, num, written, mem, time, now, skew, lfp>>
    BY DEF ScanSize, shared, ghost, local
  <1>3. CASE fsize[want[Writer]] < PageHeader
    <2>1. ScanOn(Writer) BY <1>3 DEF ScanSize
    <2>2. lfp[want[Writer]] = 0 BY <1>3 DEF PageInv
    <2>3. \A p \in Pages : p > want[Writer] - 1 => lfp'[p] = 0
      BY <1>0, <1>2, <2>2 DEF Pages
    <2>4. Moves(Writer) BY <2>1, ScanOnMoves
    <2>5. CASE pc'[Writer] = "scan_size" /\ want'[Writer] = want[Writer] - 1
      <3>1. CursorOK(Writer)' BY <2>5, SeekCursor
      <3>2. TimeInv' /\ WriterInv' /\ StoreInv' BY <1>0, <1>2, <2>3, <2>5, WriterScans
      <3> QED BY <1>2, <2>4, <3>1, <3>2, OthersMove, WriterStill DEF ScanSize
    <2>6. CASE /\ want[Writer] = 1 /\ pc'[Writer] \in {"size", "open"} /\ want'[Writer] = 1
               /\ cont'[Writer] = "full"
      <3>1. CursorOK(Writer)' BY <1>2, <2>6, LoadCursor
      <3>2. TimeInv' /\ WriterInv' /\ StoreInv' BY <1>0, <1>2, <2>6, WriterScans
      <3> QED BY <1>2, <2>4, <3>1, <3>2, OthersMove, WriterStill DEF ScanSize
    <2> QED BY <2>1, <2>5, <2>6, ScanOnMoves
  <1>4. CASE ~(fsize[want[Writer]] < PageHeader)
    <2>1. Moves(Writer) /\ pc'[Writer] = "scan_time" /\ want'[Writer] = want[Writer]
      BY <1>4, GotoMoves DEF ScanSize, Labels
    <2>2. CursorOK(Writer)' BY <2>1, SeekCursor
    <2>3. TimeInv' /\ WriterInv' /\ StoreInv' BY <1>0, <1>2, <2>1, WriterScans
    <2> QED BY <1>2, <2>1, <2>2, <2>3, OthersMove, WriterStill DEF ScanSize
  <1> QED BY <1>3, <1>4

\* every frame is older than the writer's clock, so the last page is taken
LEMMA WriterScanTime ==
  ASSUME TypeInv, ChainInv, ScanTime(Writer) PROVE ChainInv'
  <1> USE WriterFacts
  <1>0. Seeking /\ \A p \in Pages : p > want[Writer] => lfp[p] = 0
    BY DEF ScanTime, Seeking, WriterInv
  <1>1. begin_time(want[Writer]) < time[Writer]
    BY <1>0, FirstOffset DEF TimeInv, begin_time
  <1>2. UNCHANGED <<shared, num, written, mem, time, now, skew, lfp>>
    BY DEF ScanTime, shared, ghost, local
  <1>3. CASE lfp[want[Writer]] = 0
    <2>1. Moves(Writer) /\ pc'[Writer] = "segv" BY <1>3, GotoMoves DEF ScanTime, Labels
    <2>2. CursorOK(Writer)' BY <2>1, SeekCursor
    <2>3. TimeInv' /\ WriterInv' /\ StoreInv' BY <1>2, <2>1, WriterStopped
    <2> QED BY <1>2, <2>1, <2>2, <2>3, OthersMove, WriterStill DEF ScanTime
  <1>4. CASE lfp[want[Writer]] # 0
    <2>1. Load(Writer, want[Writer], "full") BY <1>1, <1>4 DEF ScanTime
    <2>2. /\ Moves(Writer) /\ pc'[Writer] \in {"size", "open"}
          /\ want'[Writer] = want[Writer] /\ cont'[Writer] = "full"
      BY <2>1, LoadMoves
    <2>3. CursorOK(Writer)' BY <1>2, <2>2, LoadCursor
    <2>4. TimeInv' /\ WriterInv' /\ StoreInv' BY <1>0, <1>2, <2>2, WriterScans
    <2> QED BY <1>2, <2>2, <2>3, <2>4, OthersMove, WriterStill DEF ScanTime
  <1> QED BY <1>3, <1>4

LEMMA WriterSeekPage ==
  ASSUME TypeInv, ChainInv, SeekPage(Writer) PROVE ChainInv'
  <1> USE WriterFacts
  <1>0. /\ Seeking /\ \A p \in Pages : p > page[Writer] => lfp[p] = 0
        /\ page[Writer] \in Pages /\ lfp[page[Writer]] # 0 /\ IsHead(page[Writer], addr[Writer])
    BY DEF SeekPage, Seeking, WriterInv, Cursored
  <1>2. UNCHANGED <<shared, num, written, mem, time, now, skew, lfp, page, addr>>
    BY DEF SeekPage, shared, ghost, local
  <1>3. CASE is_full(page[Writer]) /\ end_time(page[Writer]) <= time[Writer]
    <2>1. Load(Writer, page[Writer] + 1, "full") BY <1>3 DEF SeekPage
    <2>2. page[Writer] + 1 \in Pages BY <1>0, <1>3, FullFacts
    <2>3. /\ Moves(Writer) /\ pc'[Writer] \in {"size", "open"}
          /\ want'[Writer] = page[Writer] + 1 /\ cont'[Writer] = "full"
      BY <2>1, <2>2, LoadMoves
    <2>4. CursorOK(Writer)' BY <1>2, <2>3, LoadCursor
    <2>5. \A p \in Pages : p > want'[Writer] => lfp'[p] = 0 BY <1>0, <1>2, <2>3 DEF Pages
    <2>6. TimeInv' /\ WriterInv' /\ StoreInv' BY <1>0, <1>2, <2>3, <2>5, WriterScans
    <2> QED BY <1>2, <2>3, <2>4, <2>6, OthersMove, WriterStill
  <1>4. CASE ~(is_full(page[Writer]) /\ end_time(page[Writer]) <= time[Writer])
    <2>1. Moves(Writer) /\ pc'[Writer] = "walk" BY <1>4, GotoMoves DEF SeekPage, Labels
    <2>2. CursorOK(Writer)' BY <1>0, <1>2, <2>1 DEF CursorOK, IsHead
    <2>3. TimeInv' /\ WriterInv' /\ StoreInv' BY <1>0, <1>2, <2>1, WriterWalks
    <2> QED BY <1>2, <2>1, <2>2, <2>3, OthersMove, WriterStill
  <1> QED BY <1>3, <1>4

\* the walk ends on a frame without data, and then no head lies behind it
LEMMA WriterSeekFrame ==
  ASSUME TypeInv, ChainInv, SeekFrame(Writer) PROVE ChainInv'
  <1> USE WriterFacts
  <1>0. /\ Seeking /\ \A p \in Pages : p > page[Writer] => lfp[p] = 0
        /\ page[Writer] \in Pages /\ lfp[page[Writer]] # 0 /\ IsHead(page[Writer], addr[Writer])
        /\ pc[Writer] \in Cursored /\ cont[Writer] # "read"
    BY DEF SeekFrame, Seeking, WriterInv, Cursored, TypeInv, Ranges
  <1>2. UNCHANGED <<shared, num, written, mem, time, now, skew, lfp, page>>
    BY DEF SeekFrame, shared, ghost, local
  <1>3. CASE Passes(Writer)
    <2>1. Next_(Writer, "walk") /\ has_data(Frame(Writer)) BY <1>3 DEF SeekFrame, Passes
    <2>2. /\ CursorOK(Writer)' /\ Others(Writer)
          /\ \/ pc'[Writer] = "walk"
             \/ /\ pc'[Writer] \in {"size", "open"} /\ want'[Writer] = page[Writer] + 1
                /\ cont'[Writer] = "walk"
      BY <1>0, <1>2, <2>1, NextCursor
    <2>3. CASE pc'[Writer] = "walk"
      BY <1>0, <1>2, <2>2, <2>3, WriterWalks, WriterStill
    <2>4. CASE /\ pc'[Writer] \in {"size", "open"} /\ want'[Writer] = page[Writer] + 1
               /\ cont'[Writer] = "walk"
      <3>1. \A p \in Pages : p > want'[Writer] => lfp'[p] = 0 BY <1>0, <1>2, <2>4 DEF Pages
      <3> QED BY <1>0, <1>2, <2>2, <2>4, <3>1, WriterScans, WriterStill
    <2> QED BY <2>2, <2>3, <2>4
  <1>4. CASE ~Passes(Writer)
    <2>1. Moves(Writer) /\ pc'[Writer] = "idle" /\ UNCHANGED addr
      BY <1>4, GotoMoves DEF SeekFrame, Labels
    <2>2. CursorOK(Writer)' BY <1>0, <1>2, <2>1 DEF CursorOK, IsHead
    <2>3. Frame(Writer).gen_time < time[Writer] /\ Frame(Writer).gen_time \in Nat
      BY <1>0, HeaderType DEF TimeInv, Frame
    <2>4. ~has_data(Frame(Writer)) BY <1>4, <2>3 DEF Passes
    <2>5. Frame(Writer).length = 0 BY <1>0, <2>4, HeadFacts DEF Frame
    <2>6. \A o \in Offsets : IsHead(page[Writer], o) => o <= addr[Writer]
      BY <1>0, <2>4 DEF OrderInv, Frame, Offsets
    <2>7. TimeInv' BY <1>2, <2>1 DEF TimeInv, Seeking, Loading
    <2>8. WriterInv'
      BY <1>0, <1>2, <2>1, <2>5, <2>6
         DEF WriterInv, Seeking, Rolling, Loading, Ending, IsHead, Frame
    <2>9. StoreInv' BY <2>1 DEF StoreInv, Rolling, Loading, Ending
    <2> QED BY <1>2, <2>1, <2>2, <2>7, <2>8, <2>9, OthersMove, WriterStill
  <1> QED BY <1>3, <1>4

LEMMA WriterLoadSize ==
  ASSUME TypeInv, ChainInv, LoadSize(Writer) PROVE ChainInv'
  <1> USE WriterFacts
  <1>1. /\ Moves(Writer)
        /\ pc'[Writer] = IF fsize[want[Writer]] < PageHeader THEN "failed" ELSE "check"
    BY GotoMoves DEF LoadSize, Labels
  <1>2. /\ UNCHANGED <<shared, num, written, time, now, skew, local, page, addr, want, cont>>
        /\ UNCHANGED <<mem, lfp, fsize>> /\ pc[Writer] \in Loading
    BY DEF LoadSize, shared, ghost, local, Loading
  <1>3. fsize[want[Writer]] \in {NoFile, 0, PageSize} BY DEF TypeOK
  <1>4. CASE pc'[Writer] = "failed"
    BY <1>1, <1>2, <1>4, SeekCursor, WriterStopped, OthersMove, WriterStill
  <1>5. CASE pc'[Writer] = "check" /\ ~(fsize[want[Writer]] < PageHeader)
    <2>1. fsize[want[Writer]] = PageSize BY <1>3, <1>5 DEF NoFile
    <2>2. CursorOK(Writer)'
      BY <1>2, <1>5, <2>1 DEF CursorOK, Cursored, Writing, Ending
    <2>3. pc'[Writer] \in Loading BY <1>5 DEF Loading
    <2> QED BY <1>1, <1>2, <2>2, <2>3, WriterLoading, OthersMove, WriterStill
  <1> QED BY <1>1, <1>4, <1>5

\* the writer's cursor after a load, whether or not it wrote the page header
LEMMA WriterLoaded ==
  ASSUME TypeInv, ChainInv, pc[Writer] \in Loading, Loaded(Writer),
         UNCHANGED <<mem, want, cont, time, local, now, written>>, MemInv', Grow,
         lfp'[want[Writer]] # 0, IsHead(want[Writer], first_frame_address)',
         \A p \in Pages \ {want[Writer]} : lfp'[p] = lfp[p] /\ num'[p] = num[p],
         cont[Writer] = "end_head" =>
            /\ lfp[want[Writer]] = 0
            /\ \A o \in Offsets : IsHead(want[Writer], o)' => o = first_frame_address
  PROVE  ChainInv'
  <1> USE WriterFacts DEF local
  <1> DEFINE w == want[Writer]
  <1>1. /\ CursorOK(Writer)' /\ Others(Writer) /\ pc'[Writer] = cont[Writer]
        /\ page'[Writer] = w /\ addr'[Writer] = first_frame_address
    <2>1. cont[Writer] # "read" BY DEF TypeInv, Ranges
    <2> QED BY <2>1, LoadedCursor
  <1>2. CursorInv' BY <1>1, CursorsSame DEF ChainInv
  <1>3. CASE cont[Writer] # "end_head"
    <2>1. Seeking BY <1>3 DEF Seeking
    <2>2. \A p \in Pages : p > w => lfp[p] = 0 BY <2>1 DEF WriterInv
    <2>3. \A p \in Pages : p > page'[Writer] => lfp'[p] = 0 BY <1>1, <2>2 DEF Pages
    <2>4. pc'[Writer] \in {"full", "walk"}
      BY <1>1, <1>3, CursorType DEF Conts, TypeInv, Ranges
    <2>5. TimeInv' /\ WriterInv' /\ StoreInv' BY <2>1, <2>3, <2>4, WriterWalks
    <2> QED BY <1>2, <2>5 DEF ChainInv, MemInv
  <1>4. CASE cont[Writer] = "end_head"
    <2>1. Rolling /\ pc'[Writer] = "end_head" BY <1>1, <1>4 DEF Rolling
    <2>2. page[Writer] \in Pages /\ w = page[Writer] + 1 /\ lfp[page[Writer]] # 0
          /\ \A p \in Pages : p > page[Writer] => lfp[p] = 0
      BY <2>1 DEF TypeInv, Ranges, WriterInv
    <2>3. LastPage' = page[Writer] /\ page[Writer] \in Pages \ {w}
      BY <1>1, <2>2 DEF LastPage, Pages
    <2>4. \A p \in Pages : p > page'[Writer] => lfp'[p] = 0 BY <1>1, <2>2 DEF Pages
    <2>5. \A o \in Offsets : IsHead(page[Writer], o) => mem[page[Writer]][o].msg_type # PageEnd
      <3> SUFFICES ASSUME NEW o \in Offsets, IsHead(page[Writer], o),
                          mem[page[Writer]][o].msg_type = PageEnd
                   PROVE FALSE
        OBVIOUS
      <3>1. lfp[page[Writer] + 1] # 0 BY <2>2, HeadFacts
      <3> QED BY <1>4, <2>2, <3>1
    <2>6. mem[w][first_frame_address].length = 0
      BY <1>4, FirstOffset DEF PageInv, Zero
    <2>7. WriterInv'
      <3>1. first_frame_address' = first_frame_address BY DEF first_frame_address
      <3>2. (\A o \in Offsets : IsHead(LastPage, o) => mem[LastPage][o].msg_type # PageEnd)'
        BY <2>3, <2>5 DEF IsHead
      <3>3. (\A o \in Offsets : IsHead(page[Writer], o) => o = first_frame_address)'
        BY <1>1, <1>4, <3>1 DEF IsHead
      <3>4. (lfp[LastPage] # 0)' BY <2>2, <2>3
      <3>5. (Frame(Writer).length = 0)' BY <1>1, <2>6 DEF Frame
      <3>6. ~Rolling' /\ ~Seeking' BY <2>1 DEF Rolling, Seeking, Loading
      <3> QED BY <1>1, <2>1, <2>4, <3>1, <3>2, <3>3, <3>4, <3>5, <3>6
              DEF WriterInv, Writing
    <2>8. TimeInv' BY <2>1 DEF TimeInv, Seeking, Loading
    <2>9. StoreInv' BY <2>1 DEF StoreInv
    <2> QED BY <1>2, <2>7, <2>8, <2>9 DEF ChainInv, MemInv
  <1> QED BY <1>3, <1>4

\* close_page always makes a page nobody has touched yet
LEMMA RollFresh ==
  ASSUME TypeInv, ChainInv, pc[Writer] \in Loading, cont[Writer] = "end_head"
  PROVE  lfp[want[Writer]] = 0
  <1>1. Rolling BY DEF Rolling
  <1>2. page[Writer] \in Pages /\ want[Writer] = page[Writer] + 1 BY <1>1 DEF TypeInv, Ranges
  <1>3. want[Writer] > page[Writer] BY <1>2 DEF Pages
  <1> QED BY <1>1, <1>3, WriterFacts DEF WriterInv

LEMMA WriterLoadCheck ==
  ASSUME TypeInv, ChainInv, LoadCheck(Writer) PROVE ChainInv'
  <1> USE WriterFacts
  <1>0. pc[Writer] \in Loading BY DEF LoadCheck, Loading
  <1>1. CASE lfp[want[Writer]] # 0
    <2>1. Loaded(Writer) /\ UNCHANGED <<shared, num, mem, want, cont, time, local, now, written>>
      BY <1>1 DEF LoadCheck, shared, ghost
    <2>2. MemInv' /\ Grow BY <2>1, MemSame, GrowSame DEF MemInv, shared
    <2>3. lfp'[want[Writer]] # 0 /\ IsHead(want[Writer], first_frame_address)'
      BY <1>1, <2>1 DEF PageInv, IsHead, shared
    <2>4. cont[Writer] # "end_head" BY <1>0, <1>1, RollFresh
    <2>5. \A p \in Pages \ {want[Writer]} : lfp'[p] = lfp[p] /\ num'[p] = num[p]
      BY <2>1 DEF shared
    <2> QED BY <1>0, <2>1, <2>2, <2>3, <2>4, <2>5, WriterLoaded
  <1>2. CASE lfp[want[Writer]] = 0
    <2>1. Moves(Writer) /\ pc'[Writer] = "init" /\ UNCHANGED <<page, addr, want, cont>>
      BY <1>2, GotoMoves DEF LoadCheck, Labels, Master
    <2>2. UNCHANGED <<shared, num, mem, lfp, time, local, now, written>>
      BY DEF LoadCheck, shared, ghost
    <2>3. fsize[want[Writer]] = PageSize BY DEF CursorOK, LoadCheck
    <2>4. CursorOK(Writer)'
      BY <2>1, <2>2, <2>3 DEF CursorOK, Cursored, Writing, Ending, shared
    <2>5. pc'[Writer] \in Loading BY <2>1 DEF Loading
    <2> QED BY <1>0, <2>1, <2>2, <2>4, <2>5, WriterLoading, OthersMove, WriterStill
  <1> QED BY <1>1, <1>2

LEMMA WriterLoadInit ==
  ASSUME TypeInv, ChainInv, LoadInit(Writer) PROVE ChainInv'
  <1> USE WriterFacts
  <1>0. pc[Writer] \in Loading /\ fsize[want[Writer]] = PageSize
    BY DEF LoadInit, Loading, CursorOK
  <1>1. /\ MemInv' /\ Grow
        /\ lfp'[want[Writer]] # 0 /\ IsHead(want[Writer], first_frame_address)'
        /\ \A p \in Pages \ {want[Writer]} : lfp'[p] = lfp[p] /\ num'[p] = num[p]
        /\ lfp[want[Writer]] = 0 =>
              \A o \in Offsets : IsHead(want[Writer], o)' => o = first_frame_address
    BY <1>0, InitMem DEF LoadInit, MemInv
  <1>2. cont[Writer] = "end_head" => lfp[want[Writer]] = 0 BY <1>0, RollFresh
  <1> QED BY <1>0, <1>1, <1>2, WriterLoaded DEF LoadInit

----------------------------------------------------------------------------
(* Starting, crashing, and opening a frame. *)

LEMMA ChainStart ==
  ASSUME Sane, TypeInv, ChainInv, NEW s \in 0 .. MaxSkew, Start(s) PROVE ChainInv'
  <1> USE WriterFacts
  <1>1. s = 0 BY DEF Sane
  <1>2. now \in Nat /\ now > 0 /\ skew \in Nat BY DEF TypeOK
  <1>3. /\ UNCHANGED <<shared, num, written, now, page, addr, want, cont, mem>>
        /\ pc[Writer] = "down" /\ skew' = 0
    BY <1>1 DEF Start, shared, ghost
  <1>4. Moves(Writer) /\ pc'[Writer] = "list" BY <1>3, GotoMoves DEF Start, Labels
  <1>5. time'[Writer] = now /\ \A x \in Procs \ {Writer} : time'[x] = time[x]
    BY <1>1, <1>2 DEF Start, SeekTime, TypeOK
  <1>6. Others(Writer) BY <1>3, <1>4, <1>5 DEF Others, SameProc, Moves
  <1>7. CursorOK(Writer)' BY <1>4, SeekCursor
  <1>8. TimeInv' BY <1>2, <1>3, <1>4, <1>5 DEF TimeInv
  <1>9. WriterInv' BY <1>4 DEF WriterInv, Seeking, Rolling, Loading, Writing, Ending
  <1>10. StoreInv' BY <1>4 DEF StoreInv, Rolling, Loading, Ending
  <1> QED BY <1>3, <1>6, <1>7, <1>8, <1>9, <1>10, WriterStill

\* whatever was being stored stays as it is; only the clock moves on
LEMMA ChainCrash ==
  ASSUME TypeInv, ChainInv, Crash PROVE ChainInv'
  <1> USE WriterFacts
  <1>1. UNCHANGED <<shared, num, written, page, addr, want, cont, time, mem, skew>>
        /\ now' = now + 1 /\ now \in Nat
    BY DEF Crash, shared, ghost, TypeOK
  <1>2. Moves(Writer) /\ pc'[Writer] = "down" BY <1>1, GotoMoves DEF Crash, Labels
  <1>3. CursorOK(Writer)' BY <1>2, SeekCursor
  <1>4. TimeInv'
    <2>1. \A p \in Pages, o \in Offsets : mem[p][o].gen_time \in Nat BY HeaderType
    <2> QED BY <1>1, <1>2, <2>1 DEF TimeInv, Seeking, Loading
  <1>5. WriterInv' BY <1>2 DEF WriterInv, Seeking, Rolling, Loading, Writing, Ending
  <1>6. StoreInv' BY <1>2 DEF StoreInv, Rolling, Loading, Ending
  <1> QED BY <1>1, <1>2, <1>3, <1>4, <1>5, <1>6, OthersMove, WriterStill

LEMMA ChainTick ==
  ASSUME TypeInv, ChainInv, Tick PROVE ChainInv'
  <1> USE WriterFacts
  <1>1. /\ UNCHANGED <<shared, num, written, pc, page, addr, want, cont, time, mem, lfp>>
        /\ UNCHANGED <<dlen, endAt, todo, skew>> /\ now' = now + 1 /\ now \in Nat
    BY DEF Tick, shared, procs, local, ghost, TypeOK
  <1>2. Others(Writer) BY <1>1 DEF Others, SameProc
  <1>3. CursorOK(Writer)' BY <1>1 DEF CursorOK, Frame, IsHead, shared
  <1>4. TimeInv'
    <2>1. \A p \in Pages, o \in Offsets : mem[p][o].gen_time \in Nat BY HeaderType
    <2> QED BY <1>1, <2>1 DEF TimeInv, Seeking
  <1>5. WriterInv' BY <1>1 DEF WriterInv, Seeking, Rolling, Frame, IsHead, LastPage
  <1>6. StoreInv' BY <1>1 DEF StoreInv, Rolling, Frame, IsHead, NextAddress
  <1> QED BY <1>1, <1>2, <1>3, <1>4, <1>5, <1>6, WriterStill

LEMMA ChainStutter ==
  ASSUME TypeInv, ChainInv, UNCHANGED vars PROVE ChainInv'
  <1> USE WriterFacts
  <1>1. /\ UNCHANGED <<shared, num, written, pc, page, addr, want, cont, time, mem, lfp>>
        /\ UNCHANGED <<local, now>>
    BY DEF vars, shared, procs, local, ghost
  <1>2. Others(Writer) /\ SameProc(Writer) BY <1>1 DEF Others, SameProc
  <1>3. CursorOK(Writer)' BY <1>1 DEF CursorOK, Frame, IsHead, shared
  <1>4. TimeInv' /\ WriterInv' /\ StoreInv' BY <1>1, <1>2, WriterSame
  <1> QED BY <1>1, <1>2, <1>3, <1>4, WriterStill

LEMMA ChainOpenFrame ==
  ASSUME TypeInv, ChainInv, NEW d \in DataLengths, OpenFrame(d) PROVE ChainInv'
  <1> USE WriterFacts
  <1>1. /\ UNCHANGED <<shared, num, written, page, addr, time, mem, lfp, now, skew, todo>>
        /\ pc[Writer] = "idle" /\ dlen' = d /\ d \in Nat
    BY DEF OpenFrame, shared, ghost
  <1>2. /\ page[Writer] \in Pages /\ lfp[page[Writer]] # 0 /\ IsHead(page[Writer], addr[Writer])
        /\ \A p \in Pages : p > page[Writer] => lfp[p] = 0
        /\ \A o \in Offsets : IsHead(page[Writer], o) => o <= addr[Writer]
        /\ Frame(Writer).length = 0
    BY <1>1 DEF WriterInv, Writing, Cursored
  <1>3. CASE MustRoll(d)
    <2>1. Load(Writer, page[Writer] + 1, "end_head") /\ page[Writer] + 1 \in Pages
      BY <1>2, <1>3 DEF OpenFrame, Pages
    <2>2. /\ Moves(Writer) /\ pc'[Writer] \in {"size", "open"}
          /\ want'[Writer] = page[Writer] + 1 /\ cont'[Writer] = "end_head"
      BY <2>1, LoadMoves
    <2>3. CursorOK(Writer)' BY <1>1, <2>2, LoadCursor
    <2>4. Rolling' /\ ~Seeking' BY <2>2 DEF Rolling, Seeking, Loading
    <2>5. TimeInv' BY <1>1, <2>2, <2>4 DEF TimeInv
    <2>6. WriterInv' BY <1>1, <1>2, <2>2, <2>4 DEF WriterInv, Writing, Ending, IsHead
    <2>7. StoreInv' BY <1>1, <2>2 DEF StoreInv, Ending
    <2> QED BY <1>1, <2>2, <2>3, <2>5, <2>6, <2>7, OthersMove, WriterStill
  <1>4. CASE ~MustRoll(d)
    <2>1. Moves(Writer) /\ pc'[Writer] = "head" BY <1>4, GotoMoves DEF OpenFrame, Labels
    <2>2. CursorOK(Writer)' BY <1>1, <1>2, <2>1 DEF CursorOK, IsHead
    <2>3. TimeInv' BY <1>1, <2>1 DEF TimeInv, Seeking, Loading
    <2>4. WriterInv'
      BY <1>1, <1>2, <2>1 DEF WriterInv, Rolling, Seeking, Loading, Ending, IsHead, Frame
    <2>5. StoreInv'
      <3>1. addr[Writer] + FrameHeader + d < address_border
        BY <1>1, <1>4, FirstOffset DEF MustRoll, Offsets
      <3>2. (NextAddress \in Offsets /\ NextAddress < address_border)'
        BY <1>1, <3>1 DEF NextAddress, Offsets, address_border
      <3> QED BY <2>1, <3>2 DEF StoreInv, Rolling, Loading, Ending
    <2> QED BY <1>1, <2>1, <2>2, <2>3, <2>4, <2>5, OthersMove, WriterStill
  <1> QED BY <1>3, <1>4

----------------------------------------------------------------------------
(* Stores to a page: only the head at (p, o), or no head at all, changes. *)

LEMMA HeadsKept ==
  ASSUME TypeInv, MemInv, TypeOK', UNCHANGED <<fsize, num, written>>,
         NEW p \in Pages, NEW o \in Offsets, lfp[p] # 0,
         \A x \in Pages \ {p} : mem'[x] = mem[x],
         \A y \in Offsets \ {o} : IsHead(p, y) => mem'[p][y] = mem[p][y],
         IsHead(p, o) =>
           /\ mem'[p][o].msg_type # Junk
           /\ mem'[p][o].length > 0 => mem'[p][o].msg_type \notin {NoMsg, Data}
           /\ mem'[p][o].msg_type = PageEnd => p + 1 \in Pages /\ lfp[p + 1] # 0
           /\ has_data(mem[p][o]) => has_data(mem'[p][o]),
         \A x \in Pages : lfp'[x] = lfp[x] \/ (x = p /\ lfp'[x] = o /\ IsHead(p, o))
  PROVE  /\ MemInv' /\ Grow
         /\ \A x \in Pages : lfp'[x] = 0 <=> lfp[x] = 0
  <1>1. IsHead(p, o) => o # 0
    BY DEF MemInv, HeadInv, first_frame_address
  <1>2. \A x \in Pages : lfp'[x] = 0 <=> lfp[x] = 0 BY <1>1
  <1>3. \A x \in Pages, y \in Offsets : IsHead(x, y)' <=> IsHead(x, y) BY DEF IsHead
  <1>4. \A x \in Pages, y \in Offsets :
          IsHead(x, y) => mem'[x][y] = mem[x][y] \/ (x = p /\ y = o)
    OBVIOUS
  <1>5. PageInv'
    <2> SUFFICES ASSUME NEW x \in Pages
                 PROVE  /\ lfp'[x] # 0 => /\ fsize[x] = PageSize
                                          /\ IsHead(x, first_frame_address)
                                          /\ IsHead(x, lfp'[x])
                        /\ lfp'[x] = 0 => \A y \in Offsets : num[x][y] = 0 /\ mem'[x][y] = Zero
      BY DEF PageInv, IsHead, first_frame_address
    <2>1. lfp'[x] # 0 => IsHead(x, lfp'[x]) BY <1>2 DEF MemInv, PageInv
    <2>2. lfp'[x] = 0 => x # p BY <1>2
    <2> QED BY <1>2, <2>1, <2>2 DEF MemInv, PageInv
  <1>6. HeadInv'
    <2> SUFFICES ASSUME NEW x \in Pages, NEW y \in Offsets, IsHead(x, y)
                 PROVE  /\ first_frame_address <= y /\ y < address_border
                        /\ mem'[x][y].msg_type # Junk
                        /\ mem'[x][y].length > 0 => mem'[x][y].msg_type # NoMsg
                        /\ (mem'[x][y].length > 0 /\ mem'[x][y].msg_type = Data) =>
                              /\ mem'[x][y].length >= FrameHeader
                              /\ y + mem'[x][y].length \in Offsets
                              /\ IsHead(x, y + mem'[x][y].length)
                              /\ mem'[x][y].id \in 1 .. written
                              /\ mem'[x][y].gen_time > 0
                        /\ mem'[x][y].msg_type = PageEnd => x + 1 \in Pages /\ lfp'[x + 1] # 0
      BY <1>3 DEF HeadInv, IsHead, first_frame_address, address_border
    <2>1. first_frame_address <= y /\ y < address_border BY DEF MemInv, HeadInv
    <2>2. CASE mem'[x][y] = mem[x][y] BY <1>2, <2>2 DEF MemInv, HeadInv
    <2>3. CASE x = p /\ y = o BY <1>2, <2>1, <2>3
    <2> QED BY <1>4, <2>2, <2>3
  <1>7. OrderInv'
    <2> SUFFICES ASSUME NEW x \in Pages, NEW o1 \in Offsets, NEW o2 \in Offsets,
                        IsHead(x, o1), IsHead(x, o2), o1 < o2
                 PROVE  /\ has_data(mem'[x][o1])
                        /\ mem'[x][o1].msg_type = Data => o1 + mem'[x][o1].length <= o2
      BY <1>3 DEF OrderInv
    <2>1. CASE mem'[x][o1] = mem[x][o1] BY <2>1 DEF MemInv, OrderInv
    <2>2. CASE x = p /\ o1 = o
      <3>1. has_data(mem[x][o1]) BY DEF MemInv, OrderInv
      <3> QED BY <2>2, <3>1 DEF has_data
    <2> QED BY <1>4, <2>1, <2>2
  <1>8. Grow BY <1>2, <1>3, <1>4 DEF Grow
  <1> QED BY <1>2, <1>5, <1>6, <1>7, <1>8 DEF MemInv

LEMMA WriterStores ==
  ASSUME TypeInv, ChainInv, Others(Writer), MemInv', Grow,
         CursorOK(Writer)', TimeInv', WriterInv', StoreInv'
  PROVE  ChainInv'
  BY CursorsSame, WriterProc DEF ChainInv, MemInv

----------------------------------------------------------------------------
(* close_page *)

LEMMA EndFacts ==
  ASSUME TypeInv, ChainInv, pc[Writer] \in Ending
  PROVE  /\ page[Writer] \in Pages /\ LastPage \in Pages /\ page[Writer] = LastPage + 1
         /\ lfp[page[Writer]] # 0 /\ lfp[LastPage] # 0
         /\ addr[Writer] = first_frame_address
         /\ IsHead(page[Writer], addr[Writer]) /\ Frame(Writer).length = 0
         /\ \A p \in Pages : p > page[Writer] => lfp[p] = 0
         /\ \A o \in Offsets : IsHead(page[Writer], o) => o = first_frame_address
         /\ dlen \in DataLengths
         /\ pc[Writer] # "end_head" =>
               IsHead(LastPage, endAt) /\ mem[LastPage][endAt].msg_type = PageEnd
               /\ endAt \in Offsets
  <1>1. pc[Writer] \in Cursored BY DEF Cursored
  <1>2. page[Writer] \in Pages /\ LastPage \in Pages BY WriterAt
  <1>3. page[Writer] = LastPage + 1 BY <1>2 DEF LastPage, Pages
  <1>4. pc[Writer] # "end_head" => endAt \in Offsets BY EndAtOffset
  <1>5. ~(pc[Writer] = "store" /\ todo = {}) BY DEF Ending
  <1> QED BY <1>1, <1>2, <1>3, <1>4, <1>5, WriterFacts DEF WriterInv, StoreInv

\* a step of close_page that stores to the page it ends
LEMMA EndStores ==
  ASSUME TypeInv, ChainInv, TypeOK', pc[Writer] \in Ending, NEW l \in Ending \ {"end_head"},
         Goto(Writer, l), NEW e \in Offsets, IsHead(LastPage, e), endAt' = e,
         \A x \in Pages \ {LastPage} : mem'[x] = mem[x],
         \A y \in Offsets \ {e} : mem'[LastPage][y] = mem[LastPage][y],
         mem'[LastPage][e].msg_type = PageEnd,
         has_data(mem[LastPage][e]) => mem'[LastPage][e].length > 0,
         mem'[LastPage][e].gen_time <= now,
         UNCHANGED <<fsize, lfp, page, addr, want, cont, time, dlen, todo, skew, now, num, written>>
  PROVE  ChainInv'
  <1> USE WriterFacts, EndFacts
  <1>1. Moves(Writer) /\ pc'[Writer] = l BY GotoMoves DEF Labels, Ending
  <1>2. Others(Writer) BY <1>1, OthersMove
  <1>3. /\ MemInv' /\ Grow
    <2>1. LastPage + 1 \in Pages /\ lfp[LastPage + 1] # 0 OBVIOUS
    <2>2. has_data(mem[LastPage][e]) => has_data(mem'[LastPage][e])
      BY DEF has_data, PageEnd, NoMsg
    <2> QED BY <2>1, <2>2, HeadsKept DEF MemInv, PageEnd, Junk, NoMsg, Data
  <1>4. page[Writer] \in Pages \ {LastPage} BY DEF Pages
  <1>5. CursorOK(Writer)'
    BY <1>1, <1>4 DEF CursorOK, IsHead, Ending
  <1>6. TimeInv'
    <2>1. \A p \in Pages, o \in Offsets : mem'[p][o].gen_time <= now BY DEF TimeInv
    <2> QED BY <1>1, <2>1 DEF TimeInv, Seeking, Loading, Ending
  <1>7. WriterInv'
    <2>1. LastPage' = LastPage BY DEF LastPage
    <2>2. Frame(Writer)' = Frame(Writer) BY <1>4 DEF Frame
    <2>3. pc'[Writer] \in Ending \ {"end_head"} BY <1>1
    <2>4. ~Rolling' /\ ~Seeking' BY <2>3 DEF Rolling, Seeking, Loading, Ending
    <2>5. first_frame_address' = first_frame_address BY DEF first_frame_address
    <2>6. pc'[Writer] \notin Writing /\ pc'[Writer] \notin {"scan_size", "scan_time"}
      BY <2>3 DEF Ending, Writing
    <2> QED BY <2>1, <2>2, <2>3, <2>4, <2>5, <2>6 DEF WriterInv, IsHead
  <1>8. StoreInv' BY <1>1 DEF StoreInv, Ending
  <1> QED BY <1>2, <1>3, <1>5, <1>6, <1>7, <1>8, WriterStores

\* behind last_frame_position there always is a head, and it lies in the page
LEMMA EndIsHead ==
  ASSUME TypeInv, ChainInv, pc[Writer] = "end_head"
  PROVE  /\ EndAddress \in Offsets /\ InPage(EndAddress) /\ IsHead(LastPage, EndAddress)
  <1> USE WriterFacts, EndFacts
  <1>0. pc[Writer] \in Ending BY DEF Ending
  <1> DEFINE h == lfp[LastPage]
  <1>1. h \in Offsets /\ IsHead(LastPage, h) /\ mem[LastPage][h].msg_type # PageEnd
    BY <1>0 DEF PageInv, WriterInv, TypeOK
  <1>2. CASE has_data(mem[LastPage][h])
    BY <1>0, <1>1, <1>2, HeadFacts DEF EndAddress
  <1>3. CASE ~has_data(mem[LastPage][h])
    <2>1. mem[LastPage][h].length = 0 BY <1>0, <1>1, <1>3, HeadFacts
    <2>2. EndAddress = h BY <1>1, <2>1 DEF EndAddress, Offsets
    <2>3. h < address_border BY <1>0, <1>1, HeadFacts
    <2>4. InPage(h) BY <1>1, <2>3 DEF InPage, address_border, Offsets
    <2> QED BY <1>1, <2>2, <2>4
  <1> QED BY <1>2, <1>3

LEMMA ChainEndHead ==
  ASSUME TypeInv, ChainInv, EndHead PROVE ChainInv'
  <1> USE WriterFacts, EndFacts
  <1> DEFINE e == EndAddress
             h == [mem[LastPage][e] EXCEPT !.header_length = FrameHeader, !.msg_type = PageEnd]
  <1>0. pc[Writer] = "end_head" /\ pc[Writer] \in Ending BY DEF EndHead, Ending
  <1>1. e \in Offsets /\ InPage(e) /\ IsHead(LastPage, e) BY <1>0, EndIsHead
  <1>2. endAt' = e /\ Goto(Writer, "end_time") /\ SetFrame(LastPage, e, h)
    BY <1>1 DEF EndHead
  <1>3. mem[LastPage][e] \in Header BY <1>0, <1>1, HeaderType
  <1>4. /\ h \in Header /\ h.msg_type = PageEnd /\ h.length = mem[LastPage][e].length
        /\ h.gen_time = mem[LastPage][e].gen_time
    BY <1>3 DEF Header, PageEnd
  <1>5. TypeOK' BY TypeEndHead DEF TypeInv
  <1>6. mem[LastPage][e].gen_time <= now BY <1>0, <1>1 DEF TimeInv
  <1> HIDE DEF e, h
  <1>7. /\ mem'[LastPage][e] = h
        /\ \A x \in Pages \ {LastPage} : mem'[x] = mem[x]
        /\ \A y \in Offsets \ {e} : mem'[LastPage][y] = mem[LastPage][y]
    BY <1>0, <1>1, <1>2, <1>4 DEF SetFrame, TypeOK
  <1>8. has_data(mem[LastPage][e]) => mem'[LastPage][e].length > 0
    BY <1>4, <1>7 DEF has_data
  <1>9. "end_time" \in Ending \ {"end_head"} BY DEF Ending
  <1> QED BY <1>0, <1>1, <1>2, <1>4, <1>5, <1>6, <1>7, <1>8, <1>9, EndStores DEF EndHead, ghost

LEMMA ChainEndTime ==
  ASSUME TypeInv, ChainInv, EndTime PROVE ChainInv'
  <1> USE WriterFacts, EndFacts
  <1> DEFINE h == [mem[LastPage][endAt] EXCEPT !.gen_time = WriterNow]
  <1>0. /\ pc[Writer] = "end_time" /\ pc[Writer] \in Ending /\ Goto(Writer, "end_length")
        /\ SetFrame(LastPage, endAt, h)
    BY DEF EndTime, Ending
  <1>1. endAt \in Offsets /\ IsHead(LastPage, endAt) BY <1>0
  <1>2. mem[LastPage][endAt] \in Header BY <1>0, <1>1, HeaderType
  <1>a. WriterNow = now /\ now \in Nat BY DEF WriterNow, TimeInv, TypeOK
  <1>b. mem[LastPage][endAt].msg_type = PageEnd BY <1>0
  <1>3. /\ h \in Header /\ h.msg_type = PageEnd /\ h.length = mem[LastPage][endAt].length
        /\ h.gen_time <= now
    BY <1>2, <1>a, <1>b DEF Header
  <1>4. TypeOK' BY TypeEndTime DEF TypeInv
  <1> HIDE DEF h
  <1>5. /\ mem'[LastPage][endAt] = h
        /\ \A x \in Pages \ {LastPage} : mem'[x] = mem[x]
        /\ \A y \in Offsets \ {endAt} : mem'[LastPage][y] = mem[LastPage][y]
    BY <1>0, <1>1, <1>3 DEF SetFrame, TypeOK
  <1>6. has_data(mem[LastPage][endAt]) => mem'[LastPage][endAt].length > 0
    BY <1>3, <1>5 DEF has_data
  <1>7. "end_length" \in Ending \ {"end_head"} BY DEF Ending
  <1> QED BY <1>0, <1>1, <1>3, <1>4, <1>5, <1>6, <1>7, EndStores DEF EndTime, ghost, local

LEMMA ChainEndLength ==
  ASSUME TypeInv, ChainInv, EndLength PROVE ChainInv'
  <1> USE WriterFacts, EndFacts
  <1> DEFINE h == [mem[LastPage][endAt] EXCEPT !.length = FrameHeader]
  <1>0. /\ pc[Writer] = "end_length" /\ pc[Writer] \in Ending /\ Goto(Writer, "end_pos")
        /\ SetFrame(LastPage, endAt, h)
    BY DEF EndLength, EndFrameLength, Ending
  <1>1. endAt \in Offsets /\ IsHead(LastPage, endAt) BY <1>0
  <1>2. mem[LastPage][endAt] \in Header /\ mem[LastPage][endAt].gen_time <= now
    BY <1>0, <1>1, HeaderType DEF TimeInv
  <1>3. h \in Header /\ h.msg_type = PageEnd /\ h.length > 0 /\ h.gen_time <= now
    BY <1>0, <1>2 DEF Header
  <1>4. TypeOK' BY TypeEndLength DEF TypeInv
  <1> HIDE DEF h
  <1>5. /\ mem'[LastPage][endAt] = h
        /\ \A x \in Pages \ {LastPage} : mem'[x] = mem[x]
        /\ \A y \in Offsets \ {endAt} : mem'[LastPage][y] = mem[LastPage][y]
    BY <1>0, <1>1, <1>3 DEF SetFrame, TypeOK
  <1>7. "end_pos" \in Ending \ {"end_head"} BY DEF Ending
  <1> QED BY <1>0, <1>1, <1>3, <1>4, <1>5, <1>7, EndStores
          DEF EndLength, EndFrameLength, ghost, local

\* set_last_frame_position; a frame that must be written now fits the new page
LEMMA ChainEndPosition ==
  ASSUME Sane, TypeInv, ChainInv, EndPosition PROVE ChainInv'
  <1> USE WriterFacts, EndFacts
  <1>0. /\ pc[Writer] = "end_pos" /\ pc[Writer] \in Ending /\ Goto(Writer, "head")
        /\ lfp' = [lfp EXCEPT ![LastPage] = endAt]
        /\ UNCHANGED <<fsize, mem, page, addr, want, cont, time, dlen, endAt, todo, skew>>
        /\ UNCHANGED <<now, num, written>>
    BY DEF EndPosition, Ending, local, ghost
  <1>1. endAt \in Offsets /\ IsHead(LastPage, endAt) BY <1>0
  <1>2. \A x \in Pages : lfp'[x] = lfp[x] \/ (x = LastPage /\ lfp'[x] = endAt)
    BY <1>0 DEF TypeOK
  <1>3. MemInv' /\ Grow /\ \A x \in Pages : lfp'[x] = 0 <=> lfp[x] = 0
    <2>1. TypeOK' BY TypeEndPosition DEF TypeInv
    <2>2. mem[LastPage][endAt].msg_type = PageEnd BY <1>0
    <2> QED BY <1>0, <1>1, <1>2, <2>1, <2>2, HeadsKept DEF MemInv, PageEnd, Junk, NoMsg, Data
  <1>4. Moves(Writer) /\ pc'[Writer] = "head" BY <1>0, GotoMoves DEF Labels
  <1>5. Others(Writer) BY <1>0, <1>4, OthersMove
  <1>6. CursorOK(Writer)' BY <1>0, <1>3, <1>4 DEF CursorOK, IsHead
  <1>7. TimeInv' BY <1>0, <1>4 DEF TimeInv, Seeking, Loading
  <1>8. WriterInv'
    <2>1. \A o \in Offsets : IsHead(page[Writer], o) => o <= addr[Writer]
      BY <1>0 DEF Offsets
    <2> QED BY <1>0, <1>3, <1>4, <2>1
            DEF WriterInv, Rolling, Seeking, Loading, Ending, IsHead, Frame
  <1>9. StoreInv'
    <2>1. addr[Writer] = PageHeader /\ dlen \in DataLengths BY <1>0 DEF first_frame_address
    <2>2. PageHeader + FrameHeader + dlen < address_border /\ dlen \in Nat BY <2>1 DEF Sane
    <2>3. (NextAddress \in Offsets /\ NextAddress < address_border)'
      BY <1>0, <2>1, <2>2 DEF NextAddress, Offsets, address_border
    <2> QED BY <1>4, <2>3 DEF StoreInv, Rolling, Loading, Ending
  <1> QED BY <1>3, <1>5, <1>6, <1>7, <1>8, <1>9, WriterStores

----------------------------------------------------------------------------
(* open_frame and close_frame *)

\* where the writer stands while a frame is being written
LEMMA WriteFacts ==
  ASSUME TypeInv, ChainInv, pc[Writer] \in Writing, ~(pc[Writer] = "store" /\ todo = {})
  PROVE  /\ page[Writer] \in Pages /\ addr[Writer] \in Offsets
         /\ lfp[page[Writer]] # 0 /\ IsHead(page[Writer], addr[Writer])
         /\ Frame(Writer) \in Header /\ Frame(Writer).length = 0
         /\ \A p \in Pages : p > page[Writer] => lfp[p] = 0
         /\ \A o \in Offsets : IsHead(page[Writer], o) => o <= addr[Writer]
  <1>1. pc[Writer] \in Cursored BY DEF Cursored
  <1>2. Frame(Writer) \in Header BY WriterAt
  <1> QED BY <1>1, <1>2, WriterFacts DEF WriterInv

\* one more store of the frame being written: the head the writer stands on
\* stays empty, everything behind it is no head
StoresFrame ==
  /\ pc[Writer] \in Writing /\ ~(pc[Writer] = "store" /\ todo = {})
  /\ pc'[Writer] \in {"idle", "store"} /\ (pc'[Writer] = "store" => todo' # {})
  /\ time'[Writer] <= now
  /\ \A x \in Procs \ {Writer} : pc'[x] = pc[x] /\ time'[x] = time[x]
  /\ \A x \in Pages \ {page[Writer]} : mem'[x] = mem[x]
  /\ \A y \in Offsets : y < addr[Writer] => mem'[page[Writer]][y] = mem[page[Writer]][y]
  /\ \A y \in Offsets : mem'[page[Writer]][y].gen_time <= now
  /\ mem'[page[Writer]][addr[Writer]].length = 0
  /\ mem'[page[Writer]][addr[Writer]].msg_type \in {NoMsg, Data}
  /\ \A x \in Pages : lfp'[x] = lfp[x] \/ (x = page[Writer] /\ lfp'[x] = addr[Writer])
  /\ UNCHANGED <<fsize, page, addr, want, cont, endAt, skew, now, num, written>>

LEMMA FrameStores ==
  ASSUME TypeInv, ChainInv, TypeOK', StoresFrame, StoreInv' PROVE ChainInv'
  <1> USE DEF StoresFrame
  <1> USE WriterFacts, WriteFacts
  <1> DEFINE p == page[Writer]
             a == addr[Writer]
  <1>1. Others(Writer) BY DEF Others, SameProc
  <1>2. Frame(Writer)' = mem'[p][a] BY DEF Frame
  <1>3. \A y \in Offsets \ {a} : IsHead(p, y) => mem'[p][y] = mem[p][y]
    BY DEF Offsets
  <1>4. ~has_data(mem[p][a]) BY DEF has_data, Frame
  <1>5. MemInv' /\ Grow /\ \A x \in Pages : lfp'[x] = 0 <=> lfp[x] = 0
    <2>1. \A x \in Pages : lfp'[x] = lfp[x] \/ (x = p /\ lfp'[x] = a /\ IsHead(p, a))
      OBVIOUS
    <2>2. /\ mem'[p][a].msg_type # Junk /\ mem'[p][a].msg_type # PageEnd
          /\ ~(mem'[p][a].length > 0)
      BY <1>2 DEF NoMsg, Data, Junk, PageEnd
    <2> HIDE DEF p, a
    <2> QED BY <1>3, <1>4, <2>1, <2>2, HeadsKept DEF MemInv, p, a
  <1>6. CursorOK(Writer)' BY <1>5 DEF CursorOK, IsHead
  <1>7. TimeInv'
    <2>1. \A x \in Pages, y \in Offsets : mem'[x][y].gen_time <= now BY DEF TimeInv
    <2> QED BY <2>1 DEF TimeInv, Seeking, Loading
  <1>8. WriterInv'
    BY <1>5 DEF WriterInv, Rolling, Seeking, Loading, Ending, IsHead, Frame
  <1> QED BY <1>1, <1>5, <1>6, <1>7, <1>8, WriterStores

LEMMA ChainOpenHead ==
  ASSUME TypeInv, ChainInv, OpenHead PROVE ChainInv'
  <1> USE WriterFacts, WriteFacts
  <1> DEFINE h == [Frame(Writer) EXCEPT !.header_length = FrameHeader, !.msg_type = Data]
  <1>0. /\ pc[Writer] = "head" /\ pc[Writer] \in Writing /\ Goto(Writer, "store")
        /\ SetFrame(page[Writer], addr[Writer], h)
        /\ todo' = {"body", "next", "time", "length"}
    BY DEF OpenHead, Writing
  <1>1. /\ h \in Header /\ h.length = 0 /\ h.msg_type = Data
        /\ h.gen_time = Frame(Writer).gen_time
    BY <1>0 DEF Header, Data
  <1>2. Frame(Writer).gen_time <= now BY <1>0 DEF TimeInv, Frame
  <1>3. now \in Nat /\ now > 0 /\ skew = 0 BY DEF TypeOK, TimeInv
  <1>4. /\ time'[Writer] = now /\ pc'[Writer] = "store"
        /\ \A x \in Procs \ {Writer} : pc'[x] = pc[x] /\ time'[x] = time[x]
    BY <1>0, <1>3 DEF OpenHead, WriterNow, Goto, TypeOK
  <1>5. TypeOK' BY TypeOpenHead DEF TypeInv
  <1>6. UNCHANGED <<fsize, lfp, page, addr, want, cont, endAt, skew, now, num, written, dlen>>
    BY DEF OpenHead, ghost
  <1> HIDE DEF h
  <1>7. /\ mem'[page[Writer]][addr[Writer]] = h
        /\ \A x \in Pages \ {page[Writer]} : mem'[x] = mem[x]
        /\ \A y \in Offsets \ {addr[Writer]} : mem'[page[Writer]][y] = mem[page[Writer]][y]
    BY <1>0, <1>1 DEF SetFrame, TypeOK
  <1>8. Frame(Writer)' = h BY <1>6, <1>7 DEF Frame
  <1>9. \A y \in Offsets : mem'[page[Writer]][y].gen_time <= now
    BY <1>0, <1>1, <1>2, <1>7 DEF TimeInv
  <1>10. StoreInv'
    <2>1. NextAddress' = NextAddress /\ NextAddress \in Offsets /\ NextAddress < address_border
      BY <1>0, <1>6 DEF NextAddress, StoreInv
    <2>2. address_border' = address_border BY DEF address_border
    <2>3. ~Rolling' BY <1>4 DEF Rolling, Loading
    <2> QED BY <1>0, <1>1, <1>3, <1>4, <1>8, <2>1, <2>2, <2>3 DEF StoreInv, Ending
  <1>11. \A y \in Offsets : y < addr[Writer] => mem'[page[Writer]][y] = mem[page[Writer]][y]
    BY <1>0, <1>7 DEF Offsets
  <1>12. StoresFrame
    BY <1>0, <1>1, <1>3, <1>4, <1>6, <1>7, <1>9, <1>11 DEF StoresFrame
  <1> QED BY <1>5, <1>10, <1>12, FrameStores

\* in program order every store has its place
LEMMA StoreOrder ==
  ASSUME Sane, StoreInv, pc[Writer] = "store"
  PROVE  /\ MayStore("body") => todo = {"body", "next", "time", "length"}
         /\ MayStore("next") => todo = {"next", "time", "length"}
         /\ MayStore("time") => todo = {"time", "length"}
         /\ MayStore("length") => todo = {"length"}
  <1>1. Rank["body"] = 1 /\ Rank["next"] = 2 /\ Rank["time"] = 3 /\ Rank["length"] = 4
    BY DEF Rank
  <1>2. todo \in {{"body", "next", "time", "length"}, {"next", "time", "length"},
                  {"time", "length"}, {"length"}, {}}
    BY DEF StoreInv
  <1>3. Reorder = FALSE BY DEF Sane
  <1>4. CASE todo = {"body", "next", "time", "length"}
    BY <1>1, <1>3, <1>4 DEF MayStore
  <1>5. CASE todo = {"next", "time", "length"} BY <1>1, <1>3, <1>5 DEF MayStore
  <1>6. CASE todo = {"time", "length"} BY <1>1, <1>3, <1>6 DEF MayStore
  <1>7. CASE todo = {"length"} \/ todo = {} BY <1>7 DEF MayStore
  <1> QED BY <1>2, <1>4, <1>5, <1>6, <1>7

LEMMA NextBehind ==
  ASSUME TypeOK
  PROVE  /\ NextAddress \in Nat /\ addr[Writer] \in Nat /\ NextAddress > addr[Writer]
         /\ NextAddress = addr[Writer] + (FrameHeader + dlen) /\ FrameHeader + dlen \in Nat
         /\ FrameHeader + dlen >= FrameHeader
  <1>1. addr[Writer] \in Offsets BY WriterProc DEF TypeOK
  <1>2. addr[Writer] \in Nat BY <1>1 DEF Offsets
  <1>3. dlen \in Nat BY DEF TypeOK
  <1> QED BY <1>2, <1>3 DEF NextAddress

LEMMA ChainStoreBody ==
  ASSUME Sane, TypeInv, ChainInv, StoreBody PROVE ChainInv'
  <1> USE WriterFacts, WriteFacts
  <1>0. pc[Writer] = "store" /\ pc[Writer] \in Writing /\ MayStore("body")
    BY DEF StoreBody, Writing
  <1>1. todo = {"body", "next", "time", "length"} BY <1>0, StoreOrder
  <1>2. NextAddress \in Offsets /\ NextAddress < address_border /\ NextAddress <= PageSize
    BY <1>0 DEF StoreInv, Offsets
  <1>3. /\ mem' = WithBody /\ todo' = {"next", "time", "length"} /\ UNCHANGED pc
        /\ UNCHANGED <<fsize, lfp, page, addr, want, cont, time, dlen, endAt, skew>>
        /\ UNCHANGED <<now, written, num>>
    BY <1>1, <1>2 DEF StoreBody, ghost
  <1>4. TypeOK' BY TypeStoreBody DEF TypeInv
  <1> DEFINE p == page[Writer]
             a == addr[Writer]
             h == [mem[p][a] EXCEPT !.id = written + 1]
  <1>5. p \in Pages /\ a \in Offsets /\ mem[p][a] \in Header /\ mem[p][a].length = 0
        /\ mem[p][a].msg_type = Data
    BY <1>0, <1>1 DEF StoreInv, Frame
  <1>6. h \in Header /\ h.length = 0 /\ h.msg_type = Data /\ h.id = written + 1
        /\ h.gen_time = mem[p][a].gen_time
    <2>0. TypeOK BY DEF TypeInv
    <2>1. written \in Nat /\ written + 1 \in Nat BY ONLY <2>0 DEF TypeOK
    <2> HIDE DEF p, a
    <2> QED BY <1>5, <2>1 DEF Header
  <1>7. /\ \A x \in Pages \ {p} : mem'[x] = mem[x]
        /\ mem'[p] = [o \in Offsets |-> IF o = a THEN h
                                       ELSE IF o > a /\ o < NextAddress THEN Garbage
                                       ELSE mem[p][o]]
    BY <1>3, <1>5 DEF WithBody, TypeOK
  <1> HIDE DEF h
  <1>8. mem'[p][a] = h BY <1>5, <1>7
  <1>9. \A y \in Offsets : y < a => mem'[p][y] = mem[p][y]
    BY <1>5, <1>7 DEF Offsets
  <1>10. \A y \in Offsets : mem'[p][y].gen_time <= now
    <2>1. \A y \in Offsets : mem[p][y].gen_time <= now /\ now \in Nat BY <1>5 DEF TimeInv, TypeOK
    <2> QED BY <1>5, <1>6, <1>7, <2>1 DEF Garbage
  <1>11. StoresFrame
    BY <1>0, <1>1, <1>3, <1>6, <1>7, <1>8, <1>9, <1>10 DEF StoresFrame, TimeInv
  <1>12. StoreInv'
    <2>1. NextAddress' = NextAddress /\ address_border' = address_border
      BY <1>3 DEF NextAddress, address_border
    <2>2. ~Rolling' BY <1>0, <1>3 DEF Rolling, Loading
    <2>3. Frame(Writer)' = h BY <1>3, <1>8 DEF Frame
    <2>4. time'[Writer] > 0 BY <1>0, <1>3 DEF StoreInv
    <2>5. pc'[Writer] = "store" BY <1>0, <1>3
    <2>6. written' + 1 = written + 1 BY <1>3
    <2> HIDE DEF p, a
    <2> QED BY <1>2, <1>3, <1>6, <2>1, <2>2, <2>3, <2>4, <2>5, <2>6 DEF StoreInv, Ending
  <1> QED BY <1>4, <1>11, <1>12, FrameStores

LEMMA ChainStoreNext ==
  ASSUME Sane, TypeInv, ChainInv, StoreNext PROVE ChainInv'
  <1> USE WriterFacts, WriteFacts
  <1>0. pc[Writer] = "store" /\ pc[Writer] \in Writing /\ MayStore("next")
    BY DEF StoreNext, Writing
  <1>1. todo = {"next", "time", "length"} BY <1>0, StoreOrder
  <1>2. NextAddress \in Offsets /\ NextAddress < address_border
    BY <1>0 DEF StoreInv
  <1>3. InPage(NextAddress) BY <1>2 DEF InPage, Offsets, address_border
  <1>4. /\ SetFrame(page[Writer], NextAddress, Zero)
        /\ todo' = {"time", "length"} /\ UNCHANGED pc
        /\ UNCHANGED <<fsize, lfp, page, addr, want, cont, time, dlen, endAt, skew>>
        /\ UNCHANGED <<now, written, num>>
    BY <1>1, <1>3 DEF StoreNext, MemsetNext, ghost
  <1>5. TypeOK' BY TypeStoreNext DEF TypeInv
  <1>6. NextAddress > addr[Writer] BY NextBehind
  <1>7. page[Writer] \in Pages /\ addr[Writer] \in Offsets BY <1>0, <1>1
  <1>8. /\ mem'[page[Writer]][NextAddress] = Zero
        /\ \A x \in Pages \ {page[Writer]} : mem'[x] = mem[x]
        /\ \A y \in Offsets \ {NextAddress} : mem'[page[Writer]][y] = mem[page[Writer]][y]
    BY <1>2, <1>4, <1>7 DEF SetFrame, TypeOK
  <1>9. \A y \in Offsets : y <= addr[Writer] => mem'[page[Writer]][y] = mem[page[Writer]][y]
    BY <1>2, <1>6, <1>7, <1>8 DEF Offsets
  <1>10. \A y \in Offsets : mem'[page[Writer]][y].gen_time <= now
    <2>1. \A y \in Offsets : mem[page[Writer]][y].gen_time <= now BY <1>7 DEF TimeInv
    <2>2. Zero.gen_time <= now BY DEF Zero, TypeOK
    <2> QED BY <1>8, <2>1, <2>2
  <1>11. mem'[page[Writer]][addr[Writer]] = Frame(Writer)
    BY <1>7, <1>9 DEF Frame, Offsets
  <1>12. Frame(Writer).length = 0 /\ Frame(Writer).msg_type = Data
    BY <1>0, <1>1 DEF StoreInv
  <1>13. \A y \in Offsets : y < addr[Writer] => mem'[page[Writer]][y] = mem[page[Writer]][y]
    BY <1>7, <1>9 DEF Offsets
  <1>14. StoresFrame
    BY <1>0, <1>1, <1>4, <1>8, <1>10, <1>11, <1>12, <1>13 DEF StoresFrame, TimeInv
  <1>15. StoreInv'
    <2>1. NextAddress' = NextAddress /\ address_border' = address_border
      BY <1>4 DEF NextAddress, address_border
    <2>2. ~Rolling' BY <1>0, <1>4 DEF Rolling, Loading
    <2>3. Frame(Writer)' = Frame(Writer) BY <1>4, <1>11 DEF Frame
    <2>4. time'[Writer] > 0 /\ Frame(Writer).id = written + 1 BY <1>0, <1>1, <1>4 DEF StoreInv
    <2>5. pc'[Writer] = "store" BY <1>0, <1>4
    <2>6. written' + 1 = written + 1 BY <1>4
    <2>7. /\ mem'[page'[Writer]][NextAddress'].msg_type = NoMsg
          /\ mem'[page'[Writer]][NextAddress'].length = 0
      BY <1>4, <1>8, <2>1 DEF Zero
    <2> QED BY <1>2, <1>4, <1>12, <2>1, <2>2, <2>3, <2>4, <2>5, <2>6, <2>7 DEF StoreInv, Ending
  <1> QED BY <1>5, <1>14, <1>15, FrameStores

LEMMA ChainStoreTime ==
  ASSUME Sane, TypeInv, ChainInv, StoreTime PROVE ChainInv'
  <1> USE WriterFacts, WriteFacts
  <1> DEFINE h == [Frame(Writer) EXCEPT !.gen_time = time[Writer]]
  <1>0. pc[Writer] = "store" /\ pc[Writer] \in Writing /\ MayStore("time")
        /\ SetFrame(page[Writer], addr[Writer], h)
    BY DEF StoreTime, Writing
  <1>1. todo = {"time", "length"} BY <1>0, StoreOrder
  <1>2. /\ todo' = {"length"} /\ UNCHANGED pc
        /\ UNCHANGED <<fsize, lfp, page, addr, want, cont, time, dlen, endAt, skew>>
        /\ UNCHANGED <<now, written, num>>
    BY <1>1 DEF StoreTime, ghost, procs
  <1>3. TypeOK' BY TypeStoreTime DEF TypeInv
  <1>4. page[Writer] \in Pages /\ addr[Writer] \in Offsets /\ Frame(Writer) \in Header
    BY <1>0, <1>1
  <1>5. /\ Frame(Writer).length = 0 /\ Frame(Writer).msg_type = Data
        /\ Frame(Writer).id = written + 1 /\ time[Writer] > 0
    BY <1>0, <1>1 DEF StoreInv
  <1>6. time[Writer] \in Nat /\ time[Writer] <= now BY WriterProc DEF TypeOK, TimeInv
  <1>7. /\ h \in Header /\ h.length = 0 /\ h.msg_type = Data /\ h.id = written + 1
        /\ h.gen_time = time[Writer]
    BY <1>4, <1>5, <1>6 DEF Header
  <1> HIDE DEF h
  <1>8. /\ mem'[page[Writer]][addr[Writer]] = h
        /\ \A x \in Pages \ {page[Writer]} : mem'[x] = mem[x]
        /\ \A y \in Offsets \ {addr[Writer]} : mem'[page[Writer]][y] = mem[page[Writer]][y]
    BY <1>0, <1>4, <1>7 DEF SetFrame, TypeOK
  <1>9. \A y \in Offsets : y < addr[Writer] => mem'[page[Writer]][y] = mem[page[Writer]][y]
    BY <1>4, <1>8 DEF Offsets
  <1>10. \A y \in Offsets : mem'[page[Writer]][y].gen_time <= now
    BY <1>4, <1>6, <1>7, <1>8 DEF TimeInv
  <1>11. StoresFrame
    BY <1>0, <1>1, <1>2, <1>6, <1>7, <1>8, <1>9, <1>10 DEF StoresFrame
  <1>12. StoreInv'
    <2>1. NextAddress' = NextAddress /\ address_border' = address_border
      BY <1>2 DEF NextAddress, address_border
    <2>2. ~Rolling' BY <1>0, <1>2 DEF Rolling, Loading
    <2>3. Frame(Writer)' = h BY <1>2, <1>8 DEF Frame
    <2>4. NextAddress \in Offsets /\ NextAddress < address_border /\ NextAddress # addr[Writer]
      <3>1. NextAddress # addr[Writer] BY NextBehind
      <3> QED BY <1>0, <3>1 DEF StoreInv
    <2>5. pc'[Writer] = "store" /\ time'[Writer] = time[Writer] BY <1>0, <1>2
    <2>6. written' + 1 = written + 1 BY <1>2
    <2>7. /\ mem'[page'[Writer]][NextAddress'].msg_type = NoMsg
          /\ mem'[page'[Writer]][NextAddress'].length = 0
      BY <1>0, <1>1, <1>2, <1>8, <2>1, <2>4 DEF StoreInv
    <2> QED BY <1>2, <1>5, <1>7, <2>1, <2>2, <2>3, <2>4, <2>5, <2>6, <2>7 DEF StoreInv, Ending
  <1> QED BY <1>3, <1>11, <1>12, FrameStores

LEMMA ChainStrayClose ==
  ASSUME TypeInv, ChainInv, StrayClose PROVE ChainInv'
  <1> USE WriterFacts, WriteFacts
  <1> DEFINE h == [Zero EXCEPT !.gen_time = WriterNow]
  <1>0. /\ pc[Writer] = "stray" /\ pc[Writer] \in Writing /\ Goto(Writer, "idle")
        /\ SetFrame(page[Writer], addr[Writer], h)
        /\ lfp' = [lfp EXCEPT ![page[Writer]] = addr[Writer]]
        /\ UNCHANGED <<fsize, page, addr, want, cont, time, dlen, endAt, todo, skew>>
        /\ UNCHANGED <<now, num, written>>
    BY DEF StrayClose, Writing, local, ghost
  <1>1. WriterNow = now /\ now \in Nat BY DEF WriterNow, TimeInv, TypeOK
  <1>2. h \in Header /\ h.length = 0 /\ h.msg_type = NoMsg /\ h.gen_time = now
    BY <1>1 DEF Zero, Header
  <1>3. TypeOK' BY TypeStrayClose DEF TypeInv
  <1>4. pc'[Writer] = "idle" /\ \A x \in Procs \ {Writer} : pc'[x] = pc[x]
    BY <1>0 DEF Goto, TypeOK
  <1>5. page[Writer] \in Pages /\ addr[Writer] \in Offsets BY <1>0
  <1> HIDE DEF h
  <1>6. /\ mem'[page[Writer]][addr[Writer]] = h
        /\ \A x \in Pages \ {page[Writer]} : mem'[x] = mem[x]
        /\ \A y \in Offsets \ {addr[Writer]} : mem'[page[Writer]][y] = mem[page[Writer]][y]
    BY <1>0, <1>2, <1>5 DEF SetFrame, TypeOK
  <1>7. \A y \in Offsets : y < addr[Writer] => mem'[page[Writer]][y] = mem[page[Writer]][y]
    BY <1>5, <1>6 DEF Offsets
  <1>8. \A y \in Offsets : mem'[page[Writer]][y].gen_time <= now
    BY <1>1, <1>2, <1>5, <1>6 DEF TimeInv
  <1>9. \A x \in Pages : lfp'[x] = lfp[x] \/ (x = page[Writer] /\ lfp'[x] = addr[Writer])
    BY <1>0, <1>5 DEF TypeOK
  <1>10. StoresFrame
    BY <1>0, <1>2, <1>4, <1>6, <1>7, <1>8, <1>9 DEF StoresFrame, TimeInv
  <1>11. StoreInv' BY <1>4 DEF StoreInv, Rolling, Loading, Ending
  <1> QED BY <1>3, <1>10, <1>11, FrameStores

\* set_data_length publishes the frame: the address behind it becomes a head
LEMMA ChainStoreLength ==
  ASSUME Sane, TypeInv, ChainInv, StoreLength PROVE ChainInv'
  <1> DEFINE p == page[Writer]
             a == addr[Writer]
             n == NextAddress
             h == [mem[p][a] EXCEPT !.length = FrameHeader + dlen]
  <1>0. pc[Writer] = "store" /\ pc[Writer] \in Writing /\ MayStore("length")
    BY DEF StoreLength, Writing
  <1>1. todo = {"length"} BY <1>0, WriterFacts, StoreOrder
  <1>2. /\ mem' = [mem EXCEPT ![p][a] = h]
        /\ todo' = {} /\ written' = written + 1
        /\ num' = [num EXCEPT ![p] = [o \in Offsets |-> IF o = n THEN @[a] + 1 ELSE @[o]]]
        /\ UNCHANGED <<fsize, lfp, pc, page, addr, want, cont, time, dlen, endAt, skew, now>>
    BY <1>1 DEF StoreLength, SetFrame, Frame, procs
  <1>3. /\ p \in Pages /\ a \in Offsets /\ mem[p][a] \in Header /\ mem[p][a].length = 0
        /\ lfp[p] # 0 /\ IsHead(p, a)
        /\ \A x \in Pages : x > p => lfp[x] = 0
        /\ \A o \in Offsets : IsHead(p, o) => o <= a
    BY <1>0, <1>1, WriteFacts DEF Frame
  <1>4. /\ n \in Offsets /\ n < address_border /\ mem[p][n].msg_type = NoMsg
        /\ mem[p][n].length = 0
        /\ mem[p][a].msg_type = Data /\ mem[p][a].gen_time > 0 /\ mem[p][a].id = written + 1
        /\ time[Writer] > 0
    BY <1>0, <1>1, WriterFacts DEF StoreInv, Frame
  <1>5. /\ n \in Nat /\ a \in Nat /\ n > a /\ n = a + (FrameHeader + dlen)
        /\ FrameHeader + dlen \in Nat /\ FrameHeader + dlen >= FrameHeader
    BY NextBehind, WriterFacts
  <1>6. TypeOK /\ TypeOK' /\ written \in Nat
    BY WriterFacts, TypeStoreLength DEF TypeInv, TypeOK
  <1>7. PageInv /\ HeadInv /\ OrderInv /\ TimeInv /\ CursorOK(Writer) BY WriterFacts
  <1>8. num[p][a] \in Nat BY <1>3, <1>6 DEF TypeOK
  <1> HIDE DEF p, a, n
  <1>9. /\ h \in Header /\ h.length = FrameHeader + dlen /\ h.msg_type = Data
        /\ h.gen_time = mem[p][a].gen_time /\ h.id = written + 1
    BY <1>3, <1>4, <1>5 DEF Header
  <1> HIDE DEF h
  <1>10. /\ mem'[p][a] = h
         /\ \A x \in Pages, y \in Offsets : x # p \/ y # a => mem'[x][y] = mem[x][y]
    BY <1>2, <1>3, <1>6 DEF TypeOK
  <1>11. /\ num'[p][n] > 0
         /\ \A x \in Pages, y \in Offsets : x # p \/ y # n => num'[x][y] = num[x][y]
    BY <1>2, <1>3, <1>4, <1>6, <1>8, SMTT(30) DEF TypeOK
  <1>12. \A x \in Pages, y \in Offsets : num'[x][y] > 0 <=> IsHead(x, y) \/ (x = p /\ y = n)
    BY <1>11 DEF IsHead
  <1>13. PageInv'
    <2> SUFFICES ASSUME NEW x \in Pages
                 PROVE  /\ lfp[x] # 0 => /\ fsize[x] = PageSize
                                         /\ num'[x][first_frame_address] > 0
                                         /\ num'[x][lfp[x]] > 0
                        /\ lfp[x] = 0 => \A y \in Offsets : num'[x][y] = 0 /\ mem'[x][y] = Zero
      BY <1>2 DEF PageInv, IsHead, first_frame_address
    <2>1. lfp[x] \in Offsets /\ first_frame_address \in Offsets BY <1>6, FirstOffset DEF TypeOK
    <2>2. CASE lfp[x] # 0 BY <1>7, <1>12, <2>1, <2>2 DEF PageInv
    <2>3. CASE lfp[x] = 0 BY <1>3, <1>7, <1>10, <1>11, <2>3 DEF PageInv
    <2> QED BY <2>2, <2>3
  <1>14. HeadInv'
    <2> SUFFICES ASSUME NEW x \in Pages, NEW y \in Offsets, num'[x][y] > 0
                 PROVE  /\ first_frame_address <= y /\ y < address_border
                        /\ mem'[x][y].msg_type # Junk
                        /\ mem'[x][y].length > 0 => mem'[x][y].msg_type # NoMsg
                        /\ (mem'[x][y].length > 0 /\ mem'[x][y].msg_type = Data) =>
                              /\ mem'[x][y].length >= FrameHeader
                              /\ y + mem'[x][y].length \in Offsets
                              /\ num'[x][y + mem'[x][y].length] > 0
                              /\ mem'[x][y].id \in 1 .. (written + 1)
                              /\ mem'[x][y].gen_time > 0
                        /\ mem'[x][y].msg_type = PageEnd => x + 1 \in Pages /\ lfp[x + 1] # 0
      BY <1>2 DEF HeadInv, IsHead, first_frame_address, address_border
    <2>0. first_frame_address <= a /\ a < address_border BY <1>3, <1>7 DEF HeadInv
    <2>1. CASE x = p /\ y = a
      BY <1>4, <1>5, <1>6, <1>9, <1>10, <1>11, <2>0, <2>1 DEF Data, Junk, NoMsg, PageEnd
    <2>2. CASE x = p /\ y = n
      <3>1. mem'[x][y].length = 0 /\ mem'[x][y].msg_type = NoMsg BY <1>4, <1>5, <1>10, <2>2
      <3>2. first_frame_address <= n BY <1>5, <2>0 DEF first_frame_address
      <3> QED BY <1>4, <2>2, <3>1, <3>2 DEF Data, Junk, NoMsg, PageEnd
    <2>3. CASE x # p \/ (y # a /\ y # n)
      <3>1. mem'[x][y] = mem[x][y] /\ IsHead(x, y) BY <1>10, <1>12, <2>3
      <3>2. (mem[x][y].length > 0 /\ mem[x][y].msg_type = Data) =>
               /\ y + mem[x][y].length \in Offsets
               /\ num'[x][y + mem[x][y].length] > 0
               /\ mem[x][y].id \in 1 .. (written + 1)
        BY <1>6, <1>7, <1>12, <3>1 DEF HeadInv
      <3> QED BY <1>7, <3>1, <3>2 DEF HeadInv
    <2> QED BY <2>1, <2>2, <2>3
  <1>15. OrderInv'
    <2> SUFFICES ASSUME NEW x \in Pages, NEW o1 \in Offsets, NEW o2 \in Offsets,
                        num'[x][o1] > 0, num'[x][o2] > 0, o1 < o2
                 PROVE  /\ has_data(mem'[x][o1])
                        /\ mem'[x][o1].msg_type = Data => o1 + mem'[x][o1].length <= o2
      BY DEF OrderInv, IsHead
    <2>0. o1 \in Nat /\ o2 \in Nat BY DEF Offsets
    <2>1. CASE x = p /\ o1 = a
      <3>1. o2 = n BY <1>3, <1>5, <1>12, <2>0, <2>1
      <3>2. has_data(h) BY <1>5, <1>9 DEF has_data, Data, NoMsg
      <3> QED BY <1>5, <1>9, <1>10, <2>1, <3>1, <3>2
    <2>2. CASE x = p /\ o2 = n /\ o1 # a
      <3>1. IsHead(p, o1) /\ o1 < a BY <1>3, <1>5, <1>12, <2>0, <2>2
      <3>2. /\ has_data(mem[p][o1]) /\ mem'[p][o1] = mem[p][o1]
            /\ mem[p][o1].msg_type = Data => o1 + mem[p][o1].length <= a
        BY <1>3, <1>7, <1>10, <2>2, <3>1 DEF OrderInv
      <3>3. mem[p][o1].length \in Nat BY <1>3, <1>6 DEF TypeOK, Header
      <3> QED BY <1>5, <2>0, <2>2, <3>2, <3>3
    <2>3. CASE ~(x = p /\ o1 = a) /\ ~(x = p /\ o2 = n)
      <3>1. IsHead(x, o2) /\ IsHead(x, o1) BY <1>3, <1>5, <1>12, <2>0, <2>3
      <3>2. mem'[x][o1] = mem[x][o1] BY <1>10, <2>3
      <3> QED BY <1>7, <3>1, <3>2 DEF OrderInv
    <2> QED BY <2>1, <2>2, <2>3
  <1>16. Grow
    <2>1. ~has_data(mem[p][a]) BY <1>3 DEF has_data
    <2>2. \A x \in Pages, y \in Offsets : has_data(mem[x][y]) => has_data(mem'[x][y])
      BY <1>10, <2>1
    <2> QED BY <1>2, <1>12, <2>2 DEF Grow, IsHead
  <1>17. Others(Writer) BY <1>2 DEF Others, SameProc
  <1>18. CursorOK(Writer)'
    BY <1>0, <1>2, <1>3, <1>12, WriterFacts DEF CursorOK, IsHead, p, a
  <1>19. TimeInv'
    <2>1. \A x \in Pages, y \in Offsets : mem'[x][y].gen_time <= now
      BY <1>3, <1>7, <1>9, <1>10 DEF TimeInv
    <2> QED BY <1>0, <1>2, <1>7, <2>1 DEF TimeInv, Seeking, Loading
  <1>20. WriterInv'
    BY <1>0, <1>2, <1>3 DEF WriterInv, Rolling, Seeking, Loading, Ending, p
  <1>21. StoreInv'
    <2>1. NextAddress' = n /\ page'[Writer] = p BY <1>2 DEF NextAddress, n, p
    <2>2. Frame(Writer)' = h BY <1>2, <1>10 DEF Frame, p, a
    <2>3. mem'[p][n] = mem[p][n] BY <1>3, <1>4, <1>5, <1>10
    <2>4. \A o \in Offsets : num'[p][o] > 0 => o <= n
      BY <1>3, <1>4, <1>5, <1>12 DEF Offsets
    <2>5. ~Rolling' /\ pc'[Writer] = "store" BY <1>0, <1>2 DEF Rolling, Loading
    <2>6. address_border' = address_border BY DEF address_border
    <2> QED BY <1>2, <1>4, <1>9, <1>11, <2>1, <2>2, <2>3, <2>4, <2>5, <2>6
            DEF StoreInv, Ending, IsHead
  <1> QED BY <1>13, <1>14, <1>15, <1>16, <1>17, <1>18, <1>19, <1>20, <1>21, WriterStores DEF MemInv

\* set_last_frame_position moves to a head of its page
LEMMA PositionMem ==
  ASSUME TypeInv, MemInv, UNCHANGED <<fsize, mem, num, written>>,
         NEW p \in Pages, NEW a \in Offsets, lfp[p] # 0, IsHead(p, a),
         lfp' = [lfp EXCEPT ![p] = a]
  PROVE  /\ MemInv' /\ Grow
         /\ \A x \in Pages : lfp'[x] = 0 <=> lfp[x] = 0
  <1>1. a # 0 BY DEF MemInv, HeadInv, first_frame_address
  <1>2. \A x \in Pages : lfp'[x] = IF x = p THEN a ELSE lfp[x] BY DEF TypeInv, TypeOK
  <1>3. \A x \in Pages : lfp'[x] = 0 <=> lfp[x] = 0 BY <1>1, <1>2
  <1>4. PageInv' BY <1>2, <1>3 DEF MemInv, PageInv, IsHead, first_frame_address
  <1>5. HeadInv'
    BY <1>3 DEF MemInv, HeadInv, IsHead, first_frame_address, address_border
  <1>6. OrderInv' BY DEF MemInv, OrderInv, IsHead
  <1>7. Grow BY <1>3 DEF Grow, IsHead
  <1> QED BY <1>3, <1>4, <1>5, <1>6, <1>7 DEF MemInv

LEMMA ChainPosition ==
  ASSUME TypeInv, ChainInv, Position PROVE ChainInv'
  <1> USE WriterFacts
  <1>0. /\ pc[Writer] = "store" /\ todo = {} /\ pc[Writer] \in Writing
        /\ lfp' = [lfp EXCEPT ![page[Writer]] = addr[Writer]]
        /\ addr' = [addr EXCEPT ![Writer] = NextAddress]
        /\ UNCHANGED <<fsize, mem, page, want, cont, time, dlen, endAt, todo, skew>>
        /\ UNCHANGED <<now, num, written>>
    BY DEF Position, Writing, local, ghost
  <1>1. PICK l \in {"idle", "stray"} : Goto(Writer, l) BY DEF Position
  <1>2. pc[Writer] \in Cursored BY <1>0 DEF Cursored
  <1>3. /\ NextAddress \in Offsets /\ IsHead(page[Writer], NextAddress)
        /\ \A o \in Offsets : IsHead(page[Writer], o) => o <= NextAddress
        /\ mem[page[Writer]][NextAddress].length = 0
    BY <1>0 DEF StoreInv
  <1>4. MemInv' /\ Grow /\ \A x \in Pages : lfp'[x] = 0 <=> lfp[x] = 0
    BY <1>0, <1>2, PositionMem DEF MemInv
  <1>5. Moves(Writer) /\ pc'[Writer] = l BY <1>0, <1>1, GotoMoves DEF Labels
  <1>6. addr'[Writer] = NextAddress /\ \A x \in Procs \ {Writer} : addr'[x] = addr[x]
    BY <1>0 DEF TypeOK
  <1>7. Others(Writer) BY <1>0, <1>5, <1>6, OthersMove
  <1>8. CursorOK(Writer)'
    BY <1>0, <1>2, <1>3, <1>4, <1>5, <1>6 DEF CursorOK, IsHead
  <1>9. TimeInv' BY <1>0, <1>5 DEF TimeInv, Seeking, Loading
  <1>10. WriterInv'
    <2>1. \A p \in Pages : p > page[Writer] => lfp[p] = 0 BY <1>0 DEF WriterInv
    <2>2. Frame(Writer)'.length = 0 BY <1>0, <1>3, <1>6 DEF Frame
    <2>3. ~Rolling' /\ ~Seeking' BY <1>5 DEF Rolling, Seeking, Loading
    <2>4. pc'[Writer] \notin Ending /\ pc'[Writer] \notin {"scan_size", "scan_time", "end_head"}
      BY <1>5 DEF Ending
    <2>5. \A p \in Pages : p > page'[Writer] => lfp'[p] = 0 BY <1>0, <1>4, <2>1
    <2>6. \A o \in Offsets : num'[page'[Writer]][o] > 0 => o <= addr'[Writer]
      BY <1>0, <1>3, <1>6 DEF IsHead
    <2> QED BY <2>2, <2>3, <2>4, <2>5, <2>6 DEF WriterInv, IsHead
  <1>11. StoreInv' BY <1>5 DEF StoreInv, Rolling, Loading, Ending
  <1> QED BY <1>4, <1>7, <1>8, <1>9, <1>10, <1>11, WriterStores

----------------------------------------------------------------------------
(* The invariant and what follows from it. *)

LEMMA ChainInit == Init => ChainInv
  <1> SUFFICES ASSUME Init PROVE ChainInv OBVIOUS
  <1>1. Writer \in Procs BY WriterProc
  <1>2. \A p \in Pages, o \in Offsets : num[p][o] = 0 /\ mem[p][o] = Zero BY DEF Init
  <1>3. \A p \in Pages, o \in Offsets : ~IsHead(p, o) BY <1>2 DEF IsHead
  <1>4. \A q \in Procs : pc[q] = "down" /\ cont[q] = "full" BY DEF Init
  <1>5. PageInv BY <1>2 DEF Init, PageInv
  <1>6. HeadInv /\ OrderInv BY <1>3 DEF HeadInv, OrderInv
  <1>7. TimeInv
    <2>1. \A p \in Pages, o \in Offsets : mem[p][o].gen_time = 0 BY <1>2 DEF Zero
    <2>2. time[Writer] = 0 /\ now = 1 /\ skew = 0 /\ pc[Writer] = "down" BY <1>1 DEF Init
    <2> QED BY <2>1, <2>2 DEF TimeInv, Seeking, Loading
  <1>8. CursorInv BY <1>4 DEF CursorInv, CursorOK, Cursored, Loading, Writing, Ending
  <1>9. WriterInv /\ StoreInv
    BY <1>1, <1>4 DEF WriterInv, StoreInv, Rolling, Seeking, Loading, Writing, Ending
  <1> QED BY <1>5, <1>6, <1>7, <1>8, <1>9 DEF ChainInv

LEMMA ChainNext ==
  ASSUME Sane, TypeInv, ChainInv, [Next]_vars PROVE ChainInv'
  <1>1. CASE \E r \in Readers : ReaderStep(r) \/ \E t \in 0 .. now : Join(r, t)
    BY <1>1, ReaderChain, ReaderJoin
  <1>2. CASE JournalStep(Writer)
    BY <1>2, WriterProc, WriterListPages, WriterScanSize, WriterScanTime, WriterSeekPage,
       WriterSeekFrame, WriterLoadSize, ChainLoadOpen, ChainLoadStretch, WriterLoadCheck,
       WriterLoadInit DEF JournalStep, LoadStep_, SeekStep
  <1>3. CASE FrameStep
    BY <1>3, ChainOpenHead, ChainStoreBody, ChainStoreNext, ChainStoreTime, ChainStoreLength,
       ChainPosition, ChainStrayClose DEF FrameStep
  <1>4. CASE PageStep
    BY <1>4, ChainEndHead, ChainEndTime, ChainEndLength, ChainEndPosition DEF PageStep
  <1> QED BY <1>1, <1>2, <1>3, <1>4, ChainOpenFrame, ChainStart, ChainCrash, ChainTick, ChainStutter
          DEF Next, WriterStep

LEMMA ChainSafe ==
  ASSUME TypeInv, ChainInv PROVE NoTornFrame /\ NoOverrun /\ NextPageReady /\ WriterAtEnd
  <1>1. NoTornFrame
    <2> SUFFICES ASSUME NEW r \in Readers, pc[r] = "next"
                 PROVE  \/ Frame(r).msg_type = PageEnd
                        \/ /\ Frame(r).msg_type = Data /\ Frame(r).id \in 1 .. written
                           /\ Frame(r).gen_time > 0
      BY DEF NoTornFrame
    <2>1. r \in Procs /\ pc[r] \in Cursored BY DEF Procs, Cursored
    <2>2. CursorOK(r) BY <2>1 DEF ChainInv, CursorInv
    <2>3. /\ page[r] \in Pages /\ addr[r] \in Offsets /\ IsHead(page[r], addr[r])
          /\ has_data(Frame(r))
      BY <2>1, <2>2, CursorType DEF CursorOK, TypeInv, Ranges
    <2>4. HeadInv BY DEF ChainInv
    <2>5. Frame(r).msg_type = PageEnd \/ Frame(r).msg_type = Data
      BY <2>3, <2>4, HeadFacts DEF Frame
    <2> QED BY <2>3, <2>4, <2>5 DEF HeadInv, Frame, has_data
  <1>2. NoOverrun BY DEF NoOverrun, ChainInv, CursorInv, CursorOK
  <1>3. NextPageReady BY DEF NextPageReady, ChainInv, CursorInv, CursorOK, Procs
  <1>4. WriterAtEnd BY DEF WriterAtEnd, ChainInv, WriterInv, Writing, has_data
  <1> QED BY <1>1, <1>2, <1>3, <1>4

\* The page chain survives crashes: whatever the page size, the data lengths (as
\* long as a frame fits an empty page), the readers and the crashes, headers,
\* heads, cursors and the frame being written by writer.cpp fit together.
THEOREM ChainCorrect == ASSUME Sane PROVE Spec => []ChainInv
  <1>1. Init => TypeInv /\ ChainInv BY TypeInit, ChainInit
  <1>2. TypeInv /\ ChainInv /\ [Next]_vars => (TypeInv /\ ChainInv)' BY TypeNext, ChainNext
  <1> QED BY <1>1, <1>2, PTL DEF Spec

LEMMA SafeAlways ==
  ASSUME Sane
  PROVE  Spec => [](NoTornFrame /\ NoOverrun /\ NextPageReady /\ WriterAtEnd)
  <1>1. Spec => []TypeInv BY TypeInit, TypeNext, PTL DEF Spec
  <1> QED BY <1>1, ChainCorrect, ChainSafe, PTL

\* No reader is handed a half-written frame: has_data() turns true only when the
\* body, the type and gen_time are there, also after a crash inside close_frame.
THEOREM NeverTorn == ASSUME Sane PROVE Spec => []NoTornFrame
  BY SafeAlways, PTL

\* No process looks at or stores to an address outside its page: the border tests
\* of open_frame leave room for the next header and for PageEnd.
THEOREM NeverOverrun == ASSUME Sane PROVE Spec => []NoOverrun
  BY SafeAlways, PTL

\* A reader that met PageEnd finds the next page created, stretched and with its
\* header, although close_page may be cut off by a crash at any store.
THEOREM PagesReady == ASSUME Sane PROVE Spec => []NextPageReady
  BY SafeAlways, PTL

\* A restarted writer::writer seeks to a frame nothing was published in.
THEOREM WriterFindsEnd == ASSUME Sane PROVE Spec => []WriterAtEnd
  BY SafeAlways, PTL

----------------------------------------------------------------------------
(* Published frames are never stored to again, and the page chain keeps what *)
(* JournalLog promises, as long as the writer does not crash and readers map *)
(* their pages read-only.                                                    *)

\* A crash between the stores of close_frame and set_last_frame_position, and a reader
\* that maps pages read-write, let PageEnd overwrite a frame (writer.cpp:58, page.cpp:36).
Calm == Sane /\ MaxCrash = 0 /\ LowLatency = {}

----------------------------------------------------------------------------
(* the invariant of the numbered log *)

\* Positions are numbered by the frames that stand, or will stand, on them.
NumInv ==
  /\ \A p \in Pages, o \in Offsets : IsHead(p, o) /\ Published(mem[p][o]) =>
       IF mem[p][o].msg_type = Data
       THEN /\ mem[p][o].id = num[p][o]
            /\ num[p][o + mem[p][o].length] = num[p][o] + 1
       ELSE /\ num[p + 1][first_frame_address] = num[p][o]
            /\ mem[p][o].gen_time > 0
  /\ lfp[1] # 0 => num[1][first_frame_address] = 1

\* Nothing has been written before the writer's constructor is through.
StartInv ==
  /\ pc[Writer] = "down" \/ Seeking =>
       /\ written = 0
       /\ \A p \in Pages : /\ lfp[p] \in {0, first_frame_address} /\ (p # 1 => lfp[p] = 0)
                           /\ \A o \in Offsets : mem[p][o] = Zero
  /\ pc[Writer] \in {"down", "list"} => PageFiles = {}
  /\ pc[Writer] \notin {"scan_size", "scan_time", "size"}
  /\ Seeking /\ pc[Writer] \in Loading => want[Writer] = 1
  /\ pc[Writer] \in {"full", "walk"} => addr[Writer] = first_frame_address

Stored == pc[Writer] = "store" /\ todo = {}

\* The writer numbers its frames in order, and last_frame_position leads to where it stands.
EndInv ==
  /\ (pc[Writer] \in Writing /\ ~Stored) \/ Rolling =>
       /\ num[page[Writer]][addr[Writer]] = written + 1
       /\ lfp[page[Writer]] + mem[page[Writer]][lfp[page[Writer]]].length = addr[Writer]
  /\ Rolling => Frame(Writer).length = 0
  /\ Stored => num[page[Writer]][NextAddress] = written + 1
  /\ pc[Writer] \in Writing \/ Rolling =>
       \A o \in Offsets : o > addr[Writer] => ~Published(mem[page[Writer]][o])
  /\ pc[Writer] \in Ending =>
       /\ num[page[Writer]][addr[Writer]] = written + 1
       /\ \A o \in Offsets : ~Published(mem[page[Writer]][o])
       /\ lfp[page[Writer]] = first_frame_address
  /\ pc[Writer] = "end_head" =>
       /\ IsHead(LastPage, EndAddress)
       /\ num[LastPage][EndAddress] = written + 1
       /\ mem[LastPage][EndAddress].length = 0
  /\ pc[Writer] \in Ending \ {"end_head"} => num[LastPage][endAt] = written + 1
  /\ pc[Writer] \in {"end_time", "end_length"} => mem[LastPage][endAt].length = 0
  /\ pc[Writer] = "end_length" => mem[LastPage][endAt].gen_time > 0

\* n is the number of a frame that may be handed to r next.
Follows(r, n) == IF got[r] # << >> THEN n = got[r][Len(got[r])] + 1 ELSE time[r] = 0 => n = 1

\* Where a reader stands, it is handed the frame behind the last one it was handed.
ReadOK(r) ==
  /\ pc[r] \notin {"open", "stretch", "init"}
  /\ pc[r] \in {"down", "list", "scan_size", "scan_time", "full", "walk"}
        \/ (pc[r] \in Loading /\ cont[r] # "read")
     => got[r] = << >>
  /\ time[r] = 0 =>
       /\ pc[r] \notin {"scan_size", "scan_time"}
       /\ pc[r] \in Loading /\ cont[r] # "read" => want[r] = 1
       /\ pc[r] \in {"full", "walk"} => page[r] = 1 /\ addr[r] = first_frame_address
  /\ pc[r] \in Loading /\ cont[r] = "read" => Follows(r, num[want[r]][first_frame_address])
  /\ pc[r] = "read" => Follows(r, num[page[r]][addr[r]])
  /\ pc[r] = "next" =>
       IF Frame(r).msg_type = PageEnd THEN Follows(r, num[page[r]][addr[r]])
       ELSE got[r] # << >> /\ got[r][Len(got[r])] = num[page[r]][addr[r]]

ReadInv == \A r \in Readers : ReadOK(r)

LogInv == NumInv /\ StartInv /\ EndInv /\ ReadInv

\* What a step may not do: store to a published frame, or renumber a position.
Appends ==
  /\ \A p \in Pages, o \in Offsets : Published(mem[p][o]) => mem'[p][o] = mem[p][o]
  /\ \A p \in Pages, o \in Offsets : IsHead(p, o) => num'[p][o] = num[p][o]

LogStep == LogInv' /\ Appends

----------------------------------------------------------------------------
(* What a step leaves alone. *)

LEMMA AppendsSame == ASSUME UNCHANGED <<shared, num>> PROVE Appends
  BY DEF Appends, shared

\* A frame that a process may be handed is published.
LEMMA DataOnHead ==
  ASSUME TypeInv, HeadInv, NEW p \in Pages, NEW o \in Offsets, IsHead(p, o)
  PROVE  /\ has_data(mem[p][o]) <=> Published(mem[p][o])
         /\ Published(mem[p][o]) <=> mem[p][o].length > 0
         /\ Published(mem[p][o]) => mem[p][o].msg_type \in {Data, PageEnd}
  <1>1. mem[p][o].length \in Nat /\ mem[p][o].msg_type \in {NoMsg, Data, PageEnd, Junk}
    BY HeaderType DEF TypeInv
  <1>2. mem[p][o].msg_type # Junk /\ (mem[p][o].length > 0 => mem[p][o].msg_type # NoMsg)
    BY DEF HeadInv
  <1> QED BY <1>1, <1>2 DEF has_data, Published, NoMsg, Data, PageEnd, Junk

\* A reader that does not move keeps its place.
LEMMA ReadSame ==
  ASSUME TypeInv, ChainInv, NEW r \in Readers, ReadOK(r), SameProc(r), got'[r] = got[r], Appends
  PROVE  ReadOK(r)'
  <1>1. /\ want[r] \in Pages /\ addr[r] \in Offsets /\ first_frame_address \in Offsets
        /\ pc[r] \in Cursored => page[r] \in Pages /\ IsHead(page[r], addr[r])
        /\ CursorOK(r)
    BY ReaderFacts, FirstOffset
  <1>2. HeadInv /\ PageInv BY DEF ChainInv
  <1>3. pc[r] \in Loading /\ cont[r] = "read" => IsHead(want[r], first_frame_address)
    BY <1>1, <1>2 DEF CursorOK, PageInv
  <1>4. pc[r] \in Loading /\ cont[r] = "read" =>
          num'[want[r]][first_frame_address] = num[want[r]][first_frame_address]
    BY <1>1, <1>3 DEF Appends
  <1>5. pc[r] \in {"read", "next"} => num'[page[r]][addr[r]] = num[page[r]][addr[r]]
    BY <1>1 DEF Appends, Cursored
  <1>6. pc[r] = "next" => Frame(r)' = Frame(r)
    BY <1>1, <1>2, DataOnHead DEF Appends, Cursored, CursorOK, Frame, SameProc
  <1> QED BY <1>4, <1>5, <1>6 DEF ReadOK, SameProc, Follows

LEMMA ReadersSame ==
  ASSUME TypeInv, ChainInv, ReadInv, UNCHANGED got, Appends,
         \A r \in Readers : SameProc(r)
  PROVE  ReadInv'
  BY ReadSame DEF ReadInv

LEMMA NumSame == ASSUME NumInv, UNCHANGED <<shared, num>> PROVE NumInv'
  BY DEF NumInv, shared, IsHead

\* A step of a reader leaves the writer's part alone.
LEMMA WriterIdle ==
  ASSUME LogInv, SameProc(Writer), UNCHANGED <<shared, num, written, local>>
  PROVE  NumInv' /\ StartInv' /\ EndInv'
  <1> USE DEF LogInv, SameProc, shared, local
  <1>1. NumInv' BY NumSame
  <1>2. StartInv' BY DEF StartInv, Seeking, PageFiles
  <1>3. EndInv'
    BY DEF EndInv, Stored, Rolling, NextAddress, LastPage, EndAddress, IsHead, Frame
  <1> QED BY <1>1, <1>2, <1>3

\* A step of a reader that keeps its place.
LEMMA ReaderLog ==
  ASSUME TypeInv, ChainInv, LogInv, NEW r \in Readers, Others(r), ReadOK(r)',
         UNCHANGED <<shared, num, written, local>>,
         \A x \in Readers \ {r} : got'[x] = got[x]
  PROVE  LogStep
  <1>1. r \in Procs /\ SameProc(Writer) /\ \A x \in Readers \ {r} : SameProc(x)
    BY DEF Procs, Others
  <1>2. Appends BY AppendsSame
  <1>3. \A x \in Readers : ReadOK(x) BY DEF LogInv, ReadInv
  <1>4. \A x \in Readers \ {r} : ReadOK(x)' BY <1>1, <1>2, <1>3, ReadSame
  <1> QED BY <1>1, <1>2, <1>4, WriterIdle DEF LogInv, ReadInv, LogStep

----------------------------------------------------------------------------
(* Readers. *)

LEMMA CalmReader ==
  ASSUME Calm, NEW r \in Readers PROVE ~Master(r) /\ LoadStep(r) = "size"
  BY DEF Calm, LoadStep, Master

\* page::load for a reader that has been handed nothing yet
LEMMA LoadRead ==
  ASSUME Calm, TypeInv, NEW r \in Readers, NEW p \in Pages, NEW l \in {"full", "walk"},
         Load(r, p, l), got'[r] = << >>, time'[r] = 0 => p = 1
  PROVE  ReadOK(r)'
  <1>1. r \in Procs /\ l \in Conts BY DEF Procs, Conts
  <1>2. pc'[r] = "size" /\ want'[r] = p /\ cont'[r] = l
    BY <1>1, LoadType, CalmReader DEF TypeInv, TypeOK, Load, Goto
  <1> QED BY <1>2 DEF ReadOK

LEMMA LogListPages ==
  ASSUME Calm, TypeInv, ChainInv, LogInv, NEW r \in Readers, ListPages(r) PROVE LogStep
  <1> USE ReaderFacts
  <1>0. ReadOK(r) /\ got[r] = << >> BY DEF LogInv, ReadInv, ReadOK, ListPages
  <1>1. UNCHANGED <<shared, num, written, local, got, page, addr, time>>
    BY DEF ListPages, ghost
  <1>2. CASE PageFiles = {} \/ time[r] = 0
    <2>1. Load(r, 1, "full") BY <1>2 DEF ListPages
    <2>2. Moves(r) BY <2>1, LoadMoves
    <2>3. ReadOK(r)' BY <1>0, <1>1, <2>1, LoadRead
    <2> QED BY <1>1, <2>2, <2>3, OthersMove, ReaderLog
  <1>3. CASE ~(PageFiles = {} \/ time[r] = 0)
    <2>1. PICK p \in PageFiles : want' = [want EXCEPT ![r] = p]
      BY <1>3 DEF ListPages
    <2>2. Goto(r, "scan_size") /\ UNCHANGED cont BY <1>3 DEF ListPages
    <2>3. Moves(r) /\ pc'[r] = "scan_size"
      BY <2>1, <2>2, GotoType DEF Moves, TypeOK, Conts, PageFiles, Labels
    <2>4. ReadOK(r)' BY <1>0, <1>1, <1>3, <2>3 DEF ReadOK, Loading
    <2> QED BY <1>1, <2>3, <2>4, OthersMove, ReaderLog
  <1> QED BY <1>2, <1>3

LEMMA LogScanOn ==
  ASSUME Calm, TypeInv, ChainInv, LogInv, NEW r \in Readers, pc[r] \in {"scan_size", "scan_time"},
         ScanOn(r), UNCHANGED <<shared, num, written, local, got, page, addr, time>>
  PROVE  LogStep
  <1> USE ReaderFacts
  <1>0. ReadOK(r) /\ got[r] = << >> /\ time[r] # 0 BY DEF LogInv, ReadInv, ReadOK
  <1>1. Moves(r) BY ScanOnMoves
  <1>2. CASE want[r] > 1
    <2>1. Goto(r, "scan_size") BY <1>2 DEF ScanOn
    <2>2. pc'[r] = "scan_size" BY <2>1, GotoType DEF Labels
    <2>3. ReadOK(r)' BY <1>0, <2>2 DEF ReadOK, Loading
    <2> QED BY <1>1, <2>3, OthersMove, ReaderLog
  <1>3. CASE ~(want[r] > 1)
    <2>1. Load(r, 1, "full") BY <1>3 DEF ScanOn
    <2>2. ReadOK(r)' BY <1>0, <2>1, LoadRead
    <2> QED BY <1>1, <2>2, OthersMove, ReaderLog
  <1> QED BY <1>2, <1>3

LEMMA LogScanSize ==
  ASSUME Calm, TypeInv, ChainInv, LogInv, NEW r \in Readers, ScanSize(r) PROVE LogStep
  <1> USE ReaderFacts
  <1>0. ReadOK(r) /\ got[r] = << >> /\ time[r] # 0 BY DEF LogInv, ReadInv, ReadOK, ScanSize
  <1>1. UNCHANGED <<shared, num, written, local, got, page, addr, time>>
    BY DEF ScanSize, ghost
  <1>2. CASE fsize[want[r]] < PageHeader
    BY <1>1, <1>2, LogScanOn DEF ScanSize
  <1>3. CASE ~(fsize[want[r]] < PageHeader)
    <2>1. Moves(r) /\ pc'[r] = "scan_time" BY <1>3, GotoMoves DEF ScanSize, Labels
    <2>2. ReadOK(r)' BY <1>0, <1>1, <2>1 DEF ReadOK, Loading
    <2> QED BY <1>1, <2>1, <2>2, OthersMove, ReaderLog
  <1> QED BY <1>2, <1>3

LEMMA LogScanTime ==
  ASSUME Calm, TypeInv, ChainInv, LogInv, NEW r \in Readers, ScanTime(r) PROVE LogStep
  <1> USE ReaderFacts
  <1>0. ReadOK(r) /\ got[r] = << >> /\ time[r] # 0 BY DEF LogInv, ReadInv, ReadOK, ScanTime
  <1>1. UNCHANGED <<shared, num, written, local, got, page, addr, time>>
    BY DEF ScanTime, ghost
  <1>2. CASE lfp[want[r]] = 0
    <2>1. Moves(r) /\ pc'[r] = "segv" BY <1>2, GotoMoves DEF ScanTime, Labels
    <2>2. ReadOK(r)' BY <2>1 DEF ReadOK, Loading
    <2> QED BY <1>1, <2>1, <2>2, OthersMove, ReaderLog
  <1>3. CASE lfp[want[r]] # 0 /\ begin_time(want[r]) < time[r]
    <2>1. Load(r, want[r], "full") BY <1>3 DEF ScanTime
    <2>2. Moves(r) BY <2>1, LoadMoves
    <2>3. ReadOK(r)' BY <1>0, <1>1, <2>1, LoadRead
    <2> QED BY <1>1, <2>2, <2>3, OthersMove, ReaderLog
  <1>4. CASE lfp[want[r]] # 0 /\ ~(begin_time(want[r]) < time[r])
    BY <1>1, <1>4, LogScanOn DEF ScanTime
  <1> QED BY <1>2, <1>3, <1>4

LEMMA LogLoadSize ==
  ASSUME Calm, TypeInv, ChainInv, LogInv, NEW r \in Readers, LoadSize(r) PROVE LogStep
  <1> USE ReaderFacts
  <1>1. /\ Moves(r) /\ UNCHANGED <<shared, num, written, local, got, page, addr, time, want, cont>>
        /\ pc'[r] \in {"failed", "check"}
    BY GotoMoves DEF LoadSize, Labels, ghost
  <1>2. ReadOK(r) /\ pc[r] = "size" BY DEF LogInv, ReadInv, LoadSize
  <1>3. ReadOK(r)' BY <1>1, <1>2 DEF ReadOK, Loading, Follows
  <1> QED BY <1>1, <1>3, OthersMove, ReaderLog

LEMMA LogLoadCheck ==
  ASSUME Calm, TypeInv, ChainInv, LogInv, NEW r \in Readers, LoadCheck(r) PROVE LogStep
  <1> USE ReaderFacts
  <1>1. /\ UNCHANGED <<shared, num, written, local, got, time, want, cont>>
        /\ ReadOK(r) /\ pc[r] = "check" /\ cont[r] \in {"full", "walk", "read"}
    BY DEF LoadCheck, ghost, LogInv, ReadInv, TypeInv, Ranges, TypeOK
  <1>2. CASE lfp[want[r]] # 0
    <2>1. Loaded(r) BY <1>2 DEF LoadCheck
    <2>2. IsHead(want[r], first_frame_address)' /\ lfp'[want[r]] # 0
      BY <1>1, <1>2 DEF ChainInv, PageInv, shared, IsHead
    <2>3. /\ Others(r) /\ pc'[r] = cont[r]
          /\ page'[r] = want[r] /\ addr'[r] = first_frame_address
      BY <1>1, <2>1, <2>2, LoadedCursor
    <2>4. ReadOK(r)' BY <1>1, <2>3 DEF ReadOK, Loading, Follows
    <2> QED BY <1>1, <2>3, <2>4, ReaderLog
  <1>3. CASE lfp[want[r]] = 0
    <2>1. Moves(r) /\ UNCHANGED <<page, addr>> /\ pc'[r] = "segv"
      BY <1>3, GotoMoves DEF LoadCheck, Labels, Calm, Master
    <2>2. ReadOK(r)' BY <2>1 DEF ReadOK, Loading
    <2> QED BY <1>1, <2>1, <2>2, OthersMove, ReaderLog
  <1> QED BY <1>2, <1>3

\* Every frame on a head has its gen_time, so a seek from time 0 passes none.
LEMMA HeadTimed ==
  ASSUME TypeInv, ChainInv, NumInv, NEW p \in Pages, NEW o \in Offsets, IsHead(p, o),
         has_data(mem[p][o])
  PROVE  mem[p][o].gen_time \in Nat /\ mem[p][o].gen_time > 0
  <1>1. HeadInv /\ mem[p][o].gen_time \in Nat BY HeaderType DEF ChainInv, TypeInv
  <1>2. Published(mem[p][o]) /\ mem[p][o].length > 0 /\ mem[p][o].msg_type \in {Data, PageEnd}
    BY <1>1, DataOnHead
  <1>3. CASE mem[p][o].msg_type = Data BY <1>1, <1>2, <1>3 DEF HeadInv
  <1>4. CASE mem[p][o].msg_type = PageEnd BY <1>1, <1>2, <1>4 DEF NumInv, Data, PageEnd
  <1> QED BY <1>2, <1>3, <1>4

LEMMA FullTimed ==
  ASSUME TypeInv, ChainInv, NumInv, NEW p \in Pages, lfp[p] # 0, is_full(p)
  PROVE  end_time(p) \in Nat /\ end_time(p) > 0
  <1>1. lfp[p] \in Offsets /\ IsHead(p, lfp[p]) BY DEF TypeInv, TypeOK, ChainInv, PageInv
  <1>2. lfp[p] + mem[p][lfp[p]].length > address_border BY DEF is_full
  <1>3. mem[p][lfp[p]].length \in Nat BY <1>1, HeaderType DEF TypeInv
  <1>4. address_border \in Int /\ lfp[p] \in Int BY <1>1, FirstOffset DEF Offsets
  <1>5. has_data(mem[p][lfp[p]])
    BY <1>1, <1>2, <1>3, <1>4, HeadFacts DEF ChainInv
  <1> QED BY <1>1, <1>5, HeadTimed DEF end_time

LEMMA LogSeekPage ==
  ASSUME Calm, TypeInv, ChainInv, LogInv, NEW r \in Readers, SeekPage(r) PROVE LogStep
  <1> USE ReaderFacts
  <1>0. /\ ReadOK(r) /\ got[r] = << >> /\ NumInv /\ page[r] \in Pages /\ lfp[page[r]] # 0
        /\ time[r] = 0 => page[r] = 1 /\ addr[r] = first_frame_address
    BY DEF LogInv, ReadInv, ReadOK, SeekPage, Cursored
  <1>1. UNCHANGED <<shared, num, written, local, got, page, addr, time>>
    BY DEF SeekPage, ghost
  <1>2. CASE is_full(page[r]) /\ end_time(page[r]) <= time[r]
    <2>1. Load(r, page[r] + 1, "full") BY <1>2 DEF SeekPage
    <2>2. page[r] + 1 \in Pages BY <1>0, <1>2, FullFacts DEF ChainInv
    <2>3. Moves(r) BY <2>1, <2>2, LoadMoves
    <2>4. time[r] # 0 BY <1>0, <1>2, FullTimed
    <2>5. ReadOK(r)' BY <1>0, <1>1, <2>1, <2>2, <2>4, LoadRead
    <2> QED BY <1>1, <2>3, <2>5, OthersMove, ReaderLog
  <1>3. CASE ~(is_full(page[r]) /\ end_time(page[r]) <= time[r])
    <2>1. Moves(r) /\ pc'[r] = "walk" BY <1>3, GotoMoves DEF SeekPage, Labels
    <2>2. ReadOK(r)' BY <1>0, <1>1, <2>1 DEF ReadOK, Loading
    <2> QED BY <1>1, <2>1, <2>2, OthersMove, ReaderLog
  <1> QED BY <1>2, <1>3

\* The first frame of page 1 is number 1.
LEMMA LogSeekFrame ==
  ASSUME Calm, TypeInv, ChainInv, LogInv, NEW r \in Readers, SeekFrame(r) PROVE LogStep
  <1> USE ReaderFacts
  <1>0. /\ ReadOK(r) /\ got[r] = << >> /\ NumInv /\ page[r] \in Pages /\ lfp[page[r]] # 0
        /\ time[r] = 0 => page[r] = 1 /\ addr[r] = first_frame_address
        /\ pc[r] \in Cursored /\ IsHead(page[r], addr[r]) /\ cont[r] # "read"
    BY DEF LogInv, ReadInv, ReadOK, SeekFrame, Cursored, CursorOK
  <1>1. UNCHANGED <<shared, num, written, local, got, page, time>>
    BY DEF SeekFrame, ghost
  <1>2. CASE Passes(r)
    <2>1. Next_(r, "walk") /\ has_data(Frame(r)) /\ Frame(r).gen_time <= time[r]
      BY <1>2 DEF SeekFrame, Passes
    <2>2. time[r] # 0 BY <1>0, <2>1, HeadTimed DEF Frame
    <2>3. /\ Others(r)
          /\ \/ pc'[r] = "walk"
             \/ pc'[r] \in {"size", "open"} /\ want'[r] = page[r] + 1 /\ cont'[r] = "walk"
      BY <1>0, <1>1, <2>1, NextCursor
    <2>4. pc'[r] \in {"walk", "size"}
      <3>1. CASE Frame(r).msg_type = PageEnd
        BY <2>1, <3>1, CalmReader DEF Next_, Load, Goto, TypeOK
      <3>2. CASE Frame(r).msg_type # PageEnd
        BY <2>1, <2>3, <3>2 DEF Next_, Goto, TypeOK
      <3> QED BY <3>1, <3>2
    <2>5. ReadOK(r)' BY <1>0, <1>1, <2>2, <2>3, <2>4 DEF ReadOK, Loading
    <2> QED BY <1>1, <2>3, <2>5, ReaderLog
  <1>3. CASE ~Passes(r)
    <2>1. Moves(r) /\ pc'[r] = "read" /\ UNCHANGED addr BY <1>3, GotoMoves DEF SeekFrame, Labels
    <2>2. ReadOK(r)' BY <1>0, <1>1, <2>1 DEF ReadOK, Loading, Follows, NumInv
    <2> QED BY <1>1, <2>1, <2>2, OthersMove, ReaderLog
  <1> QED BY <1>2, <1>3

\* The next frame is numbered one higher, and PageEnd takes the number of the first frame
\* of the next page.
LEMMA LogAdvance ==
  ASSUME Calm, TypeInv, ChainInv, LogInv, NEW r \in Readers, Advance(r) PROVE LogStep
  <1> USE ReaderFacts
  <1>0. /\ ReadOK(r) /\ pc[r] = "next" /\ NumInv /\ page[r] \in Pages /\ lfp[page[r]] # 0
        /\ pc[r] \in Cursored /\ IsHead(page[r], addr[r]) /\ has_data(Frame(r))
    BY DEF LogInv, ReadInv, Advance, Cursored, CursorOK
  <1>1. UNCHANGED <<shared, num, written, local, got, page, time>> /\ Next_(r, "read")
    BY DEF Advance, ghost
  <1>2. Published(Frame(r)) /\ Frame(r).msg_type \in {Data, PageEnd}
    BY <1>0, DataOnHead DEF ChainInv, Frame
  <1>3. Others(r) BY <1>0, <1>1, NextCursor
  <1>4. CASE Frame(r).msg_type = PageEnd
    <2>1. Load(r, page[r] + 1, "read") BY <1>1, <1>4 DEF Next_
    <2>2. page[r] + 1 \in Pages BY <1>0, <1>4, HeadFacts DEF ChainInv, Frame
    <2>3. pc'[r] = "size" /\ want'[r] = page[r] + 1 /\ cont'[r] = "read"
      BY <2>1, <2>2, CalmReader DEF Load, Goto, TypeOK
    <2>4. Follows(r, num[page[r]][addr[r]]) BY <1>0, <1>4 DEF ReadOK
    <2>5. num[page[r] + 1][first_frame_address] = num[page[r]][addr[r]]
      BY <1>0, <1>2, <1>4 DEF NumInv, Frame, Data, PageEnd
    <2>6. ReadOK(r)' BY <1>1, <2>3, <2>4, <2>5 DEF ReadOK, Loading, Follows
    <2> QED BY <1>1, <1>3, <2>6, ReaderLog
  <1>5. CASE Frame(r).msg_type = Data
    <2>1. Frame(r).msg_type # PageEnd BY <1>5 DEF Data, PageEnd
    <2>2. InPage(addr[r] + Frame(r).length) BY <1>0, <2>1, HeadFacts DEF ChainInv, Frame
    <2>3. pc'[r] = "read" /\ addr'[r] = addr[r] + Frame(r).length
      BY <1>1, <2>1, <2>2 DEF Next_, Goto, TypeOK
    <2>4. num[page[r]][addr[r] + Frame(r).length] = num[page[r]][addr[r]] + 1
      BY <1>0, <1>2, <1>5 DEF NumInv, Frame
    <2>5. got[r] # << >> /\ got[r][Len(got[r])] = num[page[r]][addr[r]]
      BY <1>0, <2>1 DEF ReadOK
    <2>6. ReadOK(r)' BY <1>1, <2>3, <2>4, <2>5 DEF ReadOK, Loading, Follows
    <2> QED BY <1>1, <1>3, <2>6, ReaderLog
  <1> QED BY <1>2, <1>4, <1>5

\* What is handed to r is the frame it is due.
LEMMA Handed ==
  ASSUME TypeInv, ChainInv, LogInv, NEW r \in Readers, Deliver(r), Frame(r).msg_type # PageEnd
  PROVE  /\ Frame(r).id = num[page[r]][addr[r]] /\ Follows(r, Frame(r).id)
         /\ Frame(r).id \in 1 .. written
  <1> USE ReaderFacts
  <1>1. /\ ReadOK(r) /\ pc[r] = "read" /\ NumInv /\ HeadInv /\ page[r] \in Pages
        /\ IsHead(page[r], addr[r]) /\ has_data(Frame(r))
    BY DEF LogInv, ReadInv, ChainInv, Deliver, Cursored
  <1>2. Published(Frame(r)) /\ Frame(r).msg_type = Data /\ Frame(r).length > 0
    BY <1>1, DataOnHead DEF Frame
  <1> QED BY <1>1, <1>2 DEF NumInv, HeadInv, ReadOK, Frame

LEMMA LogDeliver ==
  ASSUME Calm, TypeInv, ChainInv, LogInv, NEW r \in Readers, Deliver(r) PROVE LogStep
  <1> USE ReaderFacts
  <1>1. /\ UNCHANGED <<shared, num, written, local, page, addr, time, want, cont>>
        /\ Moves(r) /\ pc'[r] = "next" /\ got[r] \in Seq(Nat)
    BY GotoMoves DEF Deliver, Labels, TypeOK
  <1>2. Frame(r)' = Frame(r) BY <1>1 DEF Frame, shared
  <1>3. CASE Frame(r).msg_type = PageEnd
    <2>1. UNCHANGED got BY <1>3 DEF Deliver
    <2>2. ReadOK(r) /\ pc[r] = "read" BY DEF LogInv, ReadInv, Deliver
    <2>3. ReadOK(r)' BY <1>1, <1>2, <1>3, <2>1, <2>2 DEF ReadOK, Loading, Follows
    <2> QED BY <1>1, <2>1, <2>3, OthersMove, ReaderLog
  <1>4. CASE Frame(r).msg_type # PageEnd
    <2>1. got' = [got EXCEPT ![r] = Append(got[r], Frame(r).id)] BY <1>4 DEF Deliver
    <2>2. got'[r] = Append(got[r], Frame(r).id) /\ \A x \in Readers \ {r} : got'[x] = got[x]
      BY <2>1 DEF TypeOK
    <2>3. Frame(r).id \in Nat
      <3>1. Frame(r).id \in 1 .. written BY <1>4, Handed
      <3> QED BY <3>1 DEF TypeOK
    <2>4. got'[r] # << >> /\ got'[r][Len(got'[r])] = Frame(r).id BY <1>1, <2>2, <2>3
    <2>5. Frame(r).id = num[page[r]][addr[r]] BY <1>4, Handed
    <2>6. ReadOK(r)' BY <1>1, <1>2, <1>4, <2>4, <2>5 DEF ReadOK, Loading
    <2> QED BY <1>1, <2>2, <2>6, OthersMove, ReaderLog
  <1> QED BY <1>3, <1>4

LEMMA LogJoin ==
  ASSUME Calm, TypeInv, ChainInv, LogInv, NEW r \in Readers, NEW t \in 0 .. now, Join(r, t)
  PROVE  LogStep
  <1> USE ReaderFacts
  <1>0. Moves(r) /\ pc'[r] = "list" /\ UNCHANGED <<want, cont, page, addr>>
    BY GotoMoves DEF Join, Labels
  <1>1. /\ UNCHANGED <<shared, num, written, local, got, page, addr, want, cont>>
        /\ Moves(r) /\ pc'[r] = "list" /\ \A x \in Procs \ {r} : time'[x] = time[x]
    BY <1>0 DEF Join, ghost, TypeOK
  <1>2. got[r] = << >> BY DEF LogInv, ReadInv, ReadOK, Join
  <1>3. ReadOK(r)' BY <1>1, <1>2 DEF ReadOK, Loading
  <1>4. Others(r) BY <1>1 DEF Others, SameProc, Moves
  <1> QED BY <1>1, <1>3, <1>4, ReaderLog

LEMMA LogReader ==
  ASSUME Calm, TypeInv, ChainInv, LogInv, NEW r \in Readers, ReaderStep(r) PROVE LogStep
  <1>1. pc[r] \notin {"open", "stretch", "init"} BY DEF LogInv, ReadInv, ReadOK
  <1> QED BY <1>1, LogListPages, LogScanSize, LogScanTime, LogSeekPage, LogSeekFrame, LogLoadSize,
             LogLoadCheck, LogDeliver, LogAdvance
          DEF ReaderStep, JournalStep, LoadStep_, SeekStep, LoadOpen, LoadStretch, LoadInit

----------------------------------------------------------------------------
(* The writer: its constructor, and page::load for the next page. *)

LEMMA LogWriter ==
  ASSUME TypeInv, ChainInv, LogInv, Others(Writer), UNCHANGED got, Appends,
         NumInv', StartInv', EndInv'
  PROVE  LogStep
  <1>1. \A r \in Readers : SameProc(r) BY WriterProc DEF Others, Procs
  <1> QED BY <1>1, ReadersSame DEF LogInv, LogStep

\* the writer's own steps while nothing has been written
Blank ==
  /\ written = 0
  /\ \A p \in Pages : /\ lfp[p] \in {0, first_frame_address} /\ (p # 1 => lfp[p] = 0)
                      /\ \A o \in Offsets : mem[p][o] = Zero

LEMMA BlankFacts ==
  ASSUME LogInv, pc[Writer] = "down" \/ Seeking PROVE Blank
  BY DEF LogInv, StartInv, Blank

LEMMA BlankSame == ASSUME Blank, UNCHANGED <<shared, written>> PROVE Blank'
  BY DEF Blank, shared, first_frame_address

\* a step of the constructor that only moves it
LEMMA SeekLog ==
  ASSUME TypeInv, ChainInv, LogInv, Others(Writer), pc[Writer] = "down" \/ Seeking,
         UNCHANGED <<shared, num, written, got>>,
         pc'[Writer] \in {"list", "full", "walk"} \cup (Loading \ {"size"}),
         pc'[Writer] = "list" => PageFiles = {},
         pc'[Writer] \in Loading => want'[Writer] = 1 /\ cont'[Writer] # "end_head",
         pc'[Writer] \in {"full", "walk"} => addr'[Writer] = first_frame_address
  PROVE  LogStep
  <1>1. Blank' BY BlankFacts, BlankSame
  <1>2. NumInv' BY NumSame DEF LogInv
  <1>3. PageFiles' = PageFiles BY DEF PageFiles, shared
  <1>4. StartInv' BY <1>1, <1>3 DEF StartInv, Blank, Seeking, Loading, first_frame_address
  <1>5. EndInv' BY DEF EndInv, Stored, Rolling, Writing, Ending, Loading
  <1> QED BY <1>2, <1>4, <1>5, AppendsSame, LogWriter

LEMMA LogStart ==
  ASSUME TypeInv, ChainInv, LogInv, NEW s \in 0 .. MaxSkew, Start(s) PROVE LogStep
  <1> USE WriterFacts
  <1>1. /\ Moves(Writer) /\ pc'[Writer] = "list" /\ UNCHANGED <<page, addr, want, cont>>
    BY GotoMoves DEF Start, Labels
  <1>2. Others(Writer) BY <1>1 DEF Others, SameProc, Moves, Start, SeekTime, TypeOK
  <1>3. PageFiles = {} BY DEF LogInv, StartInv, Start
  <1> QED BY <1>1, <1>2, <1>3, SeekLog DEF Start, ghost, Loading

LEMMA CalmWriter == LoadStep(Writer) = "open" /\ Master(Writer)
  BY DEF LoadStep, Master

LEMMA LogWriterList ==
  ASSUME TypeInv, ChainInv, LogInv, ListPages(Writer) PROVE LogStep
  <1> USE WriterFacts
  <1>1. PageFiles = {} /\ pc[Writer] = "list" /\ Seeking
    BY DEF LogInv, StartInv, ListPages, Seeking
  <1>2. Load(Writer, 1, "full") BY <1>1 DEF ListPages
  <1>3. Moves(Writer) /\ want'[Writer] = 1 /\ cont'[Writer] = "full"
    BY <1>2, LoadMoves
  <1>4. pc'[Writer] = "open" BY <1>2, CalmWriter DEF Load, Goto, TypeOK
  <1>5. Others(Writer) BY <1>3, OthersMove DEF ListPages
  <1> QED BY <1>1, <1>3, <1>4, <1>5, SeekLog DEF ListPages, ghost, Loading

\* the file of the page is created and stretched
LEMMA LogFile ==
  ASSUME TypeInv, ChainInv, LogInv, LoadOpen(Writer) \/ LoadStretch(Writer) PROVE LogStep
  <1> USE WriterFacts
  <1>1. /\ UNCHANGED <<lfp, mem, page, addr, want, cont, time, num, written, got>>
        /\ pc[Writer] \in Loading /\ pc'[Writer] \in {"stretch", "check"} /\ Moves(Writer)
    BY GotoMoves DEF LoadOpen, LoadStretch, ghost, Labels, Loading
  <1>2. Others(Writer) BY <1>1, OthersMove
  <1>3. (Seeking' <=> Seeking) /\ (Rolling' <=> Rolling)
    BY <1>1 DEF Seeking, Rolling, Loading
  <1>4. NumInv' BY <1>1 DEF LogInv, NumInv, IsHead
  <1>5. StartInv' BY <1>1, <1>3 DEF LogInv, StartInv, Loading
  <1>6. EndInv'
    BY <1>1, <1>3 DEF LogInv, EndInv, Stored, Writing, Ending, Loading, Frame
  <1>7. Appends BY <1>1 DEF Appends
  <1> QED BY <1>1, <1>2, <1>4, <1>5, <1>6, <1>7, LogWriter

\* While close_page loads the next page, no header of that page is there.
LEMMA RollFacts ==
  ASSUME TypeInv, ChainInv, LogInv, Rolling
  PROVE  /\ page[Writer] \in Pages /\ page[Writer] + 1 \in Pages
         /\ want[Writer] = page[Writer] + 1 /\ lfp[want[Writer]] = 0
         /\ \A o \in Offsets : mem[want[Writer]][o] = Zero /\ num[want[Writer]][o] = 0
         /\ lfp[page[Writer]] # 0 /\ IsHead(page[Writer], addr[Writer])
         /\ num[page[Writer]][addr[Writer]] = written + 1
  <1> USE WriterFacts
  <1>1. page[Writer] \in Pages /\ want[Writer] = page[Writer] + 1 BY DEF TypeInv, Ranges
  <1>2. want[Writer] > page[Writer] BY <1>1 DEF Pages
  <1>3. lfp[want[Writer]] = 0 /\ lfp[page[Writer]] # 0 BY <1>1, <1>2 DEF WriterInv
  <1>4. num[page[Writer]][addr[Writer]] = written + 1 BY DEF LogInv, EndInv
  <1>5. IsHead(page[Writer], addr[Writer]) BY <1>4 DEF IsHead, TypeOK
  <1> QED BY <1>1, <1>3, <1>4, <1>5 DEF PageInv

LEMMA LogWriterCheck ==
  ASSUME TypeInv, ChainInv, LogInv, LoadCheck(Writer) PROVE LogStep
  <1> USE WriterFacts
  <1>1. /\ UNCHANGED <<shared, num, written, got, time, want, cont>>
        /\ pc[Writer] = "check" /\ pc[Writer] \in Loading
    BY DEF LoadCheck, ghost, Loading
  <1>2. CASE lfp[want[Writer]] # 0
    <2>1. Loaded(Writer) /\ ~Rolling BY <1>2, RollFacts DEF LoadCheck
    <2>2. cont[Writer] \in {"full", "walk"} /\ Seeking /\ want[Writer] = 1
      BY <1>1, <2>1 DEF Rolling, Seeking, TypeInv, Ranges, TypeOK, LogInv, StartInv
    <2>3. IsHead(want[Writer], first_frame_address)' /\ lfp'[want[Writer]] # 0
      BY <1>1, <1>2 DEF PageInv, shared, IsHead
    <2>4. /\ Others(Writer) /\ pc'[Writer] = cont[Writer] /\ addr'[Writer] = first_frame_address
      BY <1>1, <2>1, <2>2, <2>3, LoadedCursor
    <2> QED BY <1>1, <2>2, <2>4, SeekLog DEF Loading
  <1>3. CASE lfp[want[Writer]] = 0
    <2>1. Moves(Writer) /\ UNCHANGED <<page, addr>> /\ pc'[Writer] = "init"
      BY <1>1, <1>3, CalmWriter, GotoMoves DEF LoadCheck, Labels
    <2>2. Others(Writer) BY <1>1, <2>1, OthersMove
    <2>3. CASE cont[Writer] = "end_head"
      <3>1. NumInv' BY <1>1, NumSame DEF LogInv
      <3>2. Rolling /\ Rolling' /\ ~Seeking'
        BY <1>1, <2>1, <2>3 DEF Rolling, Seeking, Loading
      <3>3. StartInv' BY <2>1, <3>2 DEF StartInv
      <3>4. EndInv'
        BY <1>1, <2>1, <3>2 DEF LogInv, EndInv, Stored, Writing, Ending, Frame, shared
      <3> QED BY <1>1, <2>2, <3>1, <3>3, <3>4, AppendsSame, LogWriter
    <2>4. CASE cont[Writer] # "end_head"
      <3>1. Seeking /\ want[Writer] = 1
        BY <1>1, <2>4 DEF Seeking, LogInv, StartInv
      <3> QED BY <1>1, <2>1, <2>2, <2>4, <3>1, SeekLog DEF Loading
    <2> QED BY <2>3, <2>4
  <1> QED BY <1>2, <1>3

LEMMA LogWriterSeekPage ==
  ASSUME TypeInv, ChainInv, LogInv, SeekPage(Writer) PROVE LogStep
  <1> USE WriterFacts
  <1>1. /\ pc[Writer] = "full" /\ Seeking /\ page[Writer] \in Pages /\ lfp[page[Writer]] # 0
        /\ addr[Writer] = first_frame_address
    BY DEF SeekPage, Seeking, Cursored, LogInv, StartInv
  <1>2. Blank BY <1>1, BlankFacts
  <1>3. lfp[page[Writer]] = first_frame_address /\ mem[page[Writer]][first_frame_address] = Zero
    BY <1>1, <1>2, FirstOffset DEF Blank
  <1>4. ~is_full(page[Writer])
    BY <1>3 DEF is_full, Zero, first_frame_address, address_border
  <1>5. Moves(Writer) /\ pc'[Writer] = "walk" /\ UNCHANGED <<page, addr>>
    BY <1>4, GotoMoves DEF SeekPage, Labels
  <1>6. Others(Writer) BY <1>5, OthersMove DEF SeekPage
  <1> QED BY <1>1, <1>5, <1>6, SeekLog DEF SeekPage, ghost, Loading

\* the writer is constructed: its first frame is number 1
LEMMA LogWriterSeekFrame ==
  ASSUME TypeInv, ChainInv, LogInv, SeekFrame(Writer) PROVE LogStep
  <1> USE WriterFacts
  <1>1. /\ pc[Writer] = "walk" /\ Seeking /\ page[Writer] \in Pages /\ lfp[page[Writer]] # 0
        /\ addr[Writer] = first_frame_address
    BY DEF SeekFrame, Seeking, Cursored, LogInv, StartInv
  <1>2. Blank BY <1>1, BlankFacts
  <1>3. /\ page[Writer] = 1 /\ lfp[1] = first_frame_address
        /\ \A o \in Offsets : mem[1][o] = Zero
        /\ mem[1][first_frame_address] = Zero
    BY <1>1, <1>2, FirstOffset DEF Blank
  <1>4. ~Passes(Writer) BY <1>1, <1>3 DEF Passes, has_data, Frame, Zero
  <1>5. /\ Moves(Writer) /\ pc'[Writer] = "idle"
        /\ UNCHANGED <<page, addr, shared, num, written, got, time>>
    BY <1>4, GotoMoves DEF SeekFrame, Labels, ghost
  <1>6. Others(Writer) BY <1>5, OthersMove
  <1>7. NumInv' BY <1>5, NumSame DEF LogInv
  <1>8. StartInv' BY <1>5 DEF StartInv, Seeking, Loading
  <1>9. num[1][first_frame_address] = 1 BY <1>3 DEF LogInv, NumInv, first_frame_address
  <1>10. \A o \in Offsets : ~Published(mem[1][o]) BY <1>3 DEF Published, Zero
  <1>11. EndInv'
    BY <1>1, <1>2, <1>3, <1>5, <1>9, <1>10, FirstOffset
       DEF EndInv, Stored, Rolling, Writing, Ending, Loading, shared, Blank, Zero, Offsets
  <1> QED BY <1>5, <1>6, <1>7, <1>8, <1>11, AppendsSame, LogWriter

\* the header of a page: its first frame is the next one to be written
LEMMA LogWriterInit ==
  ASSUME TypeInv, ChainInv, LogInv, LoadInit(Writer) PROVE LogStep
  <1> USE WriterFacts
  <1> DEFINE p == want[Writer]
             f == first_frame_address
  <1>1. /\ UNCHANGED <<fsize, mem, written, got, time, want, cont>> /\ pc[Writer] = "init"
        /\ pc[Writer] \in Loading /\ p \in Pages /\ f \in Offsets /\ Loaded(Writer) /\ f # 0
        /\ lfp' = [lfp EXCEPT ![p] = f]
        /\ num' = [num EXCEPT ![p][f] = IF @ = 0 THEN written + 1 ELSE @]
    BY FirstOffset DEF LoadInit, Loading, first_frame_address
  <1> HIDE DEF p, f
  <1>2. /\ lfp'[p] = f /\ num'[p][f] # 0 /\ (num[p][f] = 0 => num'[p][f] = written + 1)
        /\ \A x \in Pages, o \in Offsets : x # p \/ o # f \/ num[x][o] # 0 => num'[x][o] = num[x][o]
        /\ \A x \in Pages \ {p} : lfp'[x] = lfp[x]
        /\ written \in Nat /\ num'[p][f] \in Nat
    <2>1. written \in Nat /\ num \in [Pages -> [Offsets -> Nat]] /\ lfp \in [Pages -> Offsets]
      BY DEF TypeOK
    <2>2. num'[p][f] = IF num[p][f] = 0 THEN written + 1 ELSE num[p][f]
      BY <1>1, <2>1
    <2>3. \A x \in Pages, o \in Offsets : x # p \/ o # f => num'[x][o] = num[x][o]
      BY <1>1, <2>1
    <2>4. num[p][f] \in Nat BY <1>1, <2>1
    <2> QED BY <1>1, <2>1, <2>2, <2>3, <2>4
  <1>3. Appends BY <1>1, <1>2 DEF Appends, IsHead
  <1>4. cont[Writer] \in {"full", "walk", "end_head"} BY DEF TypeInv, Ranges, TypeOK
  <1>5. /\ Others(Writer) /\ pc'[Writer] = cont[Writer]
        /\ page'[Writer] = p /\ addr'[Writer] = f
    BY <1>1, <1>2, <1>4, LoadedCursor DEF IsHead, p, f, first_frame_address
  <1>6. CASE cont[Writer] # "end_head"
    <2>1. Seeking /\ p = 1 BY <1>1, <1>6 DEF Seeking, LogInv, StartInv, p
    <2>2. Blank BY <2>1, BlankFacts
    <2>3. \A x \in Pages, o \in Offsets : mem'[x][o] = Zero BY <1>1, <2>2 DEF Blank
    <2>4. Blank' BY <1>1, <1>2, <2>1, <2>2, <2>3 DEF Blank, f, first_frame_address
    <2>5. num'[1][f] = 1
      <3>1. CASE lfp[1] = 0 BY <1>1, <1>2, <2>1, <2>2, <3>1 DEF PageInv, Blank
      <3>2. CASE lfp[1] # 0
        <4>1. num[1][f] = 1 BY <3>2 DEF LogInv, NumInv, f
        <4> QED BY <1>1, <1>2, <2>1, <4>1
      <3> QED BY <3>1, <3>2
    <2>6. NumInv' BY <2>3, <2>5 DEF NumInv, Published, Zero, f, first_frame_address
    <2>7. pc'[Writer] \in {"full", "walk"} BY <1>4, <1>5, <1>6
    <2>8. StartInv' BY <1>5, <2>4, <2>7 DEF StartInv, Blank, Loading, f, first_frame_address
    <2>9. EndInv' BY <2>7 DEF EndInv, Stored, Rolling, Writing, Ending, Loading
    <2> QED BY <1>1, <1>3, <1>5, <2>6, <2>8, <2>9, LogWriter
  <1>7. CASE cont[Writer] = "end_head"
    <2> DEFINE q == page[Writer]
               a == addr[Writer]
    <2>1. Rolling BY <1>1, <1>7 DEF Rolling
    <2>2. /\ q \in Pages /\ p = q + 1 /\ lfp[p] = 0 /\ lfp[q] # 0 /\ q # p /\ p # 1
          /\ \A o \in Offsets : mem[p][o] = Zero /\ num[p][o] = 0
          /\ IsHead(q, a) /\ num[q][a] = written + 1
      BY <2>1, RollFacts DEF p, Pages
    <2>3. lfp[q] + mem[q][lfp[q]].length = a /\ mem[q][a].length = 0
      BY <2>1 DEF LogInv, EndInv, Frame
    <2>4. a \in Offsets OBVIOUS
    <2> HIDE DEF q, a
    <2>5. \A x \in Pages, o \in Offsets :
            IsHead(x, o)' /\ Published(mem'[x][o]) => x # p /\ IsHead(x, o)
      BY <1>1, <1>2, <2>2 DEF IsHead, Published, Zero
    <2>6. \A x \in Pages, o \in Offsets :
            IsHead(x, o) /\ Published(mem[x][o]) /\ mem[x][o].msg_type # Data
            => x + 1 \in Pages /\ lfp[x + 1] # 0
      <3> SUFFICES ASSUME NEW x \in Pages, NEW o \in Offsets, IsHead(x, o), Published(mem[x][o]),
                          mem[x][o].msg_type # Data
                   PROVE  x + 1 \in Pages /\ lfp[x + 1] # 0
        OBVIOUS
      <3> QED BY HeadFacts DEF Published
    <2>7. NumInv'
      <3> SUFFICES ASSUME NEW x \in Pages, NEW o \in Offsets, IsHead(x, o)', Published(mem'[x][o])
                   PROVE  IF mem'[x][o].msg_type = Data
                          THEN /\ mem'[x][o].id = num'[x][o]
                               /\ num'[x][o + mem'[x][o].length] = num'[x][o] + 1
                          ELSE /\ num'[x + 1][f] = num'[x][o]
                               /\ mem'[x][o].gen_time > 0
        <4>1. lfp'[1] # 0 => num'[1][f] = 1
          <5>1. lfp'[1] = lfp[1] /\ 1 \in Pages BY <1>2, <2>2
          <5>2. lfp[1] # 0 => num[1][f] = 1 BY DEF LogInv, NumInv, f
          <5> QED BY <1>1, <1>2, <2>2, <5>1, <5>2
        <4> QED BY <4>1 DEF NumInv, f, first_frame_address
      <3>1. x # p /\ IsHead(x, o) /\ mem'[x][o] = mem[x][o] BY <1>1, <2>5
      <3>2. CASE mem[x][o].msg_type = Data
        <4>1. mem[x][o].id = num[x][o] /\ num[x][o + mem[x][o].length] = num[x][o] + 1
          BY <3>1, <3>2 DEF LogInv, NumInv
        <4>2. o + mem[x][o].length \in Offsets
          BY <3>1, <3>2 DEF HeadInv, Published
        <4> QED BY <1>2, <3>1, <3>2, <4>1, <4>2
      <3>3. CASE mem[x][o].msg_type # Data
        <4>1. num[x + 1][f] = num[x][o] /\ mem[x][o].gen_time > 0
          BY <3>1, <3>3 DEF LogInv, NumInv, f
        <4>2. x + 1 \in Pages /\ lfp[x + 1] # 0 BY <2>6, <3>1, <3>3
        <4>3. x + 1 # p BY <2>2, <4>2
        <4> QED BY <1>1, <1>2, <3>1, <3>3, <4>1, <4>2, <4>3
      <3> QED BY <3>2, <3>3
    <2>8. pc'[Writer] = "end_head" BY <1>5, <1>7
    <2>9. StartInv' BY <2>8 DEF StartInv, Seeking, Loading
    <2>10. LastPage' = q BY <1>5, <2>2 DEF LastPage, Pages
    <2>11. EndAddress' = a
      <3>1. lfp'[q] = lfp[q] /\ mem' = mem BY <1>1, <1>2, <2>2
      <3> QED BY <2>3, <2>10, <3>1 DEF EndAddress
    <2>12. num'[q][a] = written + 1 /\ num'[q][a] > 0 /\ mem'[q][a].length = 0
      BY <1>1, <1>2, <2>2, <2>3, <2>4
    <2>13. num'[p][f] = written' + 1 /\ lfp'[p] = f BY <1>1, <1>2, <2>2
    <2>14. \A o \in Offsets : ~Published(mem'[p][o]) BY <1>1, <2>2 DEF Published, Zero
    <2>15. EndInv'
      BY <1>1, <1>5, <2>8, <2>10, <2>11, <2>12, <2>13, <2>14
         DEF EndInv, Stored, Rolling, Writing, Ending, Loading, IsHead, f, first_frame_address
    <2> QED BY <1>1, <1>3, <1>5, <2>7, <2>9, <2>15, LogWriter
  <1> QED BY <1>6, <1>7

LEMMA LogOpenFrame ==
  ASSUME TypeInv, ChainInv, LogInv, NEW d \in DataLengths, OpenFrame(d) PROVE LogStep
  <1> USE WriterFacts
  <1>1. /\ UNCHANGED <<shared, num, written, got, page, addr, time, todo>>
        /\ pc[Writer] = "idle" /\ page[Writer] \in Pages
    BY DEF OpenFrame, ghost, Cursored, Writing
  <1>2. Frame(Writer).length = 0 BY <1>1, WriteFacts DEF Writing
  <1>3. NumInv' BY <1>1, NumSame DEF LogInv
  <1>4. CASE MustRoll(d)
    <2>1. Load(Writer, page[Writer] + 1, "end_head") /\ page[Writer] + 1 \in Pages
      BY <1>1, <1>4 DEF OpenFrame, Pages
    <2>a. Moves(Writer) /\ cont'[Writer] = "end_head" BY <2>1, LoadMoves
    <2>2. Moves(Writer) /\ pc'[Writer] = "open" /\ cont'[Writer] = "end_head"
      <3>1. pc' = [pc EXCEPT ![Writer] = "open"] BY <2>1, CalmWriter DEF Load, Goto
      <3> QED BY <2>a, <3>1 DEF TypeOK
    <2>3. Others(Writer) BY <1>1, <2>2, OthersMove
    <2>4. Rolling' /\ ~Seeking' BY <2>2 DEF Rolling, Seeking, Loading
    <2>5. StartInv' BY <2>2, <2>4 DEF StartInv
    <2>6. EndInv'
      BY <1>1, <1>2, <2>2, <2>4 DEF LogInv, EndInv, Stored, Writing, Ending, shared, Frame
    <2> QED BY <1>1, <1>3, <2>3, <2>5, <2>6, AppendsSame, LogWriter
  <1>5. CASE ~MustRoll(d)
    <2>1. Moves(Writer) /\ pc'[Writer] = "head" BY <1>5, GotoMoves DEF OpenFrame, Labels
    <2>2. Others(Writer) BY <1>1, <2>1, OthersMove
    <2>3. StartInv' BY <2>1 DEF StartInv, Seeking, Loading
    <2>4. EndInv'
      BY <1>1, <2>1 DEF LogInv, EndInv, Stored, Rolling, Writing, Ending, Loading, shared
    <2> QED BY <1>1, <1>3, <2>2, <2>3, <2>4, AppendsSame, LogWriter
  <1> QED BY <1>4, <1>5

----------------------------------------------------------------------------
(* open_frame, close_frame and close_page. *)

\* A store that is neither to a published frame nor publishes one.
LEMMA QuietStore ==
  ASSUME LogInv, UNCHANGED num, lfp'[1] # 0 => lfp[1] # 0,
         \A p \in Pages, o \in Offsets :
            Published(mem[p][o]) \/ Published(mem'[p][o]) => mem'[p][o] = mem[p][o]
  PROVE  NumInv' /\ Appends
  <1>1. NumInv'
    <2> SUFFICES ASSUME NEW p \in Pages, NEW o \in Offsets, IsHead(p, o)', Published(mem'[p][o])
                 PROVE  IF mem'[p][o].msg_type = Data
                        THEN /\ mem'[p][o].id = num'[p][o]
                             /\ num'[p][o + mem'[p][o].length] = num'[p][o] + 1
                        ELSE /\ num'[p + 1][first_frame_address] = num'[p][o]
                             /\ mem'[p][o].gen_time > 0
      BY DEF LogInv, NumInv, first_frame_address
    <2>1. mem'[p][o] = mem[p][o] /\ IsHead(p, o) /\ Published(mem[p][o]) BY DEF IsHead
    <2> QED BY <2>1 DEF LogInv, NumInv
  <1>2. Appends BY DEF Appends
  <1> QED BY <1>1, <1>2

\* the stores of a frame before set_data_length, and the one of close_data alone
LEMMA LogStores ==
  ASSUME TypeInv, ChainInv, LogInv, Others(Writer), pc[Writer] \in Writing, ~Stored,
         pc'[Writer] \in {"idle", "store"}, pc'[Writer] = "store" => todo' # {},
         UNCHANGED <<fsize, num, written, got, page, addr>>,
         \A x \in Pages \ {page[Writer]} : mem'[x] = mem[x],
         \A y \in Offsets : y < addr[Writer] => mem'[page[Writer]][y] = mem[page[Writer]][y],
         \A y \in Offsets : y > addr[Writer] => ~Published(mem'[page[Writer]][y]),
         mem'[page[Writer]][addr[Writer]].length = 0,
         \A x \in Pages : lfp'[x] = lfp[x] \/ (x = page[Writer] /\ lfp'[x] = addr[Writer])
  PROVE  LogStep
  <1> DEFINE p == page[Writer]
             a == addr[Writer]
  <1>1. /\ p \in Pages /\ a \in Offsets /\ lfp[p] # 0 /\ mem[p][a].length = 0
        /\ \A o \in Offsets : IsHead(p, o) => o <= a
    BY WriteFacts DEF Stored, Frame
  <1>2. lfp[p] \in Offsets /\ IsHead(p, lfp[p]) /\ lfp[p] <= a
    BY <1>1, WriterFacts DEF TypeOK, PageInv
  <1>3. /\ num[p][a] = written + 1 /\ lfp[p] + mem[p][lfp[p]].length = a
        /\ \A o \in Offsets : o > a => ~Published(mem[p][o])
    BY DEF LogInv, EndInv, Rolling, Writing, Loading
  <1> HIDE DEF p, a
  <1>4. \A x \in Pages, o \in Offsets :
          Published(mem[x][o]) \/ Published(mem'[x][o]) => mem'[x][o] = mem[x][o]
    <2> SUFFICES ASSUME NEW x \in Pages, NEW o \in Offsets,
                        Published(mem[x][o]) \/ Published(mem'[x][o])
                 PROVE  mem'[x][o] = mem[x][o]
      OBVIOUS
    <2>1. CASE x # p BY <2>1 DEF p
    <2>2. CASE x = p
      <3>1. o # a BY <1>1, <2>2 DEF Published, p, a
      <3>2. ~(o > a) BY <1>3, <2>2 DEF p, a
      <3>3. o < a BY <1>1, <3>1, <3>2 DEF Offsets
      <3> QED BY <2>2, <3>3 DEF p, a
    <2> QED BY <2>1, <2>2
  <1>5. lfp'[1] # 0 => lfp[1] # 0 BY <1>1, WriterFacts DEF p
  <1>6. NumInv' /\ Appends BY <1>4, <1>5, QuietStore
  <1>7. StartInv' BY DEF StartInv, Seeking, Loading
  <1>8. lfp'[p] + mem'[p][lfp'[p]].length = a
    <2>1. CASE lfp'[p] = a BY <1>1, <2>1 DEF p, a, Offsets
    <2>2. CASE lfp'[p] # a
      <3>1. lfp'[p] = lfp[p] BY <1>1, <2>2 DEF p, a
      <3>2. lfp[p] < a BY <1>1, <1>2, <2>2, <3>1 DEF Offsets
      <3> QED BY <1>2, <1>3, <3>1, <3>2 DEF p, a
    <2> QED BY <2>1, <2>2
  <1>9. EndInv'
    BY <1>3, <1>8 DEF EndInv, Stored, Rolling, Writing, Ending, Loading, p, a
  <1> QED BY <1>6, <1>7, <1>9, LogWriter

LEMMA LogOpenHead ==
  ASSUME TypeInv, ChainInv, LogInv, OpenHead PROVE LogStep
  <1> USE WriterFacts
  <1> DEFINE h == [Frame(Writer) EXCEPT !.header_length = FrameHeader, !.msg_type = Data]
  <1>0. /\ pc[Writer] = "head" /\ pc[Writer] \in Writing /\ ~Stored /\ Goto(Writer, "store")
        /\ SetFrame(page[Writer], addr[Writer], h)
        /\ todo' = {"body", "next", "time", "length"}
        /\ UNCHANGED <<fsize, lfp, num, written, got, page, addr>>
    BY DEF OpenHead, Writing, Stored, ghost
  <1>1. page[Writer] \in Pages /\ Frame(Writer) \in Header /\ Frame(Writer).length = 0
    BY <1>0, WriteFacts DEF Stored
  <1>2. h \in Header /\ h.length = 0 BY <1>1 DEF Header, Data
  <1> HIDE DEF h
  <1>3. /\ mem'[page[Writer]][addr[Writer]] = h
        /\ \A x \in Pages \ {page[Writer]} : mem'[x] = mem[x]
        /\ \A y \in Offsets \ {addr[Writer]} : mem'[page[Writer]][y] = mem[page[Writer]][y]
    BY <1>0, <1>1, <1>2 DEF SetFrame, TypeOK
  <1>4. Moves(Writer) /\ pc'[Writer] = "store" BY <1>0, GotoMoves DEF OpenHead, Labels
  <1>5. \A x \in Procs \ {Writer} : time'[x] = time[x] BY DEF OpenHead, TypeOK
  <1>6. Others(Writer) BY <1>0, <1>4, <1>5 DEF Others, SameProc, Moves
  <1>7. \A y \in Offsets : y > addr[Writer] => ~Published(mem[page[Writer]][y])
    BY <1>0 DEF LogInv, EndInv
  <1>8. \A y \in Offsets : (y < addr[Writer] \/ y > addr[Writer]) => y # addr[Writer]
    BY DEF Offsets
  <1> QED BY <1>0, <1>2, <1>3, <1>4, <1>6, <1>7, <1>8, LogStores

LEMMA LogStoreBody ==
  ASSUME Sane, TypeInv, ChainInv, LogInv, StoreBody PROVE LogStep
  <1> USE WriterFacts
  <1>0. pc[Writer] = "store" /\ pc[Writer] \in Writing /\ MayStore("body")
    BY DEF StoreBody, Writing
  <1>1. todo = {"body", "next", "time", "length"} /\ ~Stored BY <1>0, StoreOrder DEF Stored
  <1>2. NextAddress <= PageSize BY <1>0 DEF StoreInv, Offsets
  <1>3. /\ mem' = WithBody /\ todo' = {"next", "time", "length"} /\ UNCHANGED pc
        /\ UNCHANGED <<fsize, lfp, page, addr, want, cont, time, num, written, got>>
    BY <1>1, <1>2 DEF StoreBody, ghost
  <1> DEFINE p == page[Writer]
             a == addr[Writer]
  <1>4. /\ p \in Pages /\ a \in Offsets /\ mem[p][a] \in Header /\ mem[p][a].length = 0
        /\ \A y \in Offsets : y > a => ~Published(mem[p][y])
    BY <1>0, <1>1, WriteFacts DEF Frame, LogInv, EndInv, Stored
  <1>5. /\ \A x \in Pages \ {p} : mem'[x] = mem[x]
        /\ mem'[p] = [o \in Offsets |-> IF o = a THEN [mem[p][a] EXCEPT !.id = written + 1]
                                       ELSE IF o > a /\ o < NextAddress THEN Garbage
                                       ELSE mem[p][o]]
    BY <1>3, <1>4 DEF WithBody, TypeOK
  <1>6. mem'[p][a].length = 0 BY <1>4, <1>5 DEF Header
  <1>7. \A y \in Offsets : y < a => mem'[p][y] = mem[p][y] BY <1>4, <1>5 DEF Offsets
  <1>8. \A y \in Offsets : y > a => ~Published(mem'[p][y])
    <2>1. ~Published(Garbage) BY DEF Published, Garbage, Junk, Data, PageEnd
    <2> QED BY <1>4, <1>5, <2>1 DEF Offsets
  <1>9. Others(Writer) BY <1>3 DEF Others, SameProc
  <1> QED BY <1>0, <1>1, <1>3, <1>5, <1>6, <1>7, <1>8, <1>9, LogStores

LEMMA LogStoreNext ==
  ASSUME Sane, TypeInv, ChainInv, LogInv, StoreNext PROVE LogStep
  <1> USE WriterFacts
  <1>0. pc[Writer] = "store" /\ pc[Writer] \in Writing /\ MayStore("next")
    BY DEF StoreNext, Writing
  <1>1. todo = {"next", "time", "length"} /\ ~Stored BY <1>0, StoreOrder DEF Stored
  <1>2. NextAddress \in Offsets /\ NextAddress < address_border BY <1>0 DEF StoreInv
  <1>3. InPage(NextAddress) BY <1>2 DEF InPage, Offsets, address_border
  <1>4. /\ SetFrame(page[Writer], NextAddress, Zero)
        /\ todo' = {"time", "length"} /\ UNCHANGED pc
        /\ UNCHANGED <<fsize, lfp, page, addr, want, cont, time, num, written, got>>
    BY <1>1, <1>3 DEF StoreNext, MemsetNext, ghost
  <1>5. NextAddress > addr[Writer] BY NextBehind
  <1>6. /\ page[Writer] \in Pages /\ addr[Writer] \in Offsets
        /\ mem[page[Writer]][addr[Writer]].length = 0
        /\ \A y \in Offsets : y > addr[Writer] => ~Published(mem[page[Writer]][y])
    BY <1>0, <1>1, WriteFacts DEF Frame, LogInv, EndInv, Stored
  <1>7. /\ mem'[page[Writer]][NextAddress] = Zero
        /\ \A x \in Pages \ {page[Writer]} : mem'[x] = mem[x]
        /\ \A y \in Offsets \ {NextAddress} : mem'[page[Writer]][y] = mem[page[Writer]][y]
    BY <1>2, <1>4, <1>6 DEF SetFrame, TypeOK
  <1>8. \A y \in Offsets : y <= addr[Writer] => mem'[page[Writer]][y] = mem[page[Writer]][y]
    BY <1>2, <1>5, <1>6, <1>7 DEF Offsets
  <1>9. \A y \in Offsets : y > addr[Writer] => ~Published(mem'[page[Writer]][y])
    BY <1>6, <1>7 DEF Published, Zero
  <1>10. mem'[page[Writer]][addr[Writer]].length = 0 BY <1>6, <1>8 DEF Offsets
  <1>11. \A y \in Offsets : y < addr[Writer] => mem'[page[Writer]][y] = mem[page[Writer]][y]
    BY <1>6, <1>8 DEF Offsets
  <1>12. Others(Writer) BY <1>4 DEF Others, SameProc
  <1> QED BY <1>0, <1>1, <1>4, <1>7, <1>9, <1>10, <1>11, <1>12, LogStores

LEMMA LogStoreTime ==
  ASSUME Sane, TypeInv, ChainInv, LogInv, StoreTime PROVE LogStep
  <1> USE WriterFacts
  <1> DEFINE h == [Frame(Writer) EXCEPT !.gen_time = time[Writer]]
  <1>0. pc[Writer] = "store" /\ pc[Writer] \in Writing /\ MayStore("time")
        /\ SetFrame(page[Writer], addr[Writer], h)
    BY DEF StoreTime, Writing
  <1>1. todo = {"time", "length"} /\ ~Stored BY <1>0, StoreOrder DEF Stored
  <1>2. /\ todo' = {"length"} /\ UNCHANGED pc
        /\ UNCHANGED <<fsize, lfp, page, addr, want, cont, time, num, written, got>>
    BY <1>1 DEF StoreTime, ghost, procs
  <1>3. page[Writer] \in Pages /\ Frame(Writer) \in Header /\ Frame(Writer).length = 0
    BY <1>0, <1>1, WriteFacts DEF Stored
  <1>4. h \in Header /\ h.length = 0 BY <1>3 DEF Header
  <1> HIDE DEF h
  <1>5. /\ mem'[page[Writer]][addr[Writer]] = h
        /\ \A x \in Pages \ {page[Writer]} : mem'[x] = mem[x]
        /\ \A y \in Offsets \ {addr[Writer]} : mem'[page[Writer]][y] = mem[page[Writer]][y]
    BY <1>0, <1>3, <1>4 DEF SetFrame, TypeOK
  <1>6. Others(Writer) BY <1>2 DEF Others, SameProc
  <1>7. \A y \in Offsets : y > addr[Writer] => ~Published(mem[page[Writer]][y])
    BY <1>0 DEF LogInv, EndInv
  <1>8. \A y \in Offsets : (y < addr[Writer] \/ y > addr[Writer]) => y # addr[Writer]
    BY DEF Offsets
  <1> QED BY <1>0, <1>1, <1>2, <1>4, <1>5, <1>6, <1>7, <1>8, LogStores

LEMMA LogStrayClose ==
  ASSUME TypeInv, ChainInv, LogInv, StrayClose PROVE LogStep
  <1> USE WriterFacts
  <1> DEFINE h == [Zero EXCEPT !.gen_time = WriterNow]
  <1>0. /\ pc[Writer] = "stray" /\ pc[Writer] \in Writing /\ ~Stored /\ Goto(Writer, "idle")
        /\ SetFrame(page[Writer], addr[Writer], h)
        /\ lfp' = [lfp EXCEPT ![page[Writer]] = addr[Writer]]
        /\ UNCHANGED <<fsize, page, addr, want, cont, time, num, written, got>>
    BY DEF StrayClose, Writing, Stored, ghost
  <1>1. WriterNow = now /\ now \in Nat BY DEF WriterNow, TimeInv, TypeOK
  <1>2. h \in Header /\ h.length = 0 BY <1>1 DEF Zero, Header
  <1>3. page[Writer] \in Pages BY <1>0, WriteFacts DEF Stored
  <1> HIDE DEF h
  <1>4. /\ mem'[page[Writer]][addr[Writer]] = h
        /\ \A x \in Pages \ {page[Writer]} : mem'[x] = mem[x]
        /\ \A y \in Offsets \ {addr[Writer]} : mem'[page[Writer]][y] = mem[page[Writer]][y]
    BY <1>0, <1>2, <1>3 DEF SetFrame, TypeOK
  <1>5. Moves(Writer) /\ pc'[Writer] = "idle" BY <1>0, GotoMoves DEF Labels
  <1>6. Others(Writer) BY <1>0, <1>5, OthersMove
  <1>7. \A y \in Offsets : y > addr[Writer] => ~Published(mem[page[Writer]][y])
    BY <1>0 DEF LogInv, EndInv
  <1>8. \A y \in Offsets : (y < addr[Writer] \/ y > addr[Writer]) => y # addr[Writer]
    BY DEF Offsets
  <1>9. \A x \in Pages : lfp'[x] = lfp[x] \/ (x = page[Writer] /\ lfp'[x] = addr[Writer])
    BY <1>0, <1>3 DEF TypeOK
  <1> QED BY <1>0, <1>2, <1>4, <1>5, <1>6, <1>7, <1>8, <1>9, LogStores

\* the stores of PageEnd before its length
LEMMA LogEnds ==
  ASSUME TypeInv, ChainInv, LogInv, pc[Writer] \in Ending,
         NEW l \in {"end_time", "end_length"}, Goto(Writer, l), NEW e \in Offsets, endAt' = e,
         num[LastPage][e] = written + 1, mem[LastPage][e].length = 0,
         NEW h \in Header, SetFrame(LastPage, e, h), h.length = 0,
         l = "end_length" => h.gen_time > 0,
         UNCHANGED <<fsize, lfp, num, written, got, page, addr, want, cont, time>>
  PROVE  LogStep
  <1> USE WriterFacts, EndFacts
  <1>1. /\ mem'[LastPage][e] = h
        /\ \A x \in Pages \ {LastPage} : mem'[x] = mem[x]
        /\ \A y \in Offsets \ {e} : mem'[LastPage][y] = mem[LastPage][y]
    BY DEF SetFrame, TypeOK
  <1>2. Moves(Writer) /\ pc'[Writer] = l BY GotoMoves DEF Labels
  <1>3. Others(Writer) BY <1>2, OthersMove
  <1>4. \A x \in Pages, o \in Offsets :
          Published(mem[x][o]) \/ Published(mem'[x][o]) => mem'[x][o] = mem[x][o]
    BY <1>1 DEF Published
  <1>5. NumInv' /\ Appends BY <1>4, QuietStore
  <1>6. StartInv' BY <1>2 DEF StartInv, Seeking, Loading
  <1>7. LastPage' = LastPage /\ mem'[page[Writer]] = mem[page[Writer]]
    BY <1>1 DEF LastPage, Pages
  <1>8. EndInv'
    <2>1. /\ num[page[Writer]][addr[Writer]] = written + 1
          /\ \A o \in Offsets : ~Published(mem[page[Writer]][o])
          /\ lfp[page[Writer]] = first_frame_address
      BY DEF LogInv, EndInv
    <2> QED BY <1>1, <1>2, <1>7, <2>1
            DEF EndInv, Stored, Rolling, Writing, Ending, Loading, first_frame_address
  <1> QED BY <1>3, <1>5, <1>6, <1>8, LogWriter

LEMMA LogEndHead ==
  ASSUME TypeInv, ChainInv, LogInv, EndHead PROVE LogStep
  <1> USE WriterFacts
  <1> DEFINE e == EndAddress
             h == [mem[LastPage][e] EXCEPT !.header_length = FrameHeader, !.msg_type = PageEnd]
  <1>0. pc[Writer] = "end_head" /\ pc[Writer] \in Ending BY DEF EndHead, Ending
  <1>1. e \in Offsets /\ InPage(e) /\ LastPage \in Pages BY <1>0, EndIsHead, EndFacts
  <1>2. endAt' = e /\ Goto(Writer, "end_time") /\ SetFrame(LastPage, e, h)
    BY <1>1 DEF EndHead
  <1>3. num[LastPage][e] = written + 1 /\ mem[LastPage][e].length = 0
    BY <1>0 DEF LogInv, EndInv
  <1>4. h \in Header /\ h.length = 0
    <2>1. mem[LastPage][e] \in Header BY <1>1, HeaderType
    <2> QED BY <1>3, <2>1 DEF Header, PageEnd
  <1> HIDE DEF e, h
  <1>5. UNCHANGED <<fsize, lfp, num, written, got, page, addr, want, cont, time>>
    BY DEF EndHead, ghost
  <1> QED BY <1>0, <1>1, <1>2, <1>3, <1>4, <1>5, LogEnds

LEMMA LogEndTime ==
  ASSUME TypeInv, ChainInv, LogInv, EndTime PROVE LogStep
  <1> USE WriterFacts
  <1> DEFINE h == [mem[LastPage][endAt] EXCEPT !.gen_time = WriterNow]
  <1>0. /\ pc[Writer] = "end_time" /\ pc[Writer] \in Ending /\ Goto(Writer, "end_length")
        /\ SetFrame(LastPage, endAt, h)
        /\ UNCHANGED <<fsize, lfp, num, written, got, page, addr, want, cont, time, endAt>>
    BY DEF EndTime, Ending, local, ghost
  <1>1. endAt \in Offsets /\ LastPage \in Pages BY <1>0, EndFacts
  <1>2. num[LastPage][endAt] = written + 1 /\ mem[LastPage][endAt].length = 0
    BY <1>0 DEF LogInv, EndInv, Ending
  <1>3. h \in Header /\ h.length = 0 /\ h.gen_time > 0
    <2>1. mem[LastPage][endAt] \in Header BY <1>1, HeaderType
    <2>2. WriterNow \in Nat /\ WriterNow > 0 BY DEF WriterNow, TimeInv, TypeOK
    <2> QED BY <1>2, <2>1, <2>2 DEF Header
  <1> HIDE DEF h
  <1> QED BY <1>0, <1>1, <1>2, <1>3, LogEnds

\* PageEnd becomes visible: it carries the number of the first frame of the next page
LEMMA LogEndLength ==
  ASSUME TypeInv, ChainInv, LogInv, EndLength PROVE LogStep
  <1> USE WriterFacts
  <1> DEFINE q == LastPage
             e == endAt
             h == [mem[q][e] EXCEPT !.length = FrameHeader]
  <1>0. /\ pc[Writer] = "end_length" /\ pc[Writer] \in Ending /\ Goto(Writer, "end_pos")
        /\ SetFrame(q, e, h)
        /\ UNCHANGED <<fsize, lfp, num, written, got, page, addr, want, cont, time, endAt>>
    BY DEF EndLength, EndFrameLength, Ending, local, ghost
  <1>1. /\ e \in Offsets /\ q \in Pages /\ page[Writer] = q + 1 /\ page[Writer] \in Pages
        /\ mem[q][e].msg_type = PageEnd /\ addr[Writer] = first_frame_address
    BY <1>0, EndFacts
  <1>2. /\ num[q][e] = written + 1 /\ mem[q][e].length = 0 /\ mem[q][e].gen_time > 0
        /\ num[page[Writer]][addr[Writer]] = written + 1
        /\ \A o \in Offsets : ~Published(mem[page[Writer]][o])
        /\ lfp[page[Writer]] = first_frame_address
    BY <1>0 DEF LogInv, EndInv, Ending
  <1>3. h \in Header /\ h.msg_type = PageEnd /\ h.gen_time > 0
    <2>1. mem[q][e] \in Header BY <1>1, HeaderType
    <2> QED BY <1>1, <1>2, <2>1 DEF Header
  <1> HIDE DEF q, e, h
  <1>4. /\ mem'[q][e] = h
        /\ \A x \in Pages \ {q} : mem'[x] = mem[x]
        /\ \A x \in Pages, y \in Offsets : x # q \/ y # e => mem'[x][y] = mem[x][y]
    BY <1>0, <1>1, <1>3 DEF SetFrame, TypeOK
  <1>5. Moves(Writer) /\ pc'[Writer] = "end_pos" BY <1>0, GotoMoves DEF Labels
  <1>6. Others(Writer) BY <1>0, <1>5, OthersMove
  <1>7. Appends
    <2>1. ~Published(mem[q][e]) BY <1>2 DEF Published
    <2> QED BY <1>0, <1>4, <2>1 DEF Appends
  <1>8. NumInv'
    <2> SUFFICES ASSUME NEW x \in Pages, NEW o \in Offsets, IsHead(x, o)', Published(mem'[x][o])
                 PROVE  IF mem'[x][o].msg_type = Data
                        THEN /\ mem'[x][o].id = num'[x][o]
                             /\ num'[x][o + mem'[x][o].length] = num'[x][o] + 1
                        ELSE /\ num'[x + 1][first_frame_address] = num'[x][o]
                             /\ mem'[x][o].gen_time > 0
      BY <1>0 DEF LogInv, NumInv, first_frame_address
    <2>1. CASE x = q /\ o = e
      <3>1. num[q + 1][first_frame_address] = num[q][e] BY <1>1, <1>2
      <3> QED BY <1>0, <1>3, <1>4, <2>1, <3>1 DEF Data, PageEnd
    <2>2. CASE x # q \/ o # e
      <3>1. mem'[x][o] = mem[x][o] /\ IsHead(x, o) /\ Published(mem[x][o])
        BY <1>0, <1>4, <2>2 DEF IsHead
      <3> QED BY <1>0, <3>1 DEF LogInv, NumInv
    <2> QED BY <2>1, <2>2
  <1>9. StartInv' BY <1>5 DEF StartInv, Seeking, Loading
  <1>10. LastPage' = q /\ mem'[page[Writer]] = mem[page[Writer]]
    BY <1>0, <1>1, <1>4 DEF LastPage, q, Pages
  <1>11. EndInv'
    BY <1>0, <1>2, <1>5, <1>10
       DEF EndInv, Stored, Rolling, Writing, Ending, Loading, first_frame_address, e
  <1> QED BY <1>0, <1>6, <1>7, <1>8, <1>9, <1>11, LogWriter

LEMMA LogEndPosition ==
  ASSUME TypeInv, ChainInv, LogInv, EndPosition PROVE LogStep
  <1> USE WriterFacts
  <1>0. /\ pc[Writer] = "end_pos" /\ pc[Writer] \in Ending /\ Goto(Writer, "head")
        /\ lfp' = [lfp EXCEPT ![LastPage] = endAt]
        /\ UNCHANGED <<fsize, mem, num, written, got, page, addr, want, cont, time>>
    BY DEF EndPosition, Ending, ghost
  <1>1. /\ LastPage \in Pages /\ lfp[LastPage] # 0 /\ page[Writer] = LastPage + 1
        /\ page[Writer] \in Pages /\ page[Writer] # LastPage /\ Frame(Writer).length = 0
        /\ addr[Writer] = first_frame_address
    BY <1>0, EndFacts DEF Pages
  <1>2. lfp'[page[Writer]] = lfp[page[Writer]] /\ (lfp'[1] # 0 => lfp[1] # 0)
    BY <1>0, <1>1 DEF TypeOK
  <1>3. Moves(Writer) /\ pc'[Writer] = "head" BY <1>0, GotoMoves DEF Labels
  <1>4. Others(Writer) BY <1>0, <1>3, OthersMove
  <1>5. NumInv' /\ Appends BY <1>0, <1>2, QuietStore
  <1>6. StartInv' BY <1>3 DEF StartInv, Seeking, Loading
  <1>7. /\ num[page[Writer]][addr[Writer]] = written + 1
        /\ \A o \in Offsets : ~Published(mem[page[Writer]][o])
        /\ lfp[page[Writer]] = first_frame_address
    BY <1>0 DEF LogInv, EndInv
  <1>8. lfp[page[Writer]] + mem[page[Writer]][lfp[page[Writer]]].length = addr[Writer]
    BY <1>1, <1>7 DEF Frame, first_frame_address
  <1>9. EndInv'
    BY <1>0, <1>2, <1>3, <1>7, <1>8 DEF EndInv, Stored, Rolling, Writing, Ending, Loading
  <1> QED BY <1>0, <1>4, <1>5, <1>6, <1>9, LogWriter

\* set_last_frame_position and journal::next
LEMMA LogPosition ==
  ASSUME TypeInv, ChainInv, LogInv, Position PROVE LogStep
  <1> USE WriterFacts
  <1> DEFINE p == page[Writer]
             a == addr[Writer]
             n == NextAddress
  <1>0. /\ pc[Writer] = "store" /\ todo = {} /\ pc[Writer] \in Writing /\ pc[Writer] \in Cursored
        /\ Stored
        /\ lfp' = [lfp EXCEPT ![p] = a] /\ addr' = [addr EXCEPT ![Writer] = n]
        /\ UNCHANGED <<fsize, mem, num, written, got, page, want, cont, time>>
    BY DEF Position, Writing, Cursored, Stored, ghost
  <1>1. PICK l \in {"idle", "stray"} : Goto(Writer, l) BY DEF Position
  <1>2. /\ p \in Pages /\ lfp[p] # 0 /\ n \in Offsets /\ n > a
        /\ a \in Nat /\ n = a + (FrameHeader + dlen)
        /\ mem[p][a].length = FrameHeader + dlen
    BY <1>0, NextBehind DEF StoreInv, Frame
  <1>3. num[p][n] = written + 1 /\ \A o \in Offsets : o > a => ~Published(mem[p][o])
    BY <1>0 DEF LogInv, EndInv
  <1>4. /\ lfp'[p] = a /\ (lfp'[1] # 0 => lfp[1] # 0) /\ addr'[Writer] = n
        /\ \A x \in Procs \ {Writer} : addr'[x] = addr[x]
    BY <1>0, <1>2 DEF TypeOK
  <1>5. Moves(Writer) /\ pc'[Writer] = l BY <1>0, <1>1, GotoMoves DEF Labels
  <1>6. Others(Writer) BY <1>0, <1>4, <1>5, OthersMove
  <1>7. NumInv' /\ Appends BY <1>0, <1>4, QuietStore
  <1>8. StartInv' BY <1>5 DEF StartInv, Seeking, Loading
  <1>9. \A o \in Offsets : o > n => ~Published(mem[p][o]) BY <1>2, <1>3 DEF Offsets
  <1>10. p' = p BY <1>0
  <1>11. EndInv'
    <2> HIDE DEF n
    <2> QED BY <1>0, <1>2, <1>3, <1>4, <1>5, <1>9, <1>10
            DEF EndInv, Stored, Rolling, Writing, Ending, Loading
  <1> QED BY <1>0, <1>6, <1>7, <1>8, <1>11, LogWriter

\* set_data_length publishes the frame and numbers the address behind it
LEMMA LogStoreLength ==
  ASSUME Sane, TypeInv, ChainInv, LogInv, StoreLength PROVE LogStep
  <1> USE WriterFacts
  <1> DEFINE p == page[Writer]
             a == addr[Writer]
             n == NextAddress
             h == [mem[p][a] EXCEPT !.length = FrameHeader + dlen]
  <1>0. pc[Writer] = "store" /\ pc[Writer] \in Writing /\ MayStore("length")
    BY DEF StoreLength, Writing
  <1>1. todo = {"length"} /\ ~Stored BY <1>0, StoreOrder DEF Stored
  <1>2. /\ mem' = [mem EXCEPT ![p][a] = h]
        /\ todo' = {} /\ written' = written + 1
        /\ num' = [num EXCEPT ![p] = [o \in Offsets |-> IF o = n THEN @[a] + 1 ELSE @[o]]]
        /\ UNCHANGED <<fsize, lfp, pc, page, addr, want, cont, time, dlen, got>>
    BY <1>1 DEF StoreLength, SetFrame, Frame, procs
  <1>3. /\ p \in Pages /\ a \in Offsets /\ mem[p][a] \in Header /\ mem[p][a].length = 0
        /\ lfp[p] # 0 /\ IsHead(p, a) /\ \A o \in Offsets : IsHead(p, o) => o <= a
        /\ num[p][a] = written + 1
        /\ \A o \in Offsets : o > a => ~Published(mem[p][o])
    BY <1>0, <1>1, WriteFacts DEF Frame, Stored, LogInv, EndInv
  <1>4. /\ n \in Offsets /\ mem[p][n].length = 0
        /\ mem[p][a].msg_type = Data /\ mem[p][a].id = written + 1
    BY <1>0, <1>1 DEF StoreInv, Frame
  <1>5. /\ n \in Nat /\ a \in Nat /\ n > a /\ n = a + (FrameHeader + dlen)
        /\ FrameHeader + dlen \in Nat
    BY NextBehind
  <1>6. first_frame_address <= a BY <1>3 DEF HeadInv
  <1> HIDE DEF p, a, n
  <1>7. h \in Header /\ h.length = FrameHeader + dlen /\ h.msg_type = Data /\ h.id = written + 1
    BY <1>3, <1>4, <1>5 DEF Header
  <1> HIDE DEF h
  <1>8. /\ mem'[p][a] = h
        /\ \A x \in Pages, y \in Offsets : x # p \/ y # a => mem'[x][y] = mem[x][y]
    BY <1>2, <1>3, <1>7 DEF TypeOK
  <1>9. /\ num'[p][n] = num[p][a] + 1 /\ written \in Nat
        /\ \A x \in Pages, y \in Offsets : x # p \/ y # n => num'[x][y] = num[x][y]
    BY <1>2, <1>3, <1>4 DEF TypeOK
  <1>10. \A o \in Offsets : IsHead(p, o) => o # n BY <1>3, <1>5 DEF Offsets
  <1>11. \A x \in Pages, y \in Offsets : IsHead(x, y) => num'[x][y] = num[x][y]
    BY <1>9, <1>10
  <1>12. Appends
    <2>1. ~Published(mem[p][a]) BY <1>3 DEF Published
    <2> QED BY <1>8, <1>11, <2>1 DEF Appends
  <1>13. Others(Writer) BY <1>2 DEF Others, SameProc
  <1>14. NumInv'
    <2>1. lfp'[1] # 0 => num'[1][first_frame_address] = 1
      <3>1. lfp[1] # 0 => num[1][first_frame_address] = 1 /\ IsHead(1, first_frame_address)
        BY DEF LogInv, NumInv, PageInv
      <3> QED BY <1>2, <1>11, <3>1, FirstOffset
    <2> SUFFICES ASSUME NEW x \in Pages, NEW o \in Offsets, num'[x][o] > 0, Published(mem'[x][o])
                 PROVE  IF mem'[x][o].msg_type = Data
                        THEN /\ mem'[x][o].id = num'[x][o]
                             /\ num'[x][o + mem'[x][o].length] = num'[x][o] + 1
                        ELSE /\ num'[x + 1][first_frame_address] = num'[x][o]
                             /\ mem'[x][o].gen_time > 0
      BY <2>1 DEF NumInv, IsHead, first_frame_address
    <2>2. CASE x = p /\ o = a
      <3>1. num'[p][a] = written + 1 BY <1>3, <1>11
      <3> QED BY <1>3, <1>5, <1>7, <1>8, <1>9, <2>2, <3>1
    <2>3. CASE x # p \/ o # a
      <3>1. mem'[x][o] = mem[x][o] /\ Published(mem[x][o]) BY <1>8, <2>3
      <3>2. x # p \/ o # n BY <1>4, <3>1 DEF Published
      <3>3. IsHead(x, o) /\ num'[x][o] = num[x][o] BY <1>9, <3>2 DEF IsHead
      <3>4. CASE mem[x][o].msg_type = Data
        <4>1. mem[x][o].id = num[x][o] /\ num[x][o + mem[x][o].length] = num[x][o] + 1
          BY <3>1, <3>3, <3>4 DEF LogInv, NumInv
        <4>2. o + mem[x][o].length \in Offsets /\ IsHead(x, o + mem[x][o].length)
          BY <3>1, <3>3, <3>4 DEF HeadInv, Published
        <4> QED BY <1>11, <3>1, <3>3, <3>4, <4>1, <4>2
      <3>5. CASE mem[x][o].msg_type # Data
        <4>1. num[x + 1][first_frame_address] = num[x][o] /\ mem[x][o].gen_time > 0
          BY <3>1, <3>3, <3>5 DEF LogInv, NumInv
        <4>2. x + 1 \in Pages /\ lfp[x + 1] # 0
          BY <3>1, <3>3, <3>5, HeadFacts DEF Published
        <4>3. IsHead(x + 1, first_frame_address) BY <4>2 DEF PageInv
        <4>4. num'[x + 1][first_frame_address] = num[x + 1][first_frame_address]
          BY <1>11, <4>2, <4>3, FirstOffset
        <4> QED BY <3>1, <3>3, <3>5, <4>1, <4>4
      <3> QED BY <3>4, <3>5
    <2> QED BY <2>2, <2>3
  <1>15. pc'[Writer] = "store" /\ pc[Writer] = "store" BY <1>0, <1>2
  <1>16. StartInv' BY <1>15 DEF StartInv, Seeking, Loading
  <1>17. EndInv'
    <2>1. page'[Writer] = p /\ addr'[Writer] = a /\ NextAddress' = n
      BY <1>2 DEF NextAddress, n, p, a
    <2>2. \A o \in Offsets : o > a => ~Published(mem'[p][o]) BY <1>3, <1>5, <1>8
    <2>3. num'[p][n] = written' + 1 BY <1>2, <1>3, <1>9
    <2> QED BY <1>2, <1>15, <2>1, <2>2, <2>3 DEF EndInv, Stored, Rolling, Writing, Ending, Loading
  <1> QED BY <1>2, <1>12, <1>13, <1>14, <1>16, <1>17, LogWriter

----------------------------------------------------------------------------
(* The invariant of every step, and what follows from it. *)

LEMMA LogInit == Init => LogInv
  <1> SUFFICES ASSUME Init PROVE LogInv OBVIOUS
  <1>1. Writer \in Procs /\ \A r \in Readers : r \in Procs BY DEF Procs
  <1>2. \A q \in Procs : pc[q] = "down" BY DEF Init
  <1>3. \A p \in Pages : fsize[p] = NoFile /\ lfp[p] = 0 BY DEF Init
  <1>4. \A p \in Pages, o \in Offsets : mem[p][o] = Zero /\ num[p][o] = 0 BY DEF Init
  <1>5. NumInv
    <2>1. 1 \in Pages BY DEF Pages
    <2> QED BY <1>3, <1>4, <2>1 DEF NumInv, IsHead
  <1>6. StartInv
    <2>1. written = 0 BY DEF Init
    <2> QED BY <1>1, <1>2, <1>3, <1>4, <2>1 DEF StartInv, PageFiles, Seeking, Loading
  <1>7. EndInv BY <1>1, <1>2 DEF EndInv, Stored, Rolling, Writing, Ending, Loading
  <1>8. ReadInv
    <2>1. \A r \in Readers : got[r] = << >> BY DEF Init
    <2> QED BY <1>1, <1>2, <2>1 DEF ReadInv, ReadOK, Loading
  <1> QED BY <1>5, <1>6, <1>7, <1>8 DEF LogInv

\* time passes, or nothing does
LEMMA LogIdle ==
  ASSUME TypeInv, ChainInv, LogInv, UNCHANGED <<shared, procs, local, ghost>> PROVE LogStep
  <1>1. SameProc(Writer) /\ \A r \in Readers : SameProc(r) BY DEF SameProc, procs
  <1>2. Appends BY AppendsSame DEF ghost
  <1>3. UNCHANGED <<shared, num, written, local, got>> BY DEF ghost
  <1> QED BY <1>1, <1>2, <1>3, WriterIdle, ReadersSame DEF LogInv, LogStep

LEMMA LogNext ==
  ASSUME Calm, TypeInv, ChainInv, LogInv, [Next]_vars PROVE LogStep
  <1>0. Sane BY DEF Calm
  <1>1. CASE \E r \in Readers : ReaderStep(r) \/ \E t \in 0 .. now : Join(r, t)
    BY <1>1, LogReader, LogJoin
  <1>2. CASE JournalStep(Writer)
    <2>1. pc[Writer] \notin {"scan_size", "scan_time", "size"} BY DEF LogInv, StartInv
    <2>2. ~ScanSize(Writer) /\ ~ScanTime(Writer) /\ ~LoadSize(Writer)
      BY <2>1 DEF ScanSize, ScanTime, LoadSize
    <2> QED BY <1>2, <2>2, LogWriterList, LogWriterSeekPage, LogWriterSeekFrame, LogFile,
               LogWriterCheck, LogWriterInit DEF JournalStep, LoadStep_, SeekStep
  <1>3. CASE FrameStep
    BY <1>0, <1>3, LogOpenHead, LogStoreBody, LogStoreNext, LogStoreTime, LogStoreLength,
       LogPosition, LogStrayClose DEF FrameStep
  <1>4. CASE PageStep
    BY <1>4, LogEndHead, LogEndTime, LogEndLength, LogEndPosition DEF PageStep
  <1>5. CASE Crash
    <2>1. crashes \in Nat /\ MaxCrash = 0 BY DEF TypeInv, TypeOK, Calm
    <2> QED BY <1>5, <2>1 DEF Crash
  <1>6. CASE Tick BY <1>6, LogIdle DEF Tick
  <1>7. CASE UNCHANGED vars BY <1>7, LogIdle DEF vars
  <1> QED BY <1>1, <1>2, <1>3, <1>4, <1>5, <1>6, <1>7, LogOpenFrame, LogStart DEF Next, WriterStep

LEMMA LogAlways == ASSUME Calm PROVE Spec => [](TypeInv /\ ChainInv /\ LogInv)
  <1>1. Init => TypeInv /\ ChainInv /\ LogInv BY TypeInit, ChainInit, LogInit
  <1>2. TypeInv /\ ChainInv /\ LogInv /\ [Next]_vars => (TypeInv /\ ChainInv /\ LogInv)'
    BY TypeNext, ChainNext, LogNext DEF Calm, LogStep
  <1> QED BY <1>1, <1>2, PTL DEF Spec

\* What a reader can see of a published frame is never stored to again: set_data_length
\* is the last store of close_frame to its frame, and PageEnd goes behind the last frame.
THEOREM NeverOverwritten == ASSUME Calm PROVE Spec => AppendOnly
  <1>1. TypeInv /\ ChainInv /\ LogInv /\ [Next]_vars
        => [\A p \in Pages, o \in Offsets :
              Published(mem[p][o]) => mem'[p][o] = mem[p][o]]_mem
    BY LogNext DEF LogStep, Appends
  <1> QED BY <1>1, LogAlways, PTL DEF Spec, AppendOnly

----------------------------------------------------------------------------
(* Every step of the page chain is one of the log, or none. *)

\* A process that is neither started nor dies does not change who reads the whole log.
LEMMA WholeSame ==
  ASSUME TypeInv, NEW q \in Procs, \A x \in Procs \ {q} : pc'[x] = pc[x], UNCHANGED time,
         pc[q] # "down", pc'[q] # "down"
  PROVE  Whole' = Whole
  <1>1. \A r \in Readers : pc'[r] = "down" <=> pc[r] = "down" BY DEF Procs
  <1> QED BY <1>1 DEF Whole

LEMMA GotoWhole ==
  ASSUME TypeInv, NEW q \in Procs, NEW l \in Labels \ {"down"}, Goto(q, l), pc[q] # "down",
         UNCHANGED time
  PROVE  Whole' = Whole
  BY WholeSame, GotoType DEF TypeInv

LEMMA LoadWhole ==
  ASSUME TypeInv, NEW q \in Procs, NEW p, NEW l, Load(q, p, l), pc[q] # "down", UNCHANGED time
  PROVE  Whole' = Whole
  BY GotoWhole DEF Load, LoadStep, Labels

\* journal and page steps deliver and publish nothing
LEMMA JournalStutters ==
  ASSUME TypeInv, NEW q \in Procs, JournalStep(q) PROVE UNCHANGED <<written, got, Whole>>
  <1>1. cont[q] \in Labels \ {"down"} BY DEF TypeInv, TypeOK, Labels
  <1> USE LoadWhole, GotoWhole DEF Labels, ghost
  <1>2. ASSUME ScanOn(q), pc[q] # "down", UNCHANGED time PROVE Whole' = Whole
    BY <1>2 DEF ScanOn
  <1>3. CASE ListPages(q) BY <1>3 DEF ListPages
  <1>4. CASE ScanSize(q) BY <1>2, <1>4 DEF ScanSize
  <1>5. CASE ScanTime(q) BY <1>2, <1>5 DEF ScanTime
  <1>6. CASE SeekPage(q) BY <1>6 DEF SeekPage
  <1>7. CASE SeekFrame(q) BY <1>7 DEF SeekFrame, Next_
  <1>8. CASE LoadSize(q) BY <1>8 DEF LoadSize
  <1>9. CASE LoadOpen(q) BY <1>9 DEF LoadOpen
  <1>10. CASE LoadStretch(q) BY <1>10 DEF LoadStretch
  <1>11. CASE LoadCheck(q) BY <1>1, <1>11 DEF LoadCheck, Loaded
  <1>12. CASE LoadInit(q) BY <1>1, <1>12 DEF LoadInit, Loaded
  <1> QED BY <1>3, <1>4, <1>5, <1>6, <1>7, <1>8, <1>9, <1>10, <1>11, <1>12
          DEF JournalStep, LoadStep_, SeekStep

LEMMA AdvanceStutters ==
  ASSUME TypeInv, NEW r \in Readers, Advance(r) PROVE UNCHANGED <<written, got, Whole>>
  BY LoadWhole, GotoWhole DEF Advance, Next_, Labels, ghost, Procs

\* a step of the writer leaves the readers where they are
LEMMA WriterWhole ==
  ASSUME \A r \in Readers : pc'[r] = pc[r] /\ time'[r] = time[r] PROVE Whole' = Whole
  BY DEF Whole

LEMMA FrameLog ==
  ASSUME TypeInv, FrameStep PROVE Log!Publish \/ UNCHANGED <<written, got, Whole>>
  <1>1. \A r \in Readers : r \in Procs /\ r # Writer BY DEF Procs
  <1>2. pc \in [Procs -> Labels] /\ time \in [Procs -> Nat] BY DEF TypeInv, TypeOK
  <1>3. Whole' = Whole
    <2>1. \A r \in Readers : pc'[r] = pc[r] /\ time'[r] = time[r]
      BY <1>1, <1>2 DEF FrameStep, OpenHead, StoreBody, StoreNext, StoreTime, StoreLength,
         Position, StrayClose, Goto, procs
    <2> QED BY <2>1, WriterWhole
  <1>4. CASE StoreLength BY <1>3, <1>4 DEF StoreLength, Log!Publish
  <1>5. CASE ~StoreLength
    BY <1>3, <1>5 DEF FrameStep, OpenHead, StoreBody, StoreNext, StoreTime, Position, StrayClose,
       ghost
  <1> QED BY <1>4, <1>5

LEMMA PageStutters ==
  ASSUME TypeInv, PageStep \/ (\E d \in DataLengths : OpenFrame(d))
                  \/ (\E s \in 0 .. MaxSkew : Start(s))
  PROVE  UNCHANGED <<written, got, Whole>>
  <1>1. \A r \in Readers : r \in Procs /\ r # Writer BY DEF Procs
  <1>2. pc \in [Procs -> Labels] /\ time \in [Procs -> Nat] BY DEF TypeInv, TypeOK
  <1>3. \A r \in Readers : pc'[r] = pc[r] /\ time'[r] = time[r]
    BY <1>1, <1>2 DEF PageStep, EndHead, EndTime, EndLength, EndPosition, OpenFrame, Start, Goto,
       Load
  <1>4. UNCHANGED <<written, got>>
    BY DEF PageStep, EndHead, EndTime, EndLength, EndPosition, OpenFrame, Start, ghost
  <1> QED BY <1>3, <1>4, WriterWhole

\* A frame is handed over when the log may deliver it.
LEMMA DeliverLog ==
  ASSUME TypeInv, ChainInv, LogInv, NEW r \in Readers, Deliver(r)
  PROVE  Log!Deliver(r) \/ UNCHANGED <<written, got, Whole>>
  <1>1. /\ pc[r] = "read" /\ Goto(r, "next") /\ UNCHANGED <<written, time>> /\ r \in Procs
    BY DEF Deliver, Procs
  <1>2. Whole' = Whole BY <1>1, GotoWhole DEF Labels
  <1>3. CASE Frame(r).msg_type = PageEnd BY <1>1, <1>2, <1>3 DEF Deliver
  <1>4. CASE Frame(r).msg_type # PageEnd
    <2> DEFINE k == Frame(r).id
    <2>1. k \in 1 .. written /\ Follows(r, k) BY <1>4, Handed
    <2>2. written \in Nat BY DEF TypeInv, TypeOK
    <2>3. r \in Whole <=> time[r] = 0 BY <1>1 DEF Whole
    <2>4. got' = [got EXCEPT ![r] = Append(got[r], k)] BY <1>4 DEF Deliver
    <2> HIDE DEF k
    <2>5. k \in Log!Due(r) BY <2>1, <2>2, <2>3 DEF Follows, Log!Due
    <2> QED BY <1>1, <1>2, <2>1, <2>4, <2>5 DEF Log!Deliver
  <1> QED BY <1>3, <1>4

\* reader::join with from_time = 0 joins the log; other readers come in later.
LEMMA JoinLog ==
  ASSUME TypeInv, LogInv, NEW r \in Readers, NEW t \in 0 .. now, Join(r, t)
  PROVE  Log!Join(r) \/ UNCHANGED <<written, got, Whole>>
  <1>1. /\ pc[r] = "down" /\ time' = [time EXCEPT ![r] = t] /\ Goto(r, "list")
        /\ UNCHANGED <<written, got>> /\ r \in Procs
    BY DEF Join, ghost, Procs
  <1>2. got[r] = << >> BY <1>1 DEF LogInv, ReadInv, ReadOK
  <1>3. /\ pc'[r] = "list" /\ time'[r] = t
        /\ \A x \in Readers \ {r} : pc'[x] = pc[x] /\ time'[x] = time[x]
    BY <1>1 DEF Goto, TypeInv, TypeOK, Procs
  <1>4. r \notin Whole BY <1>1 DEF Whole
  <1>5. CASE t = 0
    <2>1. Whole' = Whole \cup {r} BY <1>3, <1>4, <1>5 DEF Whole
    <2> QED BY <1>1, <1>2, <1>4, <2>1 DEF Log!Join
  <1>6. CASE t # 0
    <2>1. Whole' = Whole BY <1>3, <1>4, <1>6 DEF Whole
    <2> QED BY <1>1, <2>1
  <1> QED BY <1>5, <1>6

LEMMA NextLog ==
  ASSUME Calm, TypeInv, ChainInv, LogInv, [Next]_vars PROVE [Log!Next]_(Log!vars)
  <1> SUFFICES Log!Next \/ UNCHANGED <<written, got, Whole>> BY DEF Log!vars
  <1> USE DEF Log!Next
  <1>1. CASE \E r \in Readers : ReaderStep(r) \/ \E t \in 0 .. now : Join(r, t)
    BY <1>1, JournalStutters, AdvanceStutters, DeliverLog, JoinLog DEF ReaderStep, Procs
  <1>2. CASE WriterStep
    BY <1>2, WriterProc, JournalStutters, FrameLog, PageStutters DEF WriterStep
  <1>3. CASE Crash
    <2>1. crashes \in Nat /\ MaxCrash = 0 BY DEF TypeInv, TypeOK, Calm
    <2> QED BY <1>3, <2>1 DEF Crash
  <1>4. CASE Tick \/ UNCHANGED vars BY <1>4 DEF Tick, vars, procs, ghost, Whole
  <1> QED BY <1>1, <1>2, <1>3, <1>4, PageStutters DEF Next

\* The page chain implements the numbered log: frames are numbered in the order they are
\* published, and a reader is handed each one once, in that order, none left out.
THEOREM LogImplemented == ASSUME Calm PROVE Spec => ImplementsLog
  <1>1. Init => Log!Init BY DEF Init, Log!Init, Whole, Procs
  <1>2. TypeInv /\ ChainInv /\ LogInv /\ [Next]_vars => [Log!Next]_(Log!vars) BY NextLog
  <1> QED BY <1>1, <1>2, LogAlways, PTL DEF Spec, ImplementsLog, Log!Spec
=============================================================================
