------------------------------ MODULE Journal ------------------------------
(***************************************************************************)
(* One yijinjing journal: the chain of memory mapped pages that one writer *)
(* process appends frames to and any number of reader processes poll.      *)
(* Every store to shared memory, and every load whose result is acted on   *)
(* later, is a step of its own, so a reader (or a crash of the writer) can  *)
(* come between any two of them.                                           *)
(*                                                                         *)
(* Offsets are in units of the model; mem[p][o] is the frame_header a      *)
(* process finds when it looks at offset o of page p.  The field id is the *)
(* body of the frame: the number of the frame whose data was copied there. *)
(***************************************************************************)
EXTENDS Integers, Sequences, FiniteSets

CONSTANTS PageSize,      \* page::size_, in units
          PageHeader,    \* sizeof(page_header)
          FrameHeader,   \* sizeof(frame_header)
          DataLengths,   \* the data lengths the writer's callers pass
          Readers,       \* processes that join the journal
          LowLatency,    \* the readers opened with lazy == false
          Reorder,       \* may the stores of close_frame be seen out of order?
          MaxFrames,     \* bound: frames published
          MaxPage,       \* bound: page files
          MaxTime,       \* bound: clock
          MaxCrash,      \* bound: crashes of the writer process
          MaxSkew        \* by how much a restarted writer's clock may be behind

Writer == "writer"

ASSUME SizeAssumption == /\ FrameHeader \in Nat \ {0}
                         /\ PageHeader \in Nat \ {0}
                         /\ PageSize \in Nat
                         /\ PageHeader + 2 * FrameHeader < PageSize
                         /\ DataLengths \subseteq Nat
ASSUME ProcAssumption == Writer \notin Readers /\ LowLatency \subseteq Readers
ASSUME BoundAssumption == /\ MaxFrames \in Nat
                          /\ MaxPage \in Nat \ {0}
                          /\ MaxTime \in Nat \ {0}
                          /\ MaxCrash \in Nat
                          /\ MaxSkew \in Nat
                          /\ Reorder \in BOOLEAN

VARIABLES
  fsize,     \* size of each page file: NoFile, 0 (created) or PageSize (stretched)
  lfp,       \* page_header::last_frame_position of each page; 0 = header not written
  mem,       \* mem[p][o]: the frame header at offset o of page p
  pc, page, addr,   \* of each process: next step, journal::page_, journal::frame_
  want,      \* the page id a process is loading or scanning
  cont,      \* the step that follows page::load
  time,      \* the argument of seek_to_time, then of the writer's close_frame
  dlen,      \* writer: data length of the frame being written
  endAt,     \* writer: address of the PageEnd frame being written
  todo,      \* writer: stores of close_frame not yet visible
  now,       \* real time
  skew,      \* how far the writer process's clock is behind
  crashes,
  written,   \* history: number of frames published
  num,       \* history: the number of the frame a position belongs to, 0 if none
  got        \* history: numbers of the frames delivered to each reader

shared == <<fsize, lfp, mem>>
procs  == <<pc, page, addr, want, cont, time>>
local  == <<dlen, endAt, todo, skew>>
ghost  == <<written, num, got>>
vars   == <<shared, procs, local, now, crashes, ghost>>

Procs   == Readers \cup {Writer}
Pages   == 1 .. MaxPage
Offsets == 0 .. PageSize
NoFile  == -1

NoMsg == 0   Data == 1   PageEnd == 2   Junk == 3      \* msg_type

Header == [length : Nat, header_length : {0, FrameHeader},
           msg_type : {NoMsg, Data, PageEnd, Junk}, gen_time : Nat, id : Nat]

\* what memset leaves, and what a header laid over data bytes may look like
Zero    == [length |-> 0, header_length |-> 0, msg_type |-> NoMsg, gen_time |-> 0, id |-> 0]
Garbage == [length |-> FrameHeader, header_length |-> FrameHeader, msg_type |-> Junk,
            gen_time |-> 0, id |-> 0]

----------------------------------------------------------------------------
(* page.h and frame.h: predicates on pages and frames *)

has_data(c) == c.length > 0 /\ c.msg_type > NoMsg

address_border == PageSize - FrameHeader

first_frame_address == PageHeader

is_full(p) == lfp[p] + mem[p][lfp[p]].length > address_border

begin_time(p) == mem[p][first_frame_address].gen_time

end_time(p) == mem[p][lfp[p]].gen_time

Frame(q) == mem[page[q]][addr[q]]

WriterNow == now - skew

\* the mapping is read-write for the writer and for low latency readers
Master(q) == q = Writer \/ q \in LowLatency

PageFiles == {p \in Pages : fsize[p] # NoFile}

\* a header read at offset o needs o + sizeof(frame_header) bytes of the mapping
InPage(o) == o + FrameHeader <= PageSize

----------------------------------------------------------------------------
Init ==
  /\ fsize = [p \in Pages |-> NoFile]
  /\ lfp = [p \in Pages |-> 0]
  /\ mem = [p \in Pages |-> [o \in Offsets |-> Zero]]
  /\ pc = [q \in Procs |-> "down"]
  /\ page = [q \in Procs |-> 0]
  /\ addr = [q \in Procs |-> 0]
  /\ want = [q \in Procs |-> 1]
  /\ cont = [q \in Procs |-> "full"]
  /\ time = [q \in Procs |-> 0]
  /\ dlen = 0
  /\ endAt = 0
  /\ todo = {}
  /\ now = 1
  /\ skew = 0
  /\ crashes = 0
  /\ written = 0
  /\ num = [p \in Pages |-> [o \in Offsets |-> 0]]
  /\ got = [r \in Readers |-> << >>]

Goto(q, l) == pc' = [pc EXCEPT ![q] = l]

\* store h as the frame header at offset o of page p
SetFrame(p, o, h) == mem' = [mem EXCEPT ![p][o] = h]

LoadStep(q) == IF Master(q) THEN "open" ELSE "size"

\* page::load(..., p, ...), to be followed by step l
Load(q, p, l) ==
  /\ want' = [want EXCEPT ![q] = p]
  /\ cont' = [cont EXCEPT ![q] = l]
  /\ Goto(q, LoadStep(q))

----------------------------------------------------------------------------
(* page::find_page_id *)

ListPages(q) ==
  /\ pc[q] = "list"
  /\ IF PageFiles = {} \/ time[q] = 0
     THEN Load(q, 1, "full")
     ELSE /\ \E p \in PageFiles : /\ \A x \in PageFiles : x <= p
                                 /\ want' = [want EXCEPT ![q] = p]
          /\ Goto(q, "scan_size")
          /\ UNCHANGED cont
  /\ UNCHANGED <<shared, page, addr, time, local, now, crashes, ghost>>

\* mutant: the loop over the page ids runs one step too far
ScanOnPastFirst(q) ==
  want' = [want EXCEPT ![q] = @ - 1] /\ Goto(q, "scan_size") /\ UNCHANGED cont

\* give up page want[q]: try the one before it, or settle for the first
ScanOn(q) ==
  IF want[q] > 1 THEN /\ want' = [want EXCEPT ![q] = @ - 1]
                      /\ Goto(q, "scan_size")
                      /\ UNCHANGED cont
                 ELSE Load(q, 1, "full")

\* the size test of a read-only page::load; a page that is too short is skipped
ScanSize(q) ==
  /\ pc[q] = "scan_size"
  /\ IF fsize[want[q]] < PageHeader
     THEN ScanOn(q)
     ELSE Goto(q, "scan_time") /\ UNCHANGED <<want, cont>>
  /\ UNCHANGED <<shared, page, addr, time, local, now, crashes, ghost>>

\* the rest of the read-only page::load, which writes the page header when it
\* finds last_frame_position == 0 (a fault on a PROT_READ mapping), and the
\* comparison of begin_time
ScanTime(q) ==
  /\ pc[q] = "scan_time"
  /\ IF lfp[want[q]] = 0
     THEN Goto(q, "segv") /\ UNCHANGED <<want, cont>>
     ELSE IF begin_time(want[q]) < time[q]
          THEN Load(q, want[q], "full")
          ELSE ScanOn(q)
  /\ UNCHANGED <<shared, page, addr, time, local, now, crashes, ghost>>

----------------------------------------------------------------------------
(* page::load and os::load_mmap_buffer *)

\* journal_error is thrown when a read-only load finds no usable file
LoadSize(q) ==
  /\ pc[q] = "size"
  /\ Goto(q, IF fsize[want[q]] < PageHeader THEN "failed" ELSE "check")
  /\ UNCHANGED <<shared, page, addr, want, cont, time, local, now, crashes, ghost>>

\* open(O_CREAT)
LoadOpen(q) ==
  /\ pc[q] = "open"
  /\ fsize' = [fsize EXCEPT ![want[q]] = IF @ = NoFile THEN 0 ELSE @]
  /\ Goto(q, "stretch")
  /\ UNCHANGED <<lfp, mem, page, addr, want, cont, time, local, now, crashes, ghost>>

\* lseek and write of the last byte
LoadStretch(q) ==
  /\ pc[q] = "stretch"
  /\ fsize' = [fsize EXCEPT ![want[q]] = PageSize]
  /\ Goto(q, "check")
  /\ UNCHANGED <<lfp, mem, page, addr, want, cont, time, local, now, crashes, ghost>>

\* journal::load_page once page::load returns: first frame of the page
Loaded(q) ==
  /\ page' = [page EXCEPT ![q] = want[q]]
  /\ addr' = [addr EXCEPT ![q] = first_frame_address]
  /\ Goto(q, cont[q])

\* if (header->last_frame_position == 0)
LoadCheck(q) ==
  /\ pc[q] = "check"
  /\ \/ /\ lfp[want[q]] # 0
        /\ Loaded(q)
     \/ /\ lfp[want[q]] = 0
        /\ Goto(q, IF Master(q) THEN "init" ELSE "segv")
        /\ UNCHANGED <<page, addr>>
  /\ UNCHANGED <<shared, want, cont, time, local, now, crashes, ghost>>

\* the page header is written, last_frame_position last
LoadInit(q) ==
  /\ pc[q] = "init"
  /\ lfp' = [lfp EXCEPT ![want[q]] = first_frame_address]
  /\ num' = [num EXCEPT ![want[q]][first_frame_address] = IF @ = 0 THEN written + 1 ELSE @]
  /\ Loaded(q)
  /\ UNCHANGED <<fsize, mem, want, cont, time, local, now, crashes, written, got>>

----------------------------------------------------------------------------
(* journal::seek_to_time and journal::next *)

\* while (page_->is_full() && page_->end_time() <= nanotime) load_next_page()
SeekPage(q) ==
  /\ pc[q] = "full"
  /\ IF is_full(page[q]) /\ end_time(page[q]) <= time[q]
     THEN page[q] < MaxPage /\ Load(q, page[q] + 1, "full")
     ELSE Goto(q, "walk") /\ UNCHANGED <<want, cont>>
  /\ UNCHANGED <<shared, page, addr, time, local, now, crashes, ghost>>

\* journal::next(): the next frame of this page, or the first one of the next
\* page; an address outside the mapping faults when it is looked at
Next_(q, l) ==
  IF Frame(q).msg_type = PageEnd
  THEN /\ page[q] < MaxPage
       /\ Load(q, page[q] + 1, l)
       /\ UNCHANGED addr
  ELSE LET a == addr[q] + Frame(q).length
       IN  /\ IF InPage(a)
              THEN Goto(q, l) /\ addr' = [addr EXCEPT ![q] = a]
              ELSE Goto(q, "overrun") /\ UNCHANGED addr
           /\ UNCHANGED <<want, cont>>

\* mutant: the seek passes every frame there is
PassAll(q) == has_data(Frame(q))

Passes(q) == has_data(Frame(q)) /\ Frame(q).gen_time <= time[q]

\* while (frame_->has_data() && frame_->gen_time() <= nanotime) next()
SeekFrame(q) ==
  /\ pc[q] = "walk"
  /\ IF Passes(q)
     THEN Next_(q, "walk")
     ELSE /\ Goto(q, IF q = Writer THEN "idle" ELSE "read")
          /\ UNCHANGED <<addr, want, cont>>
  /\ UNCHANGED <<shared, page, time, local, now, crashes, ghost>>

----------------------------------------------------------------------------
(* reader *)

\* reader::join with from_time t; every clock may lag, so any t up to now
Join(r, t) ==
  /\ pc[r] = "down"
  /\ time' = [time EXCEPT ![r] = t]
  /\ Goto(r, "list")
  /\ UNCHANGED <<shared, page, addr, want, cont, local, now, crashes, ghost>>

\* data_available() is true and the event loop is handed the current frame;
\* PageEnd frames are events too, which no handler is interested in
Deliver(r) ==
  /\ pc[r] = "read"
  /\ has_data(Frame(r))
  /\ got' = IF Frame(r).msg_type = PageEnd THEN got
            ELSE [got EXCEPT ![r] = Append(@, Frame(r).id)]
  /\ Goto(r, "next")
  /\ UNCHANGED <<shared, page, addr, want, cont, time, local, now, crashes, written, num>>

\* reader::next()
Advance(r) ==
  /\ pc[r] = "next"
  /\ Next_(r, "read")
  /\ UNCHANGED <<shared, page, time, local, now, crashes, ghost>>

----------------------------------------------------------------------------
(* writer *)

\* mutant: the writer's constructor seeks to the beginning
SeekToStart(s) == 0

SeekTime(s) == now - s

\* the writer's constructor seeks to the time its process believes it is
Start(s) ==
  /\ pc[Writer] = "down"
  /\ skew' = s
  /\ time' = [time EXCEPT ![Writer] = SeekTime(s)]
  /\ Goto(Writer, "list")
  /\ UNCHANGED <<shared, page, addr, want, cont, dlen, endAt, todo, now, crashes, ghost>>

\* mutant: the border test looks at the start of the frame only
MustRollStart(d) == addr[Writer] >= address_border

\* mutant: the border test forgets the header of the frame itself
MustRollNoHeader(d) == addr[Writer] + d >= address_border

MustRoll(d) == addr[Writer] + FrameHeader + d >= address_border

\* mutant: PageEnd is published before the next page is loaded
OpenFrameEndFirst(d) ==
  /\ pc[Writer] = "idle"
  /\ written < MaxFrames
  /\ dlen' = d
  /\ IF MustRoll(d)
     THEN /\ page[Writer] < MaxPage /\ Load(Writer, page[Writer] + 1, "head")
          /\ SetFrame(page[Writer], addr[Writer],
                      [length |-> FrameHeader, header_length |-> FrameHeader,
                       msg_type |-> PageEnd, gen_time |-> WriterNow, id |-> 0])
     ELSE Goto(Writer, "head") /\ UNCHANGED <<want, cont, mem>>
  /\ UNCHANGED <<fsize, lfp, page, addr, time, endAt, todo, skew, now, crashes, ghost>>

\* open_frame up to the test for the end of the page
OpenFrame(d) ==
  /\ pc[Writer] = "idle"
  /\ written < MaxFrames
  /\ dlen' = d
  /\ IF MustRoll(d)
     THEN page[Writer] < MaxPage /\ Load(Writer, page[Writer] + 1, "end_head")
     ELSE Goto(Writer, "head") /\ UNCHANGED <<want, cont>>
  /\ UNCHANGED <<shared, page, addr, time, endAt, todo, skew, now, crashes, ghost>>

LastPage == page[Writer] - 1

\* mutant: PageEnd is written at last_frame_address() itself
EndOnLast == lfp[LastPage]

EndAddress == lfp[LastPage] + mem[LastPage][lfp[LastPage]].length

\* close_page after load_next_page: PageEnd goes one frame after
\* last_frame_address(); header_length, trigger_time, msg_type, source, dest
EndHead ==
  /\ pc[Writer] = "end_head"
  /\ endAt' = EndAddress
  /\ IF InPage(endAt')
     THEN /\ SetFrame(LastPage, endAt',
                      [mem[LastPage][endAt'] EXCEPT !.header_length = FrameHeader,
                                                    !.msg_type = PageEnd])
          /\ Goto(Writer, "end_time")
     ELSE Goto(Writer, "overrun") /\ UNCHANGED mem
  /\ UNCHANGED <<fsize, lfp, page, addr, want, cont, time, dlen, todo, skew,
                 now, crashes, ghost>>

EndTime ==
  /\ pc[Writer] = "end_time"
  /\ SetFrame(LastPage, endAt, [mem[LastPage][endAt] EXCEPT !.gen_time = WriterNow])
  /\ Goto(Writer, "end_length")
  /\ UNCHANGED <<fsize, lfp, page, addr, want, cont, time, local, now, crashes, ghost>>

\* mutant: set_data_length stores the data length alone
NoEndLength == 0

EndFrameLength == FrameHeader

\* set_data_length(0) makes PageEnd visible
EndLength ==
  /\ pc[Writer] = "end_length"
  /\ SetFrame(LastPage, endAt, [mem[LastPage][endAt] EXCEPT !.length = EndFrameLength])
  /\ Goto(Writer, "end_pos")
  /\ UNCHANGED <<fsize, lfp, page, addr, want, cont, time, local, now, crashes, ghost>>

EndPosition ==
  /\ pc[Writer] = "end_pos"
  /\ lfp' = [lfp EXCEPT ![LastPage] = endAt]
  /\ Goto(Writer, "head")
  /\ UNCHANGED <<fsize, mem, page, addr, want, cont, time, local, now, crashes, ghost>>

\* open_frame after the test: header_length, trigger_time, msg_type, source, dest;
\* the gen_time argument of close_frame is taken before its first store
OpenHead ==
  /\ pc[Writer] = "head"
  /\ SetFrame(page[Writer], addr[Writer],
              [Frame(Writer) EXCEPT !.header_length = FrameHeader, !.msg_type = Data])
  /\ todo' = {"body", "next", "time", "length"}
  /\ time' = [time EXCEPT ![Writer] = WriterNow]
  /\ Goto(Writer, "store")
  /\ UNCHANGED <<fsize, lfp, page, addr, want, cont, dlen, endAt, skew,
                 now, crashes, ghost>>

NextAddress == addr[Writer] + FrameHeader + dlen

\* The stores between open_frame and the end of close_frame, in program order
\* unless Reorder: nothing but the compiler and the processor orders them.
Rank == [s \in {"body", "next", "time", "length"} |->
           CASE s = "body" -> 1 [] s = "next" -> 2 [] s = "time" -> 3 [] s = "length" -> 4]

MayStore(s) == s \in todo /\ (Reorder \/ \A x \in todo : Rank[s] <= Rank[x])

\* mem with the data of the frame laid over the offsets behind its header
WithBody ==
  [mem EXCEPT ![page[Writer]] =
     [o \in Offsets |-> IF o = addr[Writer] THEN [@[o] EXCEPT !.id = written + 1]
                        ELSE IF o > addr[Writer] /\ o < NextAddress THEN Garbage
                        ELSE @[o]]]

\* the caller copies the data behind the header
StoreBody ==
  /\ pc[Writer] = "store" /\ MayStore("body")
  /\ IF NextAddress <= PageSize
     THEN mem' = WithBody /\ todo' = todo \ {"body"} /\ UNCHANGED pc
     ELSE Goto(Writer, "overrun") /\ UNCHANGED <<mem, todo>>
  /\ UNCHANGED <<fsize, lfp, page, addr, want, cont, time, dlen, endAt, skew,
                 now, crashes, ghost>>

\* mutant: the header behind the frame keeps what was there
KeepNext == UNCHANGED mem

MemsetNext == SetFrame(page[Writer], NextAddress, Zero)

\* close_frame: memset of the next frame header
StoreNext ==
  /\ pc[Writer] = "store" /\ MayStore("next")
  /\ IF InPage(NextAddress)
     THEN /\ MemsetNext
          /\ todo' = todo \ {"next"}
          /\ UNCHANGED pc
     ELSE Goto(Writer, "overrun") /\ UNCHANGED <<mem, todo>>
  /\ UNCHANGED <<fsize, lfp, page, addr, want, cont, time, dlen, endAt, skew,
                 now, crashes, ghost>>

StoreTime ==
  /\ pc[Writer] = "store" /\ MayStore("time")
  /\ SetFrame(page[Writer], addr[Writer], [Frame(Writer) EXCEPT !.gen_time = time[Writer]])
  /\ todo' = todo \ {"time"}
  /\ UNCHANGED <<fsize, lfp, procs, dlen, endAt, skew, now, crashes, ghost>>

\* set_data_length: has_data() becomes true
StoreLength ==
  /\ pc[Writer] = "store" /\ MayStore("length")
  /\ SetFrame(page[Writer], addr[Writer], [Frame(Writer) EXCEPT !.length = FrameHeader + dlen])
  /\ todo' = todo \ {"length"}
  /\ written' = written + 1
  /\ num' = [num EXCEPT ![page[Writer]] =
               [o \in Offsets |-> IF o = NextAddress THEN @[addr[Writer]] + 1 ELSE @[o]]]
  /\ UNCHANGED <<fsize, lfp, procs, dlen, endAt, skew, now, crashes, got>>

\* set_last_frame_position and journal::next; a caller that has just marked
\* BatchOrderEnd then calls close_data once more
Position ==
  /\ pc[Writer] = "store" /\ todo = {}
  /\ lfp' = [lfp EXCEPT ![page[Writer]] = addr[Writer]]
  /\ addr' = [addr EXCEPT ![Writer] = NextAddress]
  /\ \/ Goto(Writer, "idle")
     \/ dlen = 0 /\ Goto(Writer, "stray")
  /\ UNCHANGED <<fsize, mem, page, want, cont, time, local, now, crashes, ghost>>

\* close_data without open_frame: header_length and the length are 0, so the
\* frame stays empty, but its gen_time and last_frame_position are written
StrayClose ==
  /\ pc[Writer] = "stray"
  /\ SetFrame(page[Writer], addr[Writer], [Zero EXCEPT !.gen_time = WriterNow])
  /\ lfp' = [lfp EXCEPT ![page[Writer]] = addr[Writer]]
  /\ Goto(Writer, "idle")
  /\ UNCHANGED <<fsize, page, addr, want, cont, time, local, now, crashes, ghost>>

\* the writer's process dies; the mapped files survive it, and the nanosecond
\* clock has moved on before it can be started again
Crash ==
  /\ pc[Writer] \notin {"down", "segv", "overrun"}
  /\ crashes < MaxCrash
  /\ now < MaxTime
  /\ crashes' = crashes + 1
  /\ now' = now + 1
  /\ Goto(Writer, "down")
  /\ todo' = {}
  /\ UNCHANGED <<shared, page, addr, want, cont, time, dlen, endAt, skew, ghost>>

Tick ==
  /\ now < MaxTime
  /\ now' = now + 1
  /\ UNCHANGED <<shared, procs, local, crashes, ghost>>

----------------------------------------------------------------------------
LoadStep_(q) == LoadSize(q) \/ LoadOpen(q) \/ LoadStretch(q) \/ LoadCheck(q) \/ LoadInit(q)
SeekStep(q) == ListPages(q) \/ ScanSize(q) \/ ScanTime(q) \/ SeekPage(q) \/ SeekFrame(q)
JournalStep(q) == LoadStep_(q) \/ SeekStep(q)
ReaderStep(r) == JournalStep(r) \/ Deliver(r) \/ Advance(r)
FrameStep == \/ OpenHead \/ StoreBody \/ StoreNext \/ StoreTime \/ StoreLength
             \/ Position \/ StrayClose
PageStep == EndHead \/ EndTime \/ EndLength \/ EndPosition
WriterStep == JournalStep(Writer) \/ FrameStep \/ PageStep

Next ==
  \/ \E r \in Readers : ReaderStep(r) \/ \E t \in 0 .. now : Join(r, t)
  \/ WriterStep
  \/ \E d \in DataLengths : OpenFrame(d)
  \/ \E s \in 0 .. MaxSkew : s < now /\ Start(s)
  \/ Crash
  \/ Tick

Spec == Init /\ [][Next]_vars

\* The scheduler runs every process: readers poll, and a writer that has opened
\* a frame (or is being constructed) goes on.
Fairness == /\ \A r \in Readers : WF_vars(ReaderStep(r))
            /\ WF_vars(WriterStep)

FairSpec == Spec /\ Fairness

----------------------------------------------------------------------------
Labels == {"down", "list", "scan_size", "scan_time", "size", "open", "stretch", "check",
           "init", "full", "walk", "read", "next", "idle", "head", "store", "stray",
           "end_head", "end_time", "end_length", "end_pos", "failed", "segv", "overrun"}

\* Every variable keeps its type: page files, headers and cursors.
TypeOK ==
  /\ fsize \in [Pages -> {NoFile, 0, PageSize}]
  /\ lfp \in [Pages -> Offsets]
  /\ mem \in [Pages -> [Offsets -> Header]]
  /\ pc \in [Procs -> Labels]
  /\ page \in [Procs -> Pages \cup {0}]
  /\ addr \in [Procs -> Offsets]
  /\ want \in [Procs -> Pages]
  /\ cont \in [Procs -> {"full", "walk", "read", "end_head"}]
  /\ time \in [Procs -> Nat]
  /\ dlen \in DataLengths \cup {0}
  /\ endAt \in Nat
  /\ todo \subseteq {"body", "next", "time", "length"}
  /\ now \in Nat /\ skew \in Nat /\ skew < now
  /\ crashes \in Nat
  /\ written \in Nat
  /\ num \in [Pages -> [Offsets -> Nat]]
  /\ got \in [Readers -> Seq(Nat)]

\* A frame is handed to a reader's handlers (hero::drain) only when all of it is
\* there: its body, its gen_time, its type.  has_data() is the reader's only test.
NoTornFrame ==
  \A r \in Readers : pc[r] = "next" =>
     \/ Frame(r).msg_type = PageEnd
     \/ Frame(r).msg_type = Data /\ Frame(r).id \in 1 .. written /\ Frame(r).gen_time > 0

\* When the writer's constructor or close_frame is done, the writer stands on a
\* frame nothing was published in, so open_frame overwrites nothing.
WriterAtEnd == pc[Writer] = "idle" => ~has_data(Frame(Writer))

\* No process ever looks at, or stores to, an address outside its page: the
\* border tests of open_frame leave room for the next header and for PageEnd.
NoOverrun == \A q \in Procs : pc[q] # "overrun"

\* A reader that has met PageEnd finds the next page ready: journal::next neither
\* throws journal_error nor faults, because close_page creates the page first.
NextPageReady ==
  \A r \in Readers : cont[r] = "read" => pc[r] \notin {"failed", "segv"}

Published(c) == c.length > 0 /\ c.msg_type \in {Data, PageEnd}

\* The journal is append-only: what a reader can see of a published frame is
\* never stored to again.
AppendOnly ==
  [][\A p \in Pages, o \in Offsets :
       Published(mem[p][o]) => mem'[p][o] = mem[p][o]]_mem

\* Every frame published while a reader that joined from the start is reading is
\* delivered to that reader.
Broadcast ==
  \A r \in Readers : \A i \in 1 .. MaxFrames :
     (time[r] = 0 /\ pc[r] \in {"read", "next"} /\ written >= i) ~> (Len(got[r]) >= i)

\* Readers that have joined with from_time = 0
Whole == {r \in Readers : pc[r] # "down" /\ time[r] = 0}

Log == INSTANCE JournalLog WITH whole <- Whole

\* The page chain, the headers and the seeks implement the numbered log.
ImplementsLog == Log!Spec
=============================================================================
