----------------------------- MODULE JournalInv -----------------------------
(***************************************************************************)
(* The inductive invariants behind the theorems about Journal.             *)
(* A position (p, o) is a head when num[p][o] > 0: it is the first frame   *)
(* address of an initialised page or lies right behind a published frame.  *)
(* Cursors, last_frame_position and PageEnd only ever stand on heads.      *)
(***************************************************************************)
EXTENDS Journal

\* What the theorems about crashes assume of the instance: stores are seen in
\* program order, no clock is behind, and a frame fits into an empty page.
Sane == /\ Reorder = FALSE
        /\ MaxSkew = 0
        /\ \A d \in DataLengths : PageHeader + FrameHeader + d < address_border

IsHead(p, o) == num[p][o] > 0

Loading  == {"size", "open", "stretch", "check", "init"}
Ending   == {"end_head", "end_time", "end_length", "end_pos"}
Writing  == {"idle", "head", "store", "stray"}
Cursored == {"full", "walk", "read", "next"} \cup Writing \cup Ending

\* close_page has been entered but the next page is not loaded yet
Rolling == pc[Writer] \in Loading /\ cont[Writer] = "end_head"

\* The writer's constructor is looking for the end of the journal
Seeking == \/ pc[Writer] \in {"list", "scan_size", "scan_time", "full", "walk"}
           \/ pc[Writer] \in Loading /\ cont[Writer] # "end_head"

\* Ranges that TypeOK needs to be inductive: a process that uses its page has
\* one, and addresses are tested against the page before they are stored to.
Ranges ==
  /\ \A q \in Procs : pc[q] \in Cursored => page[q] \in Pages
  /\ \A r \in Readers : pc[r] \notin Writing \cup Ending /\ cont[r] # "end_head"
  /\ pc[Writer] \notin {"read", "next"} /\ cont[Writer] # "read"
  /\ Rolling => page[Writer] \in Pages /\ want[Writer] = page[Writer] + 1
  /\ pc[Writer] \in Ending => page[Writer] > 1
  /\ pc[Writer] \in Ending \ {"end_head"} => InPage(endAt)
  /\ (pc[Writer] = "store" /\ "next" \notin todo) => InPage(NextAddress)

\* Page headers and page contents agree.
PageInv ==
  \A p \in Pages :
    /\ lfp[p] # 0 => /\ fsize[p] = PageSize
                     /\ IsHead(p, first_frame_address)
                     /\ IsHead(p, lfp[p])
    /\ lfp[p] = 0 => \A o \in Offsets : num[p][o] = 0 /\ mem[p][o] = Zero

\* What stands on a head.
HeadInv ==
  \A p \in Pages, o \in Offsets : IsHead(p, o) =>
    /\ first_frame_address <= o /\ o < address_border
    /\ mem[p][o].msg_type # Junk
    /\ mem[p][o].length > 0 => mem[p][o].msg_type # NoMsg
    /\ (mem[p][o].length > 0 /\ mem[p][o].msg_type = Data) =>
          /\ mem[p][o].length >= FrameHeader
          /\ o + mem[p][o].length \in Offsets
          /\ IsHead(p, o + mem[p][o].length)
          /\ mem[p][o].id \in 1 .. written
          /\ mem[p][o].gen_time > 0
    /\ mem[p][o].msg_type = PageEnd => p + 1 \in Pages /\ lfp[p + 1] # 0

\* Every head but the last one of a page carries a published frame that ends
\* before the next head.
OrderInv ==
  \A p \in Pages : \A o1, o2 \in Offsets :
    (IsHead(p, o1) /\ IsHead(p, o2) /\ o1 < o2) =>
       /\ has_data(mem[p][o1])
       /\ mem[p][o1].msg_type = Data => o1 + mem[p][o1].length <= o2

\* No frame is from the future, and a writer that seeks has not seen its own time.
TimeInv ==
  /\ \A p \in Pages, o \in Offsets : mem[p][o].gen_time <= now
  /\ pc[Writer] = "down" => \A p \in Pages, o \in Offsets : mem[p][o].gen_time < now
  /\ Seeking => /\ time[Writer] > 0
                /\ \A p \in Pages, o \in Offsets : mem[p][o].gen_time < time[Writer]
  /\ time[Writer] <= now
  /\ skew = 0

\* A process stands on a head, is only ever sent to pages that are ready, and
\* never leaves its page.
CursorOK(q) ==
  /\ pc[q] # "overrun"
  /\ pc[q] \in Cursored => lfp[page[q]] # 0 /\ IsHead(page[q], addr[q])
  /\ pc[q] \in {"check", "init"} => fsize[want[q]] = PageSize
  /\ q \in Readers =>
       /\ pc[q] = "next" => has_data(Frame(q))
       /\ pc[q] \in Loading => /\ want[q] = 1 \/ lfp[want[q]] # 0
                               /\ cont[q] = "read" => lfp[want[q]] # 0
       /\ pc[q] \in {"down", "list", "scan_size", "scan_time", "full", "walk", "failed", "segv"}
            => cont[q] # "read"

CursorInv == \A q \in Procs : CursorOK(q)

\* The writer is at the end: later pages are blank, later offsets are no heads.
WriterInv ==
  /\ pc[Writer] \in Writing \cup Ending \cup {"full", "walk"} \/ Rolling
       => \A p \in Pages : p > page[Writer] => lfp[p] = 0
  /\ pc[Writer] \in {"scan_size", "scan_time"} \/ (Seeking /\ pc[Writer] \in Loading)
       => \A p \in Pages : p > want[Writer] => lfp[p] = 0
  /\ Rolling => lfp[page[Writer]] # 0
  /\ (pc[Writer] \in Writing /\ ~(pc[Writer] = "store" /\ todo = {})) \/ Rolling
       => \A o \in Offsets : IsHead(page[Writer], o) => o <= addr[Writer]
  /\ pc[Writer] \in Ending =>
       /\ addr[Writer] = first_frame_address
       /\ \A o \in Offsets : IsHead(page[Writer], o) => o = first_frame_address
       /\ lfp[LastPage] # 0
  /\ pc[Writer] = "end_head" =>
       \A o \in Offsets : IsHead(LastPage, o) => mem[LastPage][o].msg_type # PageEnd
  /\ pc[Writer] \in Ending \ {"end_head"} =>
       IsHead(LastPage, endAt) /\ mem[LastPage][endAt].msg_type = PageEnd
  /\ (pc[Writer] \in Writing \cup Ending /\ ~(pc[Writer] = "store" /\ todo = {}))
       => Frame(Writer).length = 0

\* How far the frame being written has got.
StoreInv ==
  /\ pc[Writer] \in {"head", "store"} =>
       NextAddress \in Offsets /\ NextAddress < address_border
  /\ Rolling \/ pc[Writer] \in Ending => dlen \in DataLengths
  /\ pc[Writer] = "store" =>
       /\ todo \in {{"body", "next", "time", "length"}, {"next", "time", "length"},
                    {"time", "length"}, {"length"}, {}}
       /\ Frame(Writer).msg_type = Data
       /\ time[Writer] > 0
       /\ "body" \notin todo /\ todo # {} => Frame(Writer).id = written + 1
       /\ "next" \notin todo => /\ mem[page[Writer]][NextAddress].msg_type = NoMsg
                                /\ mem[page[Writer]][NextAddress].length = 0
       /\ "time" \notin todo => Frame(Writer).gen_time > 0
       /\ todo = {} => /\ Frame(Writer).length = FrameHeader + dlen
                       /\ IsHead(page[Writer], NextAddress)
                       /\ \A o \in Offsets : IsHead(page[Writer], o) => o <= NextAddress

ChainInv == /\ PageInv
            /\ HeadInv
            /\ OrderInv
            /\ TimeInv
            /\ CursorInv
            /\ WriterInv
            /\ StoreInv
=============================================================================
