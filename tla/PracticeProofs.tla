--------------------------- MODULE PracticeProofs ---------------------------
(***************************************************************************)
(* Proofs about Practice, for any set of apprentices and any number of     *)
(* processes killed.                                                       *)
(***************************************************************************)
EXTENDS Practice, TLAPS

USE PracticeAssumption

Kinds == {"Register", "Deregister", "RequestReadFrom", "RequestWriteTo", "CachedReadyToRead", "RequestStart",
          "State", "RequestCached", "RequestCachedDone"}

Announcements == [known : SUBSET Nodes, live : SUBSET Nodes]

Args == Procs \cup (SUBSET Nodes) \cup Announcements

LogFrames == [j : Journals, type : Kinds, arg : Args, from : Nat]

Runs == [up : BOOLEAN, pid : Nat, born : Nat, asked : BOOLEAN, fed : BOOLEAN, started : BOOLEAN]

Frames == 1 .. Len(log)

Is(i, type) == log[i].type = type

\* The journals and arguments of each kind of frame.
Shape(f) ==
  /\ f.type = "Register" =>
       (f.j = Pub \/ \E q \in Nodes : f.j = Cmd(q)) /\ f.arg.known \subseteq Nodes /\ f.arg.live \subseteq Nodes
  /\ f.type = "Deregister" => f.j = Pub /\ f.arg \subseteq Nodes
  /\ f.type = "RequestReadFrom" => \/ \E q \in Nodes : f.j = Cmd(q) /\ f.arg \in Nodes
                                   \/ \E a \in Apps : f.j = Req(a) /\ f.arg = Cached
  /\ f.type = "RequestWriteTo" => \/ \E q \in Nodes : f.j = Cmd(q) /\ f.arg \in Procs
                                  \/ \E a \in Apps : f.j = Req(a) /\ f.arg = Cached
  /\ f.type = "CachedReadyToRead" => f.arg \in Apps /\ f.j = Cmd(f.arg)
  /\ f.type = "RequestStart" => f.arg \in Nodes /\ f.j = Cmd(f.arg)
  /\ f.type = "State" => f.arg \in Apps /\ f.j = <<Cached, f.arg>>
  /\ f.type = "RequestCached" => f.arg \in Apps /\ f.j = <<f.arg, Cached>>
  /\ f.type = "RequestCachedDone" => f.arg \in Nodes /\ f.j = Req(Cached)

LogInv == \A i \in Frames : Shape(log[i]) /\ log[i].from < i

TypeInv ==
  /\ log \in Seq(LogFrames) /\ LogInv
  /\ mail \subseteq [q : Nodes, pid : 1 .. MaxCrash + 1]
  /\ app \in [Nodes -> Runs]
  /\ \A q \in Nodes : app[q].pid <= MaxCrash + 1 /\ app[q].born <= Len(log)
  /\ pos \in [Procs -> [Journals -> Int]]
  /\ \A q \in Procs, j \in Journals : pos[q][j] \in NotJoined .. Len(log)
  /\ writers \in [Procs -> SUBSET Procs]
  /\ locations \in [Procs -> SUBSET Nodes] /\ registry \in [Procs -> SUBSET Nodes]
  /\ livepid \in [Nodes -> Nat] /\ crashes \in Nat /\ broken \subseteq Nodes

\* The process of q is up, for the first time.
Active(q) == app[q].up /\ app[q].pid = 1

\* The master has not heard of q.
NotMet(q) == app[q].pid = 0 \/ (app[q].pid = 1 /\ [q |-> q, pid |-> 1] \in mail)

\* The process of q that is up is registered.
Settled(q) == app[q].up /\ q \in registry[Master] /\ livepid[q] = app[q].pid

\* What the master has written for q and q has not read.
Due(q) == {i \in Frames : \/ log[i].j = Pub /\ pos[q][Pub] < i
                          \/ log[i].j = Cmd(q) /\ pos[q][Cmd(q)] < i /\ app[q].born < i}

\* A frame that has nothing to do with q.
Foreign(f, q) ==
  /\ f.j \notin {Cmd(q), Req(q), <<q, Cached>>, <<Cached, q>>}
  /\ f.type = "Register" => q \notin f.arg.live
  /\ f.type = "Deregister" => q \notin f.arg
  /\ f.type = "RequestCachedDone" => f.arg # q
  /\ q = Cached => f.type \notin {"RequestReadFrom", "CachedReadyToRead", "RequestCached"}

Fresh(q) ==
  /\ q \notin registry[Master] /\ writers[q] = {}
  /\ \A p \in Nodes : q \notin registry[p]
  /\ \A i \in Frames : Foreign(log[i], q)

\* The master reads the requests of the processes it has registered.
MasterInv ==
  /\ writers[Master] = registry[Master] /\ registry[Master] \subseteq locations[Master]
  /\ \A j \in Journals : pos[Master][j] # NotJoined <=> \E q \in registry[Master] : j = Req(q)

\* A process runs for the first time when it is registered for the first time, and is
\* registered as long as it runs.
MetInv(q) ==
  /\ \A m \in mail : m.q = q => m.pid <= app[q].pid
  /\ livepid[q] <= app[q].pid
  /\ app[q].up => app[q].pid > 0
  /\ Active(q) /\ q \notin registry[Master] => NotMet(q)
  /\ Active(q) /\ q \in registry[Master] => livepid[q] = 1
  /\ NotMet(q) => Fresh(q)
  /\ Active(q) => \A i \in Frames : Is(i, "Deregister") => q \notin log[i].arg

Names(i, x) == Is(i, "Register") /\ x \in log[i].arg.live

\* The Register that makes q join its command journal comes before everything in it.
JoinInv(q) ==
  /\ \A j \in Journals : pos[q][j] # NotJoined => j = Pub \/ j[2] = q
  /\ app[q].up => pos[q][Pub] # NotJoined
  /\ pos[q][Cmd(q)] # NotJoined => app[q].born <= pos[q][Cmd(q)]
  /\ Settled(q) /\ pos[q][Cmd(q)] = NotJoined => \E k \in Due(q) : log[k].j = Pub /\ Names(k, q)
  /\ Active(q) /\ pos[q][Cmd(q)] = NotJoined =>
       \A i \in Frames : log[i].j = Cmd(q) => \E k \in Due(q) : k < i /\ log[k].j = Pub /\ Names(k, q)

Now == Len(log) + 1

\* q knows x, or will when it comes to frame n.
Knows(q, x, n) == x \in locations[q] \/ \E k \in Due(q) : k < n /\ Is(k, "Register") /\ x \in log[k].arg.known

\* q can write to x, or will when it comes to frame n.
Writes(q, x, n) == x \in writers[q] \/ \E k \in Due(q) : k < n /\ Is(k, "RequestWriteTo") /\ log[k].arg = x

\* What the handlers of q look up is there when they come to it.
LookupInv(q) ==
  Active(q) =>
    /\ q \in registry[Master] => Writes(q, Master, Now) /\ \A x \in locations[Master] : Knows(q, x, Now)
    /\ \A i \in Due(q) : /\ Is(i, "RequestReadFrom") => Knows(q, log[i].arg, i)
                         /\ Is(i, "CachedReadyToRead") => Writes(q, Cached, i)
    /\ \A i \in Frames : Is(i, "RequestReadFrom") /\ log[i].j = Req(q) =>
         \/ Writes(q, Cached, Now)
         \/ \E k \in Frames : k < i /\ pos[Master][Req(q)] < k /\ log[k].j = Req(q) /\ Is(k, "RequestWriteTo")

\* Cached can write to the process that asks it, and to the master.
AnswerInv ==
  Active(Cached) => \A i \in Frames : log[i].type \in {"CachedReadyToRead", "RequestCached"} =>
    Writes(Cached, Master, i) /\ Writes(Cached, log[i].arg, i)

\* A process runs again after a lookup that threw.
BrokenInv == \A q \in broken : app[q].pid >= 2

\* The journal in which cached writes to q.
Feed(q) == <<Cached, q>>

\* q will join it before it comes to frame n.
Opens(q, n) == \E r \in Due(q) : r < n /\ Is(r, "RequestReadFrom") /\ log[r].arg = Cached

\* q will read frame k of it.
Reads(q, k) == IF pos[q][Feed(q)] # NotJoined THEN pos[q][Feed(q)] < k ELSE Opens(q, k)

\* Frame k is state for q that q will read.
Fed(q, k) == Is(k, "State") /\ log[k].arg = q /\ Reads(q, k)

\* The state cached writes to q stands before the RequestStart of q.
StateInv(q) ==
  /\ Active(q) /\ Active(Cached) =>
       \A i \in Frames : log[i].type \in {"CachedReadyToRead", "RequestCached"} /\ log[i].arg = q =>
         pos[q][Feed(q)] # NotJoined \/ Opens(q, Now)
  /\ Active(q) /\ app[Cached].pid <= 1 =>
       \A i \in Frames : log[i].type \in {"RequestCachedDone", "RequestStart"} /\ log[i].arg = q =>
         app[q].fed \/ \E k \in Frames : k < i /\ Fed(q, k)
  /\ app[q].pid = 1 /\ app[Cached].pid <= 1 /\ app[q].started => app[q].fed

\* Cached writes nothing once its end was announced.
GoneInv ==
  app[Cached].pid <= 1 =>
    \A d \in Frames, k \in Frames : Is(d, "Deregister") /\ Cached \in log[d].arg /\ Is(k, "State") => k < d

Drops(i, q, x) == Is(i, "Deregister") /\ x \in log[i].arg /\ x # q

\* q takes x for live once it has read what the master has written.
Believes(q, x) ==
  \/ x \in registry[q] /\ \A d \in Due(q) : ~Drops(d, q, x)
  \/ \E k \in Due(q) : Names(k, x) /\ \A d \in Due(q) : k < d => ~Drops(d, q, x)

BeliefInv(q) ==
  /\ Active(q) => \A x \in Nodes \ {q} : Believes(q, x) => x \in registry[Master]
  /\ Settled(q) => \A x \in registry[Master] : Believes(q, x)

\* As long as one process was killed, all others are in their first run.
LoneInv ==
  /\ crashes = 0 => \A q \in Nodes : app[q].pid = 0 \/ Active(q)
  /\ crashes = 1 => \E y \in Nodes : \A q \in Nodes \ {y} : app[q].pid = 0 \/ Active(q)

PracticeInv ==
  /\ TypeInv /\ MasterInv /\ AnswerInv /\ BrokenInv /\ GoneInv /\ LoneInv
  /\ \A q \in Nodes : MetInv(q) /\ JoinInv(q) /\ LookupInv(q) /\ BeliefInv(q)
  /\ \A q \in Apps : StateInv(q)

-----------------------------------------------------------------------------
(* journals and frames *)

LEMMA NodeNames ==
  /\ Master \notin Nodes /\ Public \notin Nodes /\ Master # Public /\ Cached \in Nodes /\ Apps \subseteq Nodes
  /\ Cached \notin Apps /\ Master # Cached /\ Procs = Nodes \cup {Master} /\ Master \in Procs
  /\ Nodes \subseteq Procs /\ Public \notin Procs /\ MaxCrash \in Nat
  BY DEF Master, Public, Cached, Nodes, Procs

LEMMA JournalOf ==
  ASSUME NEW q \in Nodes
  PROVE  /\ Pub \in Journals /\ Cmd(q) \in Journals /\ Req(q) \in Journals
         /\ q \in Apps => <<q, Cached>> \in Journals /\ <<Cached, q>> \in Journals
         /\ Pub[1] = Master /\ Pub[2] = Public
         /\ Cmd(q)[1] = Master /\ Cmd(q)[2] = q
         /\ Req(q)[1] = q /\ Req(q)[2] = Master
         /\ Pub # Cmd(q) /\ Pub # Req(q)
  BY NodeNames DEF Journals, Pub, Cmd, Req

\* Commands, requests, and what is exchanged with cached, are different journals.
LEMMA JournalsDiffer ==
  ASSUME NEW q \in Nodes, NEW p \in Nodes
  PROVE  /\ Cmd(q) # Req(p) /\ (Cmd(q) = Cmd(p) => q = p) /\ (Req(q) = Req(p) => q = p)
         /\ <<q, p>> # Pub /\ Cmd(q) # Pub /\ Req(q) # Pub
         /\ \A x \in Nodes : <<q, p>> # Cmd(x) /\ <<q, p>> # Req(x)
  BY NodeNames DEF Pub, Cmd, Req

LEMMA FrameOf ==
  ASSUME TypeInv, NEW i \in Frames
  PROVE  /\ log[i] \in LogFrames /\ log[i].j \in Journals /\ log[i].type \in Kinds /\ log[i].from \in Nat
         /\ Shape(log[i]) /\ log[i].from < i /\ i \in Nat /\ i > 0 /\ i <= Len(log)
  <1>1. i \in 1 .. Len(log) /\ log \in Seq(LogFrames) BY DEF TypeInv, Frames
  <1>2. log[i] \in LogFrames BY <1>1
  <1>3. Shape(log[i]) /\ log[i].from < i BY DEF TypeInv, LogInv
  <1>4. /\ log[i].j \in Journals /\ log[i].type \in Kinds /\ log[i].from \in Nat BY <1>2 DEF LogFrames
  <1> QED BY <1>1, <1>2, <1>3, <1>4

Added == Frames' \ Frames

\* The log grows.
LogKept ==
  /\ log' \in Seq(LogFrames) /\ Len(log) \in Nat /\ Len(log') \in Nat /\ Len(log) <= Len(log')
  /\ Frames \subseteq Frames' /\ \A i \in Frames : log'[i] = log[i]
  /\ \A i \in Added : i \in Nat /\ Len(log) < i /\ i <= Len(log')

LogGrows(fs) ==
  /\ LogKept
  /\ \A i \in Added : \E k \in 1 .. Len(fs) : i = Len(log) + k
  /\ \A k \in 1 .. Len(fs) : Len(log) + k \in Added /\ log'[Len(log) + k] = fs[k]

LEMMA Grown ==
  ASSUME log \in Seq(LogFrames), NEW fs \in Seq(LogFrames), log' = log \o fs
  PROVE  LogGrows(fs)
  <1>1. Len(log) \in Nat /\ Len(fs) \in Nat OBVIOUS
  <1>2. log' \in Seq(LogFrames) /\ Len(log') = Len(log) + Len(fs) OBVIOUS
  <1>3. \A i \in 1 .. Len(log) : log'[i] = log[i] OBVIOUS
  <1>4. \A k \in 1 .. Len(fs) : log'[Len(log) + k] = fs[k] BY <1>1
  <1>5. Frames' = 1 .. Len(log) + Len(fs) BY <1>2 DEF Frames
  <1>6. \A i \in Added : i - Len(log) \in 1 .. Len(fs) /\ i = Len(log) + (i - Len(log)) /\ i \in Nat /\ Len(log) < i
    BY <1>1, <1>5 DEF Added, Frames
  <1>7. \A k \in 1 .. Len(fs) : Len(log) + k \in Added BY <1>1, <1>5 DEF Added, Frames
  <1>8. LogKept BY <1>1, <1>2, <1>3, <1>5, <1>6 DEF LogKept, Frames, Added
  <1> QED BY <1>4, <1>6, <1>7, <1>8 DEF LogGrows

LEMMA LogSame ==
  ASSUME log \in Seq(LogFrames), log' = log
  PROVE  LogKept /\ Added = {}
  BY DEF LogKept, Added, Frames

LEMMA GrownOne ==
  ASSUME log \in Seq(LogFrames), NEW a \in LogFrames, log' = log \o <<a>>
  PROVE  LogKept /\ Added = {Now} /\ log'[Now] = a /\ Now \in Nat /\ Now > Len(log)
  <1>1. /\ LogKept /\ Len(<<a>>) = 1 /\ Len(log) \in Nat /\ <<a>>[1] = a
        /\ \A i \in Added : \E k \in 1 .. 1 : i = Len(log) + k
        /\ \A k \in 1 .. 1 : Len(log) + k \in Added /\ log'[Len(log) + k] = <<a>>[k]
    <2> DEFINE fs == <<a>>
    <2>1. fs \in Seq(LogFrames) /\ Len(fs) = 1 /\ fs[1] = a OBVIOUS
    <2>2. log' = log \o fs OBVIOUS
    <2> HIDE DEF fs
    <2>3. LogGrows(fs) BY <2>1, <2>2, Grown
    <2>4. Len(log) \in Nat BY <2>3 DEF LogGrows, LogKept
    <2>5. /\ \A i \in Added : \E k \in 1 .. 1 : i = Len(log) + k
          /\ \A k \in 1 .. 1 : Len(log) + k \in Added /\ log'[Len(log) + k] = fs[k]
      BY <2>1, <2>3 DEF LogGrows
    <2> QED BY <2>1, <2>3, <2>4, <2>5 DEF LogGrows, fs
  <1> QED BY <1>1 DEF Now

LEMMA GrownTwo ==
  ASSUME log \in Seq(LogFrames), NEW a \in LogFrames, NEW b \in LogFrames, log' = log \o <<a, b>>
  PROVE  /\ LogKept /\ Added = {Now, Now + 1} /\ log'[Now] = a /\ log'[Now + 1] = b
         /\ Now \in Nat /\ Now > Len(log)
  <1> DEFINE fs == <<a, b>>
  <1>1. fs \in Seq(LogFrames) /\ Len(fs) = 2 /\ fs[1] = a /\ fs[2] = b OBVIOUS
  <1> HIDE DEF fs
  <1>2. /\ LogKept /\ Len(log) \in Nat
        /\ \A i \in Added : \E k \in 1 .. 2 : i = Len(log) + k
        /\ \A k \in 1 .. 2 : Len(log) + k \in Added /\ log'[Len(log) + k] = fs[k]
    <2>1. log' = log \o fs BY DEF fs
    <2>2. LogGrows(fs) BY <1>1, <2>1, Grown
    <2> QED BY <1>1, <2>2 DEF LogGrows, LogKept
  <1>3. Len(log) + 1 \in Added /\ Len(log) + 2 \in Added /\ log'[Len(log) + 1] = a /\ log'[Len(log) + 2] = b
    BY <1>1, <1>2
  <1>4. Added = {Len(log) + 1, Len(log) + 2} BY <1>2, <1>3
  <1> QED BY <1>2, <1>3, <1>4 DEF Now

LEMMA GrownThree ==
  ASSUME log \in Seq(LogFrames), NEW a \in LogFrames, NEW b \in LogFrames, NEW c \in LogFrames,
         log' = log \o <<a, b, c>>
  PROVE  /\ LogKept /\ Added = {Now, Now + 1, Now + 2}
         /\ log'[Now] = a /\ log'[Now + 1] = b /\ log'[Now + 2] = c
         /\ Now \in Nat /\ Now > Len(log)
  <1> DEFINE fs == <<a, b, c>>
  <1>1. fs \in Seq(LogFrames) /\ Len(fs) = 3 /\ fs[1] = a /\ fs[2] = b /\ fs[3] = c OBVIOUS
  <1> HIDE DEF fs
  <1>2. /\ LogKept /\ Len(log) \in Nat
        /\ \A i \in Added : \E k \in 1 .. 3 : i = Len(log) + k
        /\ \A k \in 1 .. 3 : Len(log) + k \in Added /\ log'[Len(log) + k] = fs[k]
    <2>1. log' = log \o fs BY DEF fs
    <2>2. LogGrows(fs) BY <1>1, <2>1, Grown
    <2> QED BY <1>1, <2>2 DEF LogGrows, LogKept
  <1>3. /\ Len(log) + 1 \in Added /\ Len(log) + 2 \in Added /\ Len(log) + 3 \in Added
        /\ log'[Len(log) + 1] = a /\ log'[Len(log) + 2] = b /\ log'[Len(log) + 3] = c
    BY <1>1, <1>2
  <1>4. Added = {Len(log) + 1, Len(log) + 2, Len(log) + 3} BY <1>2, <1>3
  <1> QED BY <1>2, <1>3, <1>4 DEF Now

LEMMA GrownFour ==
  ASSUME log \in Seq(LogFrames), NEW a \in LogFrames, NEW b \in LogFrames, NEW c \in LogFrames,
         NEW d \in LogFrames, log' = log \o <<a, b, c, d>>
  PROVE  /\ LogKept /\ Added = {Now, Now + 1, Now + 2, Now + 3}
         /\ log'[Now] = a /\ log'[Now + 1] = b /\ log'[Now + 2] = c /\ log'[Now + 3] = d
         /\ Now \in Nat /\ Now > Len(log)
  <1> DEFINE fs == <<a, b, c, d>>
  <1>1. fs \in Seq(LogFrames) /\ Len(fs) = 4 /\ fs[1] = a /\ fs[2] = b /\ fs[3] = c /\ fs[4] = d OBVIOUS
  <1> HIDE DEF fs
  <1>2. /\ LogKept /\ Len(log) \in Nat
        /\ \A i \in Added : \E k \in 1 .. 4 : i = Len(log) + k
        /\ \A k \in 1 .. 4 : Len(log) + k \in Added /\ log'[Len(log) + k] = fs[k]
    <2>1. log' = log \o fs BY DEF fs
    <2>2. LogGrows(fs) BY <1>1, <2>1, Grown
    <2> QED BY <1>1, <2>2 DEF LogGrows, LogKept
  <1>3. /\ Len(log) + 1 \in Added /\ Len(log) + 2 \in Added /\ Len(log) + 3 \in Added /\ Len(log) + 4 \in Added
        /\ log'[Len(log) + 1] = a /\ log'[Len(log) + 2] = b /\ log'[Len(log) + 3] = c /\ log'[Len(log) + 4] = d
    BY <1>1, <1>2
  <1>4. Added = {Len(log) + 1, Len(log) + 2, Len(log) + 3, Len(log) + 4} BY <1>2, <1>3
  <1> QED BY <1>2, <1>3, <1>4 DEF Now

LEMMA MsgType ==
  ASSUME NEW j \in Journals, NEW type \in Kinds, NEW arg \in Args
  PROVE  /\ Msg(j, type, arg) \in LogFrames
         /\ Msg(j, type, arg).j = j /\ Msg(j, type, arg).type = type /\ Msg(j, type, arg).arg = arg
         /\ Msg(j, type, arg).from = 0
  BY DEF Msg, LogFrames

LEMMA ReadFromType ==
  ASSUME NEW j \in Journals, NEW source \in Args, NEW from \in Nat
  PROVE  /\ ReadFromMsg(j, source, from) \in LogFrames
         /\ ReadFromMsg(j, source, from).j = j /\ ReadFromMsg(j, source, from).type = "RequestReadFrom"
         /\ ReadFromMsg(j, source, from).arg = source /\ ReadFromMsg(j, source, from).from = from
  BY DEF ReadFromMsg, LogFrames, Kinds

LEMMA AnnounceType ==
  ASSUME NEW j \in Journals, NEW known \in SUBSET Nodes, NEW live \in SUBSET Nodes
  PROVE  /\ Announce(j, known, live) \in LogFrames
         /\ Announce(j, known, live).j = j /\ Announce(j, known, live).type = "Register"
         /\ Announce(j, known, live).arg = [known |-> known, live |-> live]
         /\ Announce(j, known, live).from = 0
  <1> DEFINE r == [known |-> known, live |-> live]
  <1>1. r \in Announcements BY DEF Announcements
  <1> HIDE DEF r
  <1>2. r \in Args BY <1>1 DEF Args
  <1>3. "Register" \in Kinds BY DEF Kinds
  <1> QED BY <1>2, <1>3, MsgType DEF Announce, r

\* The new frame i.
Put(i, j, type, arg) == i \in Added /\ log'[i].j = j /\ log'[i].type = type /\ log'[i].arg = arg

LEMMA LogTyped ==
  ASSUME TypeInv, LogKept, \A i \in Added : Shape(log'[i]) /\ log'[i].from < i
  PROVE  log' \in Seq(LogFrames) /\ LogInv' /\ Len(log) <= Len(log') /\ Len(log) \in Nat /\ Len(log') \in Nat
  <1>1. log' \in Seq(LogFrames) /\ Len(log) <= Len(log') /\ Len(log) \in Nat /\ Len(log') \in Nat BY DEF LogKept
  <1>2. ASSUME NEW i \in Frames' PROVE Shape(log'[i]) /\ log'[i].from < i
    <2>1. CASE i \in Frames
      <3>1. log'[i] = log[i] BY <2>1 DEF LogKept
      <3>2. Shape(log[i]) /\ log[i].from < i BY <2>1 DEF TypeInv, LogInv
      <3> QED BY <3>1, <3>2
    <2>2. CASE i \notin Frames BY <2>2, <1>2 DEF Added
    <2> QED BY <2>1, <2>2
  <1> QED BY <1>1, <1>2 DEF LogInv

-----------------------------------------------------------------------------
(* what the actions of the master do *)

NodesSame ==
  /\ app' = app /\ crashes' = crashes /\ broken' = broken
  /\ \A q \in Nodes : /\ writers'[q] = writers[q] /\ locations'[q] = locations[q]
                      /\ registry'[q] = registry[q] /\ pos'[q] = pos[q]

HealthStep(dead) ==
  /\ dead \subseteq registry[Master] /\ \A q \in registry[Master] : q \in dead <=> ~Alive(q, livepid[q])
  /\ NodesSame /\ mail' = mail /\ livepid' = livepid
  /\ registry'[Master] = registry[Master] \ dead /\ writers'[Master] = writers[Master] \ dead
  /\ locations'[Master] = locations[Master]
  /\ \A j \in Journals : pos'[Master][j] = IF j[1] \in dead THEN NotJoined ELSE pos[Master][j]
  /\ LogKept /\ Added = {Now} /\ Put(Now, Pub, "Deregister", dead)

LEMMA HealthEffect ==
  ASSUME TypeInv, HealthCheck
  PROVE  TypeInv' /\ \E dead : HealthStep(dead)
  <1> DEFINE dead == {q \in registry[Master] : ~Alive(q, livepid[q])}
             f == Msg(Pub, "Deregister", dead)
  <1>1. /\ log' = Append(log, f)
        /\ registry' = [registry EXCEPT ![Master] = @ \ dead]
        /\ writers' = [writers EXCEPT ![Master] = @ \ dead]
        /\ pos' = [pos EXCEPT ![Master] = DropFrom(@, dead)]
        /\ mail' = mail /\ app' = app /\ locations' = locations /\ livepid' = livepid
        /\ crashes' = crashes /\ broken' = broken
    BY DEF HealthCheck
  <1>2. Master \in Procs /\ registry[Master] \subseteq Nodes BY NodeNames DEF TypeInv
  <1>3. dead \subseteq registry[Master] /\ \A q \in registry[Master] : q \in dead <=> ~Alive(q, livepid[q])
    OBVIOUS
  <1> HIDE DEF dead
  <1>4. f \in LogFrames /\ f.j = Pub /\ f.type = "Deregister" /\ f.arg = dead /\ f.from = 0
    <2>1. dead \in Args BY <1>2, <1>3 DEF Args
    <2>2. "Deregister" \in Kinds /\ Pub \in Journals BY JournalOf, NodeNames DEF Kinds
    <2> QED BY <2>1, <2>2, MsgType
  <1> HIDE DEF f
  <1>5. /\ LogKept /\ Added = {Now} /\ log'[Now] = f /\ Now \in Nat /\ Now > Len(log) /\ Len(log) \in Nat
    <2>1. log \in Seq(LogFrames) BY DEF TypeInv
    <2>2. log' = log \o <<f>> BY <2>1, <1>1, <1>4
    <2>3. LogKept /\ Added = {Now} /\ log'[Now] = f /\ Now \in Nat /\ Now > Len(log)
      BY <2>1, <2>2, <1>4, GrownOne
    <2> QED BY <2>3 DEF LogKept
  <1>6. log' \in Seq(LogFrames) /\ LogInv' /\ Len(log) <= Len(log') /\ Len(log) \in Nat /\ Len(log') \in Nat
    <2>1. \A i \in Added : Shape(log'[i]) /\ log'[i].from < i BY <1>2, <1>3, <1>4, <1>5 DEF Shape
    <2> QED BY <1>5, <2>1, LogTyped
  <1>7. \A q \in Nodes : q \in Procs /\ q # Master BY NodeNames
  <1>8. /\ registry' \in [Procs -> SUBSET Nodes] /\ writers' \in [Procs -> SUBSET Procs]
        /\ registry'[Master] = registry[Master] \ dead /\ writers'[Master] = writers[Master] \ dead
        /\ \A q \in Nodes : registry'[q] = registry[q] /\ writers'[q] = writers[q]
    BY <1>1, <1>2, <1>7 DEF TypeInv
  <1>9. /\ pos' \in [Procs -> [Journals -> Int]] /\ \A q \in Nodes : pos'[q] = pos[q]
        /\ \A j \in Journals : pos'[Master][j] = IF j[1] \in dead THEN NotJoined ELSE pos[Master][j]
    <2> DEFINE d == DropFrom(pos[Master], dead)
    <2>1. pos \in [Procs -> [Journals -> Int]] BY DEF TypeInv
    <2>2. d \in [Journals -> Int] /\ \A j \in Journals : d[j] = IF j[1] \in dead THEN NotJoined ELSE pos[Master][j]
      BY <2>1, <1>2 DEF DropFrom, NotJoined
    <2>3. pos' = [pos EXCEPT ![Master] = d] BY <1>1
    <2> HIDE DEF d
    <2> QED BY <2>1, <2>2, <2>3, <1>2, <1>7
  <1>10. \A q \in Procs, j \in Journals : pos'[q][j] \in NotJoined .. Len(log')
    <2> TAKE q \in Procs, j \in Journals
    <2>1. pos[q][j] \in Int /\ NotJoined <= pos[q][j] /\ pos[q][j] <= Len(log) BY <1>5 DEF TypeInv, NotJoined
    <2>2. q \in Nodes \/ q = Master BY NodeNames
    <2>3. pos'[q][j] = pos[q][j] \/ pos'[q][j] = NotJoined BY <1>9, <2>2
    <2> QED BY <1>6, <2>1, <2>3 DEF NotJoined
  <1>11. TypeInv'
    <2>1. \A q \in Nodes : app'[q].pid <= MaxCrash + 1 /\ app'[q].born <= Len(log')
      <3> TAKE q \in Nodes
      <3>1. app[q].born \in Nat /\ app[q].born <= Len(log) /\ app[q].pid <= MaxCrash + 1 BY DEF TypeInv, Runs
      <3> QED BY <3>1, <1>1, <1>6
    <2> QED BY <1>1, <1>6, <1>8, <1>9, <1>10, <2>1 DEF TypeInv
  <1>12. NodesSame BY <1>1, <1>8, <1>9 DEF NodesSame
  <1>13. HealthStep(dead) BY <1>1, <1>3, <1>4, <1>5, <1>8, <1>9, <1>12 DEF HealthStep, Put
  <1> QED BY <1>11, <1>13

LEMMA TypedFrom ==
  ASSUME TypeInv, LogKept, \A i \in Added : Shape(log'[i]) /\ log'[i].from < i,
         mail' \subseteq mail, app' = app, crashes' = crashes, broken' = broken,
         pos' \in [Procs -> [Journals -> Int]],
         \A q \in Procs, j \in Journals : pos'[q][j] \in NotJoined .. Len(log'),
         writers' \in [Procs -> SUBSET Procs], locations' \in [Procs -> SUBSET Nodes],
         registry' \in [Procs -> SUBSET Nodes], livepid' \in [Nodes -> Nat]
  PROVE  TypeInv'
  <1>1. log' \in Seq(LogFrames) /\ LogInv' /\ Len(log) <= Len(log') /\ Len(log) \in Nat /\ Len(log') \in Nat
    BY LogTyped
  <1>2. \A q \in Nodes : app'[q].pid <= MaxCrash + 1 /\ app'[q].born <= Len(log')
    <2> TAKE q \in Nodes
    <2>1. app[q].born \in Nat /\ app[q].born <= Len(log) /\ app[q].pid <= MaxCrash + 1 BY DEF TypeInv, Runs
    <2> QED BY <2>1, <1>1
  <1> QED BY <1>1, <1>2 DEF TypeInv

LEMMA PosType ==
  ASSUME TypeInv, NEW q \in Procs, NEW j \in Journals
  PROVE  pos[q][j] \in Int /\ NotJoined <= pos[q][j] /\ pos[q][j] <= Len(log) /\ Len(log) \in Nat
  BY DEF TypeInv, NotJoined

Meets(m) ==
  /\ m \in mail /\ mail' = mail \ {m} /\ m.q \in Nodes /\ m.pid \in Nat /\ m.pid > 0
  /\ m.q \notin registry[Master] /\ NodesSame
  /\ locations'[Master] = locations[Master] \cup {m.q}
  /\ LogKept
  /\ Put(Now, Pub, "Register", [known |-> {m.q}, live |-> {m.q}])
  /\ Put(Now + 1, Cmd(m.q), "RequestWriteTo", Master)
  /\ Put(Now + 2, Cmd(m.q), "Register",
         [known |-> locations[Master] \cup {m.q}, live |-> registry[Master] \cup {m.q}])

MetStep(m) ==
  /\ Meets(m) /\ Alive(m.q, m.pid) /\ Added = {Now, Now + 1, Now + 2}
  /\ registry'[Master] = registry[Master] \cup {m.q} /\ writers'[Master] = writers[Master] \cup {m.q}
  /\ livepid'[m.q] = m.pid /\ \A q \in Nodes \ {m.q} : livepid'[q] = livepid[q]
  /\ \A j \in Journals : pos'[Master][j] = IF j = Req(m.q) /\ pos[Master][j] = NotJoined THEN Len(log)
                                                                                       ELSE pos[Master][j]

LostStep(m) ==
  /\ Meets(m) /\ ~Alive(m.q, m.pid) /\ Added = {Now, Now + 1, Now + 2, Now + 3}
  /\ Put(Now + 3, Pub, "Deregister", {m.q})
  /\ registry' = registry /\ writers' = writers /\ pos' = pos /\ livepid' = livepid

RefusedStep(m) ==
  /\ m \in mail /\ mail' = mail \ {m} /\ m.q \in registry[Master] /\ NodesSame /\ log' = log
  /\ registry' = registry /\ writers' = writers /\ pos' = pos /\ livepid' = livepid /\ locations' = locations

LEMMA CheckInEffect ==
  ASSUME TypeInv, CheckIn
  PROVE  TypeInv' /\ \E m : MetStep(m) \/ LostStep(m) \/ RefusedStep(m)
  <1>1. PICK m \in mail : /\ mail' = mail \ {m} /\ (Register(m) \/ Refuse(m))
                          /\ app' = app /\ crashes' = crashes /\ broken' = broken
    BY DEF CheckIn
  <1>2. m.q \in Nodes /\ m.pid \in Nat /\ m.pid > 0 BY <1>1, NodeNames DEF TypeInv
  <1>3. Master \in Procs /\ m.q \in Procs /\ m.q # Master /\ \A q \in Nodes : q \in Procs /\ q # Master
    BY <1>2, NodeNames
  <1>4. registry[Master] \subseteq Nodes /\ locations[Master] \subseteq Nodes BY <1>3 DEF TypeInv
  <1>5. log \in Seq(LogFrames) BY DEF TypeInv
  <1>6. CASE Refuse(m)
    <2>1. RefusedStep(m) BY <1>1, <1>6 DEF RefusedStep, Refuse, NodesSame
    <2>2. LogKept /\ Added = {} BY <1>5, <1>6, LogSame DEF Refuse
    <2>3. \A q \in Procs, j \in Journals : pos'[q][j] \in NotJoined .. Len(log')
      BY <1>6 DEF Refuse, TypeInv
    <2>4. TypeInv' BY <1>1, <1>6, <2>2, <2>3, TypedFrom DEF Refuse, TypeInv
    <2> QED BY <2>1, <2>4
  <1>7. CASE Register(m)
    <2> DEFINE a == Announce(Pub, {m.q}, {m.q})
               w == Msg(Cmd(m.q), "RequestWriteTo", Master)
               b == Announce(Cmd(m.q), locations[Master] \cup {m.q}, Registered(m.q))
               d == Msg(Pub, "Deregister", {m.q})
    <2>1. /\ a \in LogFrames /\ a.j = Pub /\ a.type = "Register" /\ a.from = 0
          /\ a.arg = [known |-> {m.q}, live |-> {m.q}]
      <3>1. {m.q} \in SUBSET Nodes /\ Pub \in Journals BY <1>2, JournalOf
      <3> QED BY <3>1, AnnounceType
    <2>2. /\ w \in LogFrames /\ w.j = Cmd(m.q) /\ w.type = "RequestWriteTo" /\ w.from = 0 /\ w.arg = Master
      <3>1. Master \in Args /\ "RequestWriteTo" \in Kinds BY <1>3 DEF Args, Kinds
      <3>2. Cmd(m.q) \in Journals BY <1>2, JournalOf
      <3> QED BY <3>1, <3>2, MsgType
    <2>3. /\ b \in LogFrames /\ b.j = Cmd(m.q) /\ b.type = "Register" /\ b.from = 0
          /\ b.arg = [known |-> locations[Master] \cup {m.q}, live |-> registry[Master] \cup {m.q}]
      <3>1. locations[Master] \cup {m.q} \in SUBSET Nodes /\ registry[Master] \cup {m.q} \in SUBSET Nodes
        BY <1>2, <1>4
      <3>2. Cmd(m.q) \in Journals BY <1>2, JournalOf
      <3> DEFINE known == locations[Master] \cup {m.q}
                 live == registry[Master] \cup {m.q}
      <3>3. b = Announce(Cmd(m.q), known, live) BY DEF Registered
      <3> HIDE DEF known, live, b
      <3>4. known \in SUBSET Nodes /\ live \in SUBSET Nodes BY <3>1 DEF known, live
      <3>5. b \in LogFrames /\ b.j = Cmd(m.q) /\ b.type = "Register" /\ b.from = 0
            /\ b.arg = [known |-> known, live |-> live]
        BY <3>2, <3>3, <3>4, AnnounceType
      <3> QED BY <3>5 DEF known, live
    <2>4. /\ d \in LogFrames /\ d.j = Pub /\ d.type = "Deregister" /\ d.from = 0 /\ d.arg = {m.q}
      <3> DEFINE gone == {m.q}
      <3>1. gone \in Args /\ "Deregister" \in Kinds BY <1>2 DEF Args, Kinds
      <3>2. Pub \in Journals BY <1>2, JournalOf
      <3> HIDE DEF gone
      <3>3. /\ Msg(Pub, "Deregister", gone) \in LogFrames /\ Msg(Pub, "Deregister", gone).j = Pub
            /\ Msg(Pub, "Deregister", gone).type = "Deregister" /\ Msg(Pub, "Deregister", gone).from = 0
            /\ Msg(Pub, "Deregister", gone).arg = gone
        BY <3>1, <3>2, MsgType
      <3> QED BY <3>3 DEF gone
    <2>5. /\ log' = log \o <<a, w, b>> \o IF Alive(m.q, m.pid) THEN << >> ELSE <<d>>
          /\ locations' = [locations EXCEPT ![Master] = @ \cup {m.q}] /\ m.q \notin registry[Master]
          /\ Alive(m.q, m.pid) =>
               /\ registry' = [registry EXCEPT ![Master] = @ \cup {m.q}]
               /\ writers' = [writers EXCEPT ![Master] = @ \cup {m.q}]
               /\ pos' = [pos EXCEPT ![Master] = JoinFrom(@, Req(m.q), Len(log))]
               /\ livepid' = [livepid EXCEPT ![m.q] = m.pid]
          /\ ~Alive(m.q, m.pid) =>
               registry' = registry /\ writers' = writers /\ pos' = pos /\ livepid' = livepid
      BY <1>7 DEF Register
    <2> HIDE DEF a, w, b, d
    <2>6. /\ locations' \in [Procs -> SUBSET Nodes] /\ locations'[Master] = locations[Master] \cup {m.q}
          /\ \A q \in Nodes : locations'[q] = locations[q]
      BY <2>5, <1>2, <1>3 DEF TypeInv
    <2>7. CASE Alive(m.q, m.pid)
      <3>1. /\ LogKept /\ Added = {Now, Now + 1, Now + 2}
            /\ log'[Now] = a /\ log'[Now + 1] = w /\ log'[Now + 2] = b /\ Now \in Nat /\ Now > Len(log)
        <4>1. log' = log \o <<a, w, b>> BY <2>5, <2>7, <2>1, <2>2, <2>3, <1>5
        <4> QED BY <4>1, <1>5, <2>1, <2>2, <2>3, GrownThree, ZenonT(30)
      <3>2. /\ registry' \in [Procs -> SUBSET Nodes] /\ writers' \in [Procs -> SUBSET Procs]
            /\ livepid' \in [Nodes -> Nat]
            /\ registry'[Master] = registry[Master] \cup {m.q} /\ writers'[Master] = writers[Master] \cup {m.q}
            /\ livepid'[m.q] = m.pid /\ \A q \in Nodes \ {m.q} : livepid'[q] = livepid[q]
            /\ \A q \in Nodes : registry'[q] = registry[q] /\ writers'[q] = writers[q]
        <4>1. /\ registry' = [registry EXCEPT ![Master] = registry[Master] \cup {m.q}]
              /\ writers' = [writers EXCEPT ![Master] = writers[Master] \cup {m.q}]
              /\ livepid' = [livepid EXCEPT ![m.q] = m.pid]
          BY <2>5, <2>7
        <4>2. /\ registry \in [Procs -> SUBSET Nodes] /\ writers \in [Procs -> SUBSET Procs]
              /\ livepid \in [Nodes -> Nat]
          BY DEF TypeInv
        <4>3. /\ registry[Master] \cup {m.q} \in SUBSET Nodes /\ writers[Master] \cup {m.q} \in SUBSET Procs
          BY <4>2, <1>2, <1>3
        <4>4. /\ registry' \in [Procs -> SUBSET Nodes] /\ registry'[Master] = registry[Master] \cup {m.q}
              /\ \A q \in Nodes : registry'[q] = registry[q]
          BY <4>1, <4>2, <4>3, <1>3
        <4>5. /\ writers' \in [Procs -> SUBSET Procs] /\ writers'[Master] = writers[Master] \cup {m.q}
              /\ \A q \in Nodes : writers'[q] = writers[q]
          BY <4>1, <4>2, <4>3, <1>3
        <4>6. /\ livepid' \in [Nodes -> Nat] /\ livepid'[m.q] = m.pid
              /\ \A q \in Nodes \ {m.q} : livepid'[q] = livepid[q]
          BY <4>1, <4>2, <1>2
        <4> QED BY <4>4, <4>5, <4>6
      <3>3. /\ pos' \in [Procs -> [Journals -> Int]] /\ \A q \in Nodes : pos'[q] = pos[q]
            /\ \A j \in Journals : pos'[Master][j] = IF j = Req(m.q) /\ pos[Master][j] = NotJoined THEN Len(log)
                                                                                       ELSE pos[Master][j]
        <4> DEFINE p == JoinFrom(pos[Master], Req(m.q), Len(log))
        <4>1. pos \in [Procs -> [Journals -> Int]] /\ Len(log) \in Int BY <1>5 DEF TypeInv
        <4>2. Req(m.q) \in Journals BY <1>2, JournalOf
        <4>3. p \in [Journals -> Int]
              /\ \A j \in Journals : p[j] = IF j = Req(m.q) /\ pos[Master][j] = NotJoined THEN Len(log)
                                                                                          ELSE pos[Master][j]
          BY <4>1, <4>2, <1>3 DEF JoinFrom
        <4>4. pos' = [pos EXCEPT ![Master] = p] BY <2>5, <2>7
        <4> HIDE DEF p
        <4> QED BY <4>1, <4>3, <4>4, <1>3
      <3>4. \A q \in Procs, j \in Journals : pos'[q][j] \in NotJoined .. Len(log')
        <4> TAKE q \in Procs, j \in Journals
        <4>1. q \in Nodes \/ q = Master BY NodeNames
        <4>2. pos'[q][j] = pos[q][j] \/ pos'[q][j] = Len(log) BY <4>1, <3>3
        <4>3. Len(log) <= Len(log') /\ Len(log') \in Nat BY <3>1 DEF LogKept
        <4> QED BY <4>2, <4>3, PosType DEF NotJoined
      <3>5. \A i \in Added : Shape(log'[i]) /\ log'[i].from < i
        BY <1>2, <1>3, <1>4, <3>1, <2>1, <2>2, <2>3 DEF Shape
      <3>6. mail' \subseteq mail BY <1>1
      <3>7. TypeInv' BY <1>1, <2>6, <3>1, <3>2, <3>3, <3>4, <3>5, <3>6, TypedFrom
      <3>8. NodesSame BY <1>1, <2>6, <3>2, <3>3 DEF NodesSame
      <3>9. Meets(m) BY <1>1, <1>2, <2>1, <2>2, <2>3, <2>5, <2>6, <3>1, <3>8 DEF Meets, Put
      <3>10. MetStep(m) BY <2>7, <3>1, <3>2, <3>3, <3>9 DEF MetStep
      <3> QED BY <3>7, <3>10
    <2>8. CASE ~Alive(m.q, m.pid)
      <3>1. /\ LogKept /\ Added = {Now, Now + 1, Now + 2, Now + 3}
            /\ log'[Now] = a /\ log'[Now + 1] = w /\ log'[Now + 2] = b /\ log'[Now + 3] = d
            /\ Now \in Nat /\ Now > Len(log)
        <4>1. log' = log \o <<a, w, b, d>> BY <2>5, <2>8, <2>1, <2>2, <2>3, <2>4, <1>5, SMTT(30)
        <4> QED BY <4>1, <1>5, <2>1, <2>2, <2>3, <2>4, GrownFour
      <3>2. /\ pos' = pos /\ registry' = registry /\ writers' = writers /\ livepid' = livepid
        BY <2>5, <2>8
      <3>3. \A q \in Procs, j \in Journals : pos'[q][j] \in NotJoined .. Len(log')
        <4> TAKE q \in Procs, j \in Journals
        <4>1. Len(log) <= Len(log') /\ Len(log') \in Nat BY <3>1 DEF LogKept
        <4> QED BY <3>2, <4>1, PosType DEF NotJoined
      <3>4. \A i \in Added : Shape(log'[i]) /\ log'[i].from < i
        BY <1>2, <1>3, <1>4, <3>1, <2>1, <2>2, <2>3, <2>4, SMTT(30) DEF Shape
      <3>5. mail' \subseteq mail BY <1>1
      <3>6. TypeInv' BY <1>1, <2>6, <3>1, <3>2, <3>3, <3>4, <3>5, TypedFrom DEF TypeInv
      <3>7. NodesSame BY <1>1, <2>6, <3>2 DEF NodesSame
      <3>8. Meets(m) BY <1>1, <1>2, <2>1, <2>2, <2>3, <2>5, <2>6, <3>1, <3>7 DEF Meets, Put
      <3>9. LostStep(m) BY <2>8, <3>1, <3>2, <3>8, <2>4 DEF LostStep, Put
      <3> QED BY <3>6, <3>9
    <2> QED BY <2>7, <2>8
  <1> QED BY <1>1, <1>6, <1>7

RequestStep(i, x) ==
  /\ i \in Frames /\ IsNext(Master, i) /\ x \in registry[Master] /\ x \in Nodes /\ log[i].j = Req(x)
  /\ NodesSame /\ mail' = mail /\ livepid' = livepid
  /\ registry' = registry /\ writers' = writers /\ locations' = locations
  /\ \A j \in Journals : pos'[Master][j] = IF j = Req(x) THEN i ELSE pos[Master][j]
  /\ LogKept

WriteStep(i, x) ==
  /\ RequestStep(i, x) /\ Is(i, "RequestWriteTo") /\ x \in Apps
  /\ Put(Now, Cmd(x), "RequestWriteTo", Cached)
  /\ \/ Cached \notin registry[Master] /\ Added = {Now}
     \/ /\ Cached \in registry[Master] /\ Added = {Now, Now + 1}
        /\ Put(Now + 1, Cmd(Cached), "RequestReadFrom", x)

ReadStep(i, x) ==
  /\ RequestStep(i, x) /\ Is(i, "RequestReadFrom") /\ x \in Apps
  /\ \/ Cached \notin registry[Master] /\ Added = {Now} /\ Put(Now, Cmd(x), "CachedReadyToRead", x)
     \/ /\ Cached \in registry[Master] /\ Added = {Now, Now + 1, Now + 2}
        /\ Put(Now, Cmd(Cached), "RequestWriteTo", x) /\ Put(Now + 1, Cmd(x), "RequestReadFrom", Cached)
        /\ Put(Now + 2, Cmd(x), "CachedReadyToRead", x)

DoneStep(i, y) ==
  /\ RequestStep(i, Cached) /\ Is(i, "RequestCachedDone") /\ log[i].arg = y /\ y \in Nodes
  /\ \/ y \notin registry[Master] /\ Added = {}
     \/ /\ y \in registry[Master] /\ Added = {Now, Now + 1}
        /\ Put(Now, Cmd(y), "RequestStart", y)
        /\ Put(Now + 1, Cmd(y), "Register", [known |-> locations[Master], live |-> registry[Master]])

LEMMA MasterReads ==
  ASSUME TypeInv, MasterInv, NEW i \in Unread(Master)
  PROVE  /\ i \in Frames /\ i <= Len(log) /\ i \in Nat
         /\ \E x \in registry[Master] : x \in Nodes /\ log[i].j = Req(x)
  <1>1. i \in 1 .. Len(log) /\ pos[Master][log[i].j] # NotJoined BY DEF Unread
  <1>2. i \in Frames /\ Len(log) \in Nat BY <1>1 DEF Frames, TypeInv
  <1>3. log[i].j \in Journals BY <1>2, FrameOf
  <1>4. PICK x \in registry[Master] : log[i].j = Req(x) BY <1>1, <1>3 DEF MasterInv
  <1>5. registry[Master] \subseteq Nodes BY NodeNames DEF TypeInv
  <1> QED BY <1>1, <1>2, <1>4, <1>5

LEMMA MasterSteps ==
  ASSUME TypeInv, MasterInv, NEW i \in Unread(Master), IsNext(Master, i), NEW x \in registry[Master],
         x \in Nodes, log[i].j = Req(x), pos' = [pos EXCEPT ![Master] = Stepped(Master, i)],
         UNCHANGED <<mail, app, writers, locations, registry, livepid, crashes, broken>>,
         LogKept, \A k \in Added : Shape(log'[k]) /\ log'[k].from < k
  PROVE  TypeInv' /\ RequestStep(i, x)
  <1>1. i \in Frames /\ i <= Len(log) /\ i \in Nat BY MasterReads
  <1>2. Master \in Procs /\ Req(x) \in Journals /\ \A q \in Nodes : q \in Procs /\ q # Master
    BY NodeNames, JournalOf
  <1>3. /\ pos' \in [Procs -> [Journals -> Int]] /\ \A q \in Nodes : pos'[q] = pos[q]
        /\ \A j \in Journals : pos'[Master][j] = IF j = Req(x) THEN i ELSE pos[Master][j]
    <2> DEFINE p == Stepped(Master, i)
    <2>1. pos \in [Procs -> [Journals -> Int]] BY DEF TypeInv
    <2>2. p \in [Journals -> Int] /\ \A j \in Journals : p[j] = IF j = Req(x) THEN i ELSE pos[Master][j]
      BY <1>1, <1>2, <2>1 DEF Stepped
    <2> HIDE DEF p
    <2>3. pos' = [pos EXCEPT ![Master] = p] BY DEF p
    <2> QED BY <2>1, <2>2, <2>3, <1>2
  <1>4. \A q \in Procs, j \in Journals : pos'[q][j] \in NotJoined .. Len(log')
    <2> TAKE q \in Procs, j \in Journals
    <2>1. q \in Nodes \/ q = Master BY NodeNames
    <2>2. pos'[q][j] = pos[q][j] \/ pos'[q][j] = i BY <2>1, <1>3
    <2>3. Len(log) <= Len(log') /\ Len(log') \in Nat BY DEF LogKept
    <2> QED BY <1>1, <2>2, <2>3, PosType DEF NotJoined
  <1>5. TypeInv' BY <1>3, <1>4, TypedFrom DEF TypeInv
  <1>6. NodesSame BY <1>3 DEF NodesSame
  <1> QED BY <1>1, <1>3, <1>5, <1>6 DEF RequestStep

LEMMA RequestEffect ==
  ASSUME TypeInv, MasterInv, MasterFrame
  PROVE  TypeInv' /\ \E i, x : WriteStep(i, x) \/ ReadStep(i, x) \/ DoneStep(i, x)
  <1>1. PICK i \in Unread(Master) :
          /\ IsNext(Master, i)
          /\ pos' = [pos EXCEPT ![Master] = Stepped(Master, i)]
          /\ \/ log[i].type = "RequestWriteTo" /\ log' = log \o WriteToFrames(log[i].j[1], log[i].arg, i)
             \/ log[i].type = "RequestReadFrom" /\ log' = log \o OnReadFrom(log[i])
             \/ log[i].type = "RequestCachedDone" /\ log' = log \o DoneFrames(log[i].arg)
          /\ UNCHANGED <<mail, app, writers, locations, registry, livepid, crashes, broken>>
    BY DEF MasterFrame
  <1>2. i \in Frames /\ i <= Len(log) /\ i \in Nat BY MasterReads
  <1>3. PICK x \in registry[Master] : x \in Nodes /\ log[i].j = Req(x) BY MasterReads
  <1>4. Shape(log[i]) /\ log[i].from \in Nat /\ log[i].from < i /\ log \in Seq(LogFrames)
    BY <1>2, FrameOf DEF TypeInv
  <1>5. log[i].j[1] = x /\ Cmd(x) \in Journals /\ Cmd(Cached) \in Journals /\ Cached \in Nodes /\ Cached # Master
    BY <1>3, JournalOf, NodeNames
  <1>6. writers[Master] = registry[Master] /\ registry[Master] \subseteq Nodes /\ locations[Master] \subseteq Nodes
    BY NodeNames DEF MasterInv, TypeInv
  <1>7. /\ \A q \in Nodes : q \in Args /\ q \in Procs
        /\ {"RequestWriteTo", "RequestReadFrom", "CachedReadyToRead", "RequestStart", "Register"} \subseteq Kinds
    BY NodeNames DEF Args, Kinds
  <1>8. \A q \in Nodes, p \in Nodes : Req(q) # Cmd(p) /\ (Req(q) = Req(p) => q = p) BY JournalsDiffer
  <1>9. Is(i, "RequestWriteTo") \/ Is(i, "RequestReadFrom") => x \in Apps /\ log[i].arg = Cached
    <2>1. \A a \in Apps : a \in Nodes BY NodeNames
    <2> QED BY <1>3, <1>4, <1>8, <2>1 DEF Shape, Is
  <1>10. CASE log[i].type = "RequestWriteTo" /\ log' = log \o WriteToFrames(log[i].j[1], log[i].arg, i)
    <2> DEFINE w == Msg(Cmd(x), "RequestWriteTo", Cached)
               r == ReadFromMsg(Cmd(Cached), x, i)
    <2>1. /\ w \in LogFrames /\ w.j = Cmd(x) /\ w.type = "RequestWriteTo" /\ w.arg = Cached /\ w.from = 0
      BY <1>5, <1>7, MsgType
    <2>2. /\ r \in LogFrames /\ r.j = Cmd(Cached) /\ r.type = "RequestReadFrom" /\ r.arg = x /\ r.from = i
      BY <1>2, <1>3, <1>5, <1>7, ReadFromType
    <2>3. x \in Apps /\ log[i].arg = Cached BY <1>9, <1>10 DEF Is
    <2>4. log' = log \o (<<w>> \o IF Cached \in registry[Master] THEN <<r>> ELSE << >>)
      BY <1>3, <1>5, <1>6, <1>10, <2>3 DEF WriteToFrames
    <2> HIDE DEF w, r
    <2>5. CASE Cached \in registry[Master]
      <3>1. log' = log \o <<w, r>> BY <2>4, <2>5, <2>1, <2>2
      <3>2. /\ LogKept /\ Added = {Now, Now + 1} /\ log'[Now] = w /\ log'[Now + 1] = r
            /\ Now \in Nat /\ Now > Len(log)
        BY <3>1, <1>4, <2>1, <2>2, GrownTwo
      <3>3. \A k \in Added : Shape(log'[k]) /\ log'[k].from < k
        BY <3>2, <1>2, <1>3, <1>5, <1>7, <2>1, <2>2 DEF Shape
      <3>4. TypeInv' /\ RequestStep(i, x) BY <1>1, <1>3, <3>2, <3>3, MasterSteps
      <3>5. WriteStep(i, x) BY <3>2, <3>4, <2>1, <2>2, <2>3, <2>5, <1>10 DEF WriteStep, Put, Is
      <3> QED BY <3>4, <3>5
    <2>6. CASE Cached \notin registry[Master]
      <3>1. log' = log \o <<w>> BY <2>4, <2>6, <2>1
      <3>2. LogKept /\ Added = {Now} /\ log'[Now] = w /\ Now \in Nat /\ Now > Len(log)
        BY <3>1, <1>4, <2>1, GrownOne
      <3>3. \A k \in Added : Shape(log'[k]) /\ log'[k].from < k
        BY <3>2, <1>2, <1>3, <1>5, <1>7, <2>1 DEF Shape
      <3>4. TypeInv' /\ RequestStep(i, x) BY <1>1, <1>3, <3>2, <3>3, MasterSteps
      <3>5. WriteStep(i, x) BY <3>2, <3>4, <2>1, <2>3, <2>6, <1>10 DEF WriteStep, Put, Is
      <3> QED BY <3>4, <3>5
    <2> QED BY <2>5, <2>6
  <1>11. CASE log[i].type = "RequestReadFrom" /\ log' = log \o OnReadFrom(log[i])
    <2> DEFINE w == Msg(Cmd(Cached), "RequestWriteTo", x)
               r == ReadFromMsg(Cmd(x), Cached, log[i].from)
               c == Msg(Cmd(x), "CachedReadyToRead", x)
    <2>1. /\ w \in LogFrames /\ w.j = Cmd(Cached) /\ w.type = "RequestWriteTo" /\ w.arg = x /\ w.from = 0
      BY <1>3, <1>5, <1>7, MsgType
    <2>2. /\ r \in LogFrames /\ r.j = Cmd(x) /\ r.type = "RequestReadFrom" /\ r.arg = Cached
          /\ r.from = log[i].from
      BY <1>4, <1>5, <1>7, ReadFromType
    <2>3. /\ c \in LogFrames /\ c.j = Cmd(x) /\ c.type = "CachedReadyToRead" /\ c.arg = x /\ c.from = 0
      BY <1>3, <1>5, <1>7, MsgType
    <2>4. x \in Apps /\ log[i].arg = Cached BY <1>9, <1>11 DEF Is
    <2>5. log' = log \o ((IF Cached \in registry[Master] THEN <<w, r>> ELSE << >>) \o <<c>>)
      BY <1>3, <1>5, <1>6, <1>11, <2>4 DEF OnReadFrom, ReadFromFrames, ReadyFrames
    <2> HIDE DEF w, r, c
    <2>6. CASE Cached \in registry[Master]
      <3>1. log' = log \o <<w, r, c>> BY <2>5, <2>6, <2>1, <2>2, <2>3
      <3>2. /\ LogKept /\ Added = {Now, Now + 1, Now + 2}
            /\ log'[Now] = w /\ log'[Now + 1] = r /\ log'[Now + 2] = c /\ Now \in Nat /\ Now > Len(log)
        BY <3>1, <1>4, <2>1, <2>2, <2>3, GrownThree
      <3>3. \A k \in Added : Shape(log'[k]) /\ log'[k].from < k
        BY <3>2, <1>2, <1>3, <1>4, <1>5, <1>7, <2>1, <2>2, <2>3, <2>4 DEF Shape
      <3>4. TypeInv' /\ RequestStep(i, x) BY <1>1, <1>3, <3>2, <3>3, MasterSteps
      <3>5. ReadStep(i, x) BY <3>2, <3>4, <2>1, <2>2, <2>3, <2>4, <2>6, <1>11 DEF ReadStep, Put, Is
      <3> QED BY <3>4, <3>5
    <2>7. CASE Cached \notin registry[Master]
      <3>1. log' = log \o <<c>> BY <2>5, <2>7, <2>3
      <3>2. LogKept /\ Added = {Now} /\ log'[Now] = c /\ Now \in Nat /\ Now > Len(log)
        BY <3>1, <1>4, <2>3, GrownOne
      <3>3. \A k \in Added : Shape(log'[k]) /\ log'[k].from < k
        BY <3>2, <1>2, <2>3, <2>4 DEF Shape
      <3>4. TypeInv' /\ RequestStep(i, x) BY <1>1, <1>3, <3>2, <3>3, MasterSteps
      <3>5. ReadStep(i, x) BY <3>2, <3>4, <2>3, <2>4, <2>7, <1>11 DEF ReadStep, Put, Is
      <3> QED BY <3>4, <3>5
    <2> QED BY <2>6, <2>7
  <1>12. CASE log[i].type = "RequestCachedDone" /\ log' = log \o DoneFrames(log[i].arg)
    <2> DEFINE y == log[i].arg
               s == Msg(Cmd(y), "RequestStart", y)
               a == Announce(Cmd(y), locations[Master], registry[Master])
    <2>1. y \in Nodes /\ x = Cached BY <1>3, <1>4, <1>5, <1>8, <1>12 DEF Shape
    <2>2. Cmd(y) \in Journals BY <2>1, JournalOf
    <2>3. log' = log \o (IF y \in registry[Master] THEN <<s, a>> ELSE << >>)
      BY <1>6, <1>12 DEF DoneFrames
    <2> HIDE DEF y
    <2>4. /\ s \in LogFrames /\ s.j = Cmd(y) /\ s.type = "RequestStart" /\ s.arg = y /\ s.from = 0
      BY <2>1, <2>2, <1>7, MsgType
    <2>5. /\ a \in LogFrames /\ a.j = Cmd(y) /\ a.type = "Register" /\ a.from = 0
          /\ a.arg = [known |-> locations[Master], live |-> registry[Master]]
      <3>1. locations[Master] \in SUBSET Nodes /\ registry[Master] \in SUBSET Nodes BY <1>6
      <3> QED BY <3>1, <2>2, AnnounceType
    <2> HIDE DEF s, a
    <2>6. CASE y \in registry[Master]
      <3>1. log' = log \o <<s, a>> BY <2>3, <2>6
      <3>2. /\ LogKept /\ Added = {Now, Now + 1} /\ log'[Now] = s /\ log'[Now + 1] = a
            /\ Now \in Nat /\ Now > Len(log)
        BY <3>1, <1>4, <2>4, <2>5, GrownTwo
      <3>3. \A k \in Added : Shape(log'[k]) /\ log'[k].from < k
        BY <3>2, <1>6, <2>1, <2>4, <2>5 DEF Shape
      <3>4. TypeInv' /\ RequestStep(i, x) BY <1>1, <1>3, <3>2, <3>3, MasterSteps
      <3>5. DoneStep(i, y) BY <3>2, <3>4, <2>1, <2>4, <2>5, <2>6, <1>12 DEF DoneStep, Put, Is, y
      <3> QED BY <3>4, <3>5
    <2>7. CASE y \notin registry[Master]
      <3>1. log' = log BY <2>3, <2>7, <1>4
      <3>2. LogKept /\ Added = {} BY <3>1, <1>4, LogSame
      <3>3. TypeInv' /\ RequestStep(i, x) BY <1>1, <1>3, <3>2, MasterSteps
      <3>4. DoneStep(i, y) BY <3>2, <3>3, <2>1, <2>7, <1>12 DEF DoneStep, Is, y
      <3> QED BY <3>3, <3>4
    <2> QED BY <2>6, <2>7
  <1> QED BY <1>1, <1>10, <1>11, <1>12

-----------------------------------------------------------------------------
(* what the handlers of a process do *)

OthersSame(q) ==
  /\ mail' = mail /\ livepid' = livepid /\ crashes' = crashes
  /\ \A p \in Procs \ {q} : /\ writers'[p] = writers[p] /\ locations'[p] = locations[p]
                            /\ registry'[p] = registry[p] /\ pos'[p] = pos[p]
  /\ \A p \in Nodes \ {q} : app'[p] = app[p]

\* A step of q that leaves it run r, cursors p, writers w, locations l and registry g.
SelfStep(q, r, p, w, l, g) ==
  /\ app' = [app EXCEPT ![q] = r] /\ pos' = [pos EXCEPT ![q] = p] /\ writers' = [writers EXCEPT ![q] = w]
  /\ locations' = [locations EXCEPT ![q] = l] /\ registry' = [registry EXCEPT ![q] = g]
  /\ mail' = mail /\ livepid' = livepid /\ crashes' = crashes

Left(q, r, p, w, l, g) ==
  app'[q] = r /\ pos'[q] = p /\ writers'[q] = w /\ locations'[q] = l /\ registry'[q] = g

LEMMA TypedStep ==
  ASSUME TypeInv, LogKept, \A i \in Added : Shape(log'[i]) /\ log'[i].from < i, NEW q \in Nodes,
         NEW r \in Runs, NEW p \in [Journals -> Int], NEW w \in SUBSET Procs, NEW l \in SUBSET Nodes,
         NEW g \in SUBSET Nodes, SelfStep(q, r, p, w, l, g), broken' \subseteq Nodes,
         r.pid = app[q].pid, r.born = app[q].born,
         \A j \in Journals : NotJoined <= p[j] /\ p[j] <= Len(log)
  PROVE  TypeInv' /\ OthersSame(q) /\ Left(q, r, p, w, l, g)
  <1>1. log' \in Seq(LogFrames) /\ LogInv' /\ Len(log) <= Len(log') /\ Len(log) \in Nat /\ Len(log') \in Nat
    BY LogTyped
  <1>2. q \in Procs BY NodeNames
  <1>3. /\ app' \in [Nodes -> Runs] /\ app'[q] = r /\ \A x \in Nodes \ {q} : app'[x] = app[x]
    BY DEF TypeInv, SelfStep
  <1>4. /\ pos' \in [Procs -> [Journals -> Int]] /\ pos'[q] = p /\ \A x \in Procs \ {q} : pos'[x] = pos[x]
    BY <1>2 DEF TypeInv, SelfStep
  <1>5. /\ writers' \in [Procs -> SUBSET Procs] /\ writers'[q] = w
        /\ \A x \in Procs \ {q} : writers'[x] = writers[x]
    BY <1>2 DEF TypeInv, SelfStep
  <1>6. /\ locations' \in [Procs -> SUBSET Nodes] /\ locations'[q] = l
        /\ \A x \in Procs \ {q} : locations'[x] = locations[x]
    BY <1>2 DEF TypeInv, SelfStep
  <1>7. /\ registry' \in [Procs -> SUBSET Nodes] /\ registry'[q] = g
        /\ \A x \in Procs \ {q} : registry'[x] = registry[x]
    BY <1>2 DEF TypeInv, SelfStep
  <1>8. \A x \in Nodes : app'[x].pid <= MaxCrash + 1 /\ app'[x].born <= Len(log')
    <2> TAKE x \in Nodes
    <2>1. app[x].born \in Nat /\ app[x].born <= Len(log) /\ app[x].pid <= MaxCrash + 1 BY DEF TypeInv, Runs
    <2>2. app'[x].born = app[x].born /\ app'[x].pid = app[x].pid BY <1>3
    <2> QED BY <2>1, <2>2, <1>1
  <1>9. \A x \in Procs, j \in Journals : pos'[x][j] \in NotJoined .. Len(log')
    <2> TAKE x \in Procs, j \in Journals
    <2>1. pos'[x][j] \in Int /\ NotJoined <= pos'[x][j] /\ pos'[x][j] <= Len(log)
      <3>1. CASE x = q BY <3>1, <1>4
      <3>2. CASE x # q BY <3>2, <1>4, PosType
      <3> QED BY <3>1, <3>2
    <2> QED BY <2>1, <1>1 DEF NotJoined
  <1>10. TypeInv' BY <1>1, <1>3, <1>4, <1>5, <1>6, <1>7, <1>8, <1>9 DEF TypeInv, SelfStep
  <1> QED BY <1>3, <1>4, <1>5, <1>6, <1>7, <1>10 DEF OthersSame, Left, SelfStep

Handles(q, i) ==
  /\ q \in Nodes /\ i \in Frames /\ i \in Unread(q) /\ IsNext(q, i) /\ app[q].up
  /\ log[i].j \in Journals /\ pos[q][log[i].j] # NotJoined /\ pos[q][log[i].j] < i
  /\ log[i].j = Pub \/ log[i].j[2] = q

HandleStep(q, i) ==
  /\ Handles(q, i) /\ OthersSame(q) /\ LogKept
  /\ app'[q].pid = app[q].pid /\ app'[q].born = app[q].born

\* A lookup throws.
ThrowStep(q, i) ==
  /\ HandleStep(q, i) /\ ~app'[q].up /\ broken' = broken \cup {q}
  /\ app'[q].started = app[q].started /\ app'[q].fed = app[q].fed
  /\ writers'[q] = writers[q] /\ registry'[q] = registry[q] /\ locations'[q] = locations[q] /\ pos'[q] = pos[q]
  /\ \/ Is(i, "RequestReadFrom") /\ log[i].arg \notin locations[q] /\ log[i].j = Cmd(q) /\ Added = {}
     \/ Is(i, "CachedReadyToRead") /\ Cached \notin writers[q] /\ log[i].j = Cmd(q) /\ Added = {}
     \/ /\ Is(i, "RequestCached") /\ q = Cached /\ ~({log[i].arg, Master} \subseteq writers[q])
        /\ \/ Added = {}
           \/ Added = {Now} /\ Put(Now, <<Cached, log[i].arg>>, "State", log[i].arg) /\ log[i].arg \in Apps

\* The cursor of journal j once q has handled frame i.
Cursor(q, i, j) ==
  IF j = log[i].j THEN i
  ELSE IF Names(i, q) /\ j = Cmd(q) /\ pos[q][j] = NotJoined THEN app[q].born
  ELSE IF Is(i, "RequestReadFrom") /\ j = <<log[i].arg, q>> /\ pos[q][j] = NotJoined THEN log[i].from
  ELSE IF Is(i, "Deregister") /\ j[1] \in log[i].arg \ {q} THEN NotJoined
  ELSE pos[q][j]

\* The frames q writes in the handler of frame i.
Reply(q, i) ==
  \/ Added = {} /\ ~Is(i, "CachedReadyToRead")
  \/ /\ Is(i, "Register") /\ Cached \in log[i].arg.live /\ Master \in writers[q]
     /\ \/ q = Cached /\ Added = {Now} /\ Put(Now, Req(q), "RequestCachedDone", q)
        \/ /\ q \in Apps /\ Added = {Now, Now + 1}
           /\ Put(Now, Req(q), "RequestWriteTo", Cached) /\ Put(Now + 1, Req(q), "RequestReadFrom", Cached)
  \/ /\ Is(i, "CachedReadyToRead") /\ q \in Apps /\ log[i].arg = q /\ Cached \in writers[q]
     /\ Added = {Now} /\ Put(Now, <<q, Cached>>, "RequestCached", q)
  \/ /\ Is(i, "RequestCached") /\ q = Cached /\ log[i].arg \in Apps /\ Added = {Now, Now + 1}
     /\ Put(Now, <<Cached, log[i].arg>>, "State", log[i].arg)
     /\ Put(Now + 1, Req(Cached), "RequestCachedDone", log[i].arg)

GoodStep(q, i) ==
  /\ HandleStep(q, i) /\ app'[q].up /\ broken' = broken
  /\ locations'[q] = locations[q] \cup (IF Is(i, "Register") THEN log[i].arg.known ELSE {})
  /\ registry'[q] = IF Is(i, "Register") THEN registry[q] \cup log[i].arg.live
                    ELSE IF Is(i, "Deregister") THEN registry[q] \ (log[i].arg \ {q}) ELSE registry[q]
  /\ writers'[q] = writers[q] \cup (IF Is(i, "RequestWriteTo") THEN {log[i].arg} ELSE {})
  /\ \A j \in Journals : pos'[q][j] = Cursor(q, i, j)
  /\ app'[q].started = (app[q].started \/ Is(i, "RequestStart"))
  /\ app'[q].fed = (app[q].fed \/ (Is(i, "State") /\ ~app[q].started))
  /\ Reply(q, i)

LEMMA HandlesFrom ==
  ASSUME TypeInv, NEW q \in Nodes, JoinInv(q), NEW i \in Unread(q), app[q].up, IsNext(q, i)
  PROVE  Handles(q, i) /\ i \in Nat /\ i <= Len(log) /\ i > 0
  <1>1. i \in 1 .. Len(log) /\ pos[q][log[i].j] # NotJoined /\ pos[q][log[i].j] < i BY DEF Unread
  <1>2. i \in Frames BY <1>1 DEF Frames
  <1>3. log[i].j \in Journals /\ i \in Nat /\ i <= Len(log) /\ i > 0 BY <1>2, FrameOf
  <1>4. log[i].j = Pub \/ log[i].j[2] = q BY <1>1, <1>3 DEF JoinInv
  <1> QED BY <1>1, <1>2, <1>3, <1>4 DEF Handles

LEMMA HandledKinds ==
  ASSUME TypeInv, NEW q, NEW i, Handles(q, i)
  PROVE  /\ q \in Nodes /\ i \in Frames /\ i \in Nat
         /\ Is(i, "Register") => /\ log[i].j = Pub \/ log[i].j = Cmd(q)
                                 /\ log[i].arg.known \subseteq Nodes /\ log[i].arg.live \subseteq Nodes
         /\ Is(i, "Deregister") => log[i].j = Pub /\ log[i].arg \subseteq Nodes
         /\ Is(i, "RequestReadFrom") => log[i].j = Cmd(q) /\ log[i].arg \in Nodes
         /\ Is(i, "RequestWriteTo") => log[i].j = Cmd(q) /\ log[i].arg \in Procs
         /\ Is(i, "CachedReadyToRead") => log[i].j = Cmd(q) /\ log[i].arg = q /\ q \in Apps
         /\ Is(i, "RequestStart") => log[i].j = Cmd(q) /\ log[i].arg = q
         /\ Is(i, "State") => q \in Apps /\ log[i].arg = q /\ log[i].j = <<Cached, q>>
         /\ Is(i, "RequestCached") => q = Cached /\ log[i].arg \in Apps /\ log[i].j = <<log[i].arg, Cached>>
         /\ ~Is(i, "RequestCachedDone")
  <1>1. q \in Nodes /\ i \in Frames /\ (log[i].j = Pub \/ log[i].j[2] = q) BY DEF Handles
  <1>2. Shape(log[i]) /\ i \in Nat BY <1>1, FrameOf
  <1>3. q # Master /\ Cached \in Nodes /\ Cached # Master /\ \A a \in Apps : a \in Nodes BY <1>1, NodeNames
  <1>4. \A x \in Nodes : /\ Cmd(x) # Pub /\ Req(x) # Pub /\ Cmd(x)[2] = x /\ Req(x)[2] = Master
                         /\ <<x, Cached>> # Pub /\ <<Cached, x>> # Pub
    BY <1>3, JournalOf, JournalsDiffer
  <1>6. Is(i, "Register") => /\ log[i].j = Pub \/ log[i].j = Cmd(q)
                             /\ log[i].arg.known \subseteq Nodes /\ log[i].arg.live \subseteq Nodes
    BY <1>1, <1>2, <1>4 DEF Shape, Is
  <1>7. Is(i, "Deregister") => log[i].j = Pub /\ log[i].arg \subseteq Nodes BY <1>2 DEF Shape, Is
  <1>8. Is(i, "RequestReadFrom") => log[i].j = Cmd(q) /\ log[i].arg \in Nodes
    BY <1>1, <1>2, <1>3, <1>4 DEF Shape, Is
  <1>9. Is(i, "RequestWriteTo") => log[i].j = Cmd(q) /\ log[i].arg \in Procs
    BY <1>1, <1>2, <1>3, <1>4 DEF Shape, Is
  <1>10. Is(i, "CachedReadyToRead") => log[i].j = Cmd(q) /\ log[i].arg = q /\ q \in Apps
    BY <1>1, <1>2, <1>3, <1>4 DEF Shape, Is
  <1>11. Is(i, "RequestStart") => log[i].j = Cmd(q) /\ log[i].arg = q
    BY <1>1, <1>2, <1>4 DEF Shape, Is
  <1>12. Is(i, "State") => q \in Apps /\ log[i].arg = q /\ log[i].j = <<Cached, q>>
    <2> SUFFICES ASSUME Is(i, "State") PROVE q \in Apps /\ log[i].arg = q /\ log[i].j = <<Cached, q>> OBVIOUS
    <2> DEFINE x == log[i].arg
    <2>1. x \in Apps /\ log[i].j = <<Cached, x>> BY <1>2 DEF Shape, Is
    <2> HIDE DEF x
    <2>2. x \in Nodes /\ <<Cached, x>> # Pub /\ <<Cached, x>>[2] = x BY <2>1, <1>3, <1>4
    <2>3. log[i].j # Pub BY <2>1, <2>2
    <2>4. log[i].j[2] = x BY <2>1, <2>2
    <2>5. q = x BY <2>3, <2>4, <1>1
    <2> QED BY <2>1, <2>5 DEF x
  <1>13. Is(i, "RequestCached") => q = Cached /\ log[i].arg \in Apps /\ log[i].j = <<log[i].arg, Cached>>
    <2> SUFFICES ASSUME Is(i, "RequestCached")
                 PROVE  q = Cached /\ log[i].arg \in Apps /\ log[i].j = <<log[i].arg, Cached>>
      OBVIOUS
    <2> DEFINE x == log[i].arg
    <2>1. x \in Apps /\ log[i].j = <<x, Cached>> BY <1>2 DEF Shape, Is
    <2> HIDE DEF x
    <2>2. x \in Nodes /\ <<x, Cached>> # Pub /\ <<x, Cached>>[2] = Cached BY <2>1, <1>3, <1>4
    <2>3. log[i].j # Pub BY <2>1, <2>2
    <2>4. log[i].j[2] = Cached BY <2>1, <2>2
    <2>5. q = Cached BY <2>3, <2>4, <1>1
    <2> QED BY <2>1, <2>5 DEF x
  <1>14. ~Is(i, "RequestCachedDone") BY <1>1, <1>2, <1>3, <1>4 DEF Shape, Is
  <1> QED BY <1>1, <1>2, <1>6, <1>7, <1>8, <1>9, <1>10, <1>11, <1>12, <1>13, <1>14

LEMMA RunOf ==
  ASSUME TypeInv, NEW q \in Nodes
  PROVE  /\ app[q] \in Runs /\ app[q].pid \in Nat /\ app[q].born \in Nat /\ app[q].up \in BOOLEAN
         /\ app[q].fed \in BOOLEAN /\ app[q].started \in BOOLEAN /\ app[q].asked \in BOOLEAN
         /\ app[q].born <= Len(log) /\ Len(log) \in Nat /\ app[q].pid <= MaxCrash + 1
         /\ pos[q] \in [Journals -> Int] /\ writers[q] \in SUBSET Procs
         /\ locations[q] \in SUBSET Nodes /\ registry[q] \in SUBSET Nodes
         /\ \A j \in Journals : pos[q][j] \in Int /\ NotJoined <= pos[q][j] /\ pos[q][j] <= Len(log)
  <1>1. q \in Procs BY NodeNames
  <1>2. app[q] \in Runs BY DEF TypeInv
  <1>3. \A j \in Journals : pos[q][j] \in Int /\ NotJoined <= pos[q][j] /\ pos[q][j] <= Len(log)
    BY <1>1, PosType
  <1>4. app[q].born <= Len(log) /\ Len(log) \in Nat /\ app[q].pid <= MaxCrash + 1 BY DEF TypeInv
  <1>5. /\ pos[q] \in [Journals -> Int] /\ writers[q] \in SUBSET Procs
        /\ locations[q] \in SUBSET Nodes /\ registry[q] \in SUBSET Nodes
    BY <1>1 DEF TypeInv
  <1> QED BY <1>2, <1>3, <1>4, <1>5 DEF Runs

\* A cursor that steps over frame i.
LEMMA SteppedType ==
  ASSUME TypeInv, NEW q, NEW i, Handles(q, i)
  PROVE  /\ Stepped(q, i) \in [Journals -> Int]
         /\ \A j \in Journals : /\ Stepped(q, i)[j] = IF j = log[i].j THEN i ELSE pos[q][j]
                                /\ NotJoined <= Stepped(q, i)[j] /\ Stepped(q, i)[j] <= Len(log)
  <1>1. q \in Nodes /\ i \in Frames /\ log[i].j \in Journals BY DEF Handles
  <1>2. i \in Nat /\ i > 0 /\ i <= Len(log) BY <1>1, FrameOf
  <1>3. pos[q] \in [Journals -> Int] /\ \A j \in Journals : NotJoined <= pos[q][j] /\ pos[q][j] <= Len(log)
    BY <1>1, RunOf
  <1> QED BY <1>1, <1>2, <1>3 DEF Stepped, NotJoined

LEMMA SameSelf ==
  ASSUME TypeInv, NEW q \in Nodes
  PROVE  /\ app = [app EXCEPT ![q] = app[q]] /\ pos = [pos EXCEPT ![q] = pos[q]]
         /\ writers = [writers EXCEPT ![q] = writers[q]]
         /\ locations = [locations EXCEPT ![q] = locations[q]]
         /\ registry = [registry EXCEPT ![q] = registry[q]]
  <1>1. q \in Procs BY NodeNames
  <1> QED BY <1>1 DEF TypeInv

LEMMA RegisterEffect ==
  ASSUME TypeInv, NEW q, NEW i, Handles(q, i), Is(i, "Register"), OnRegister(q, i),
         UNCHANGED <<mail, livepid, crashes>>
  PROVE  TypeInv' /\ GoodStep(q, i)
  <1> DEFINE new == log[i].arg
             p == IF q \in new.live THEN JoinFrom(Stepped(q, i), Cmd(q), app[q].born) ELSE Stepped(q, i)
             l == locations[q] \cup new.known
             g == registry[q] \cup new.live
             w == writers[q]
             r == IF Asks(q, new.live) THEN [app[q] EXCEPT !.asked = TRUE] ELSE app[q]
  <1>1. /\ q \in Nodes /\ i \in Frames /\ i \in Nat
        /\ log[i].j = Pub \/ log[i].j = Cmd(q)
        /\ new.known \subseteq Nodes /\ new.live \subseteq Nodes
    BY HandledKinds
  <1>2. /\ app[q] \in Runs /\ locations[q] \in SUBSET Nodes /\ registry[q] \in SUBSET Nodes
        /\ writers[q] \in SUBSET Procs /\ app[q].born \in Nat /\ app[q].born <= Len(log) /\ Len(log) \in Nat
        /\ app[q].fed \in BOOLEAN /\ app[q].started \in BOOLEAN
    BY <1>1, RunOf
  <1>3. i <= Len(log) /\ log \in Seq(LogFrames) /\ app[q].up BY <1>1, FrameOf DEF TypeInv, Handles
  <1>4. Cmd(q) \in Journals /\ Req(q) \in Journals BY <1>1, JournalOf
  <1>5. /\ locations' = [locations EXCEPT ![q] = l] /\ registry' = [registry EXCEPT ![q] = g]
        /\ pos' = [pos EXCEPT ![q] = p] /\ writers' = writers /\ broken' = broken
        /\ Asks(q, new.live) => /\ app' = [app EXCEPT ![q].asked = TRUE]
                                /\ \E from \in {i, Len(log)} : log' = log \o AskFrames(q, from)
        /\ ~Asks(q, new.live) => app' = app /\ log' = log
    BY DEF OnRegister
  <1>6. /\ p \in [Journals -> Int] /\ \A j \in Journals : NotJoined <= p[j] /\ p[j] <= Len(log)
        /\ \A j \in Journals : p[j] = Cursor(q, i, j)
    <2> DEFINE s == Stepped(q, i)
    <2>1. /\ s \in [Journals -> Int]
          /\ \A j \in Journals : /\ s[j] = IF j = log[i].j THEN i ELSE pos[q][j]
                                 /\ NotJoined <= s[j] /\ s[j] <= Len(log)
      BY SteppedType
    <2> HIDE DEF s
    <2>2. p = IF q \in new.live THEN JoinFrom(s, Cmd(q), app[q].born) ELSE s BY DEF s
    <2>3. /\ JoinFrom(s, Cmd(q), app[q].born) \in [Journals -> Int]
          /\ \A j \in Journals : JoinFrom(s, Cmd(q), app[q].born)[j] =
                                   IF j = Cmd(q) /\ s[j] = NotJoined THEN app[q].born ELSE s[j]
      BY <1>2, <1>4, <2>1 DEF JoinFrom
    <2> DEFINE c == JoinFrom(s, Cmd(q), app[q].born)
    <2> HIDE DEF c
    <2>4. p \in [Journals -> Int] BY <2>1, <2>2, <2>3 DEF c
    <2>5. ~Is(i, "RequestReadFrom") /\ ~Is(i, "Deregister") BY DEF Is
    <2>6. ASSUME NEW j \in Journals PROVE p[j] = Cursor(q, i, j) /\ NotJoined <= p[j] /\ p[j] <= Len(log)
      <3>1. p[j] = IF q \in new.live /\ j = Cmd(q) /\ s[j] = NotJoined THEN app[q].born ELSE s[j]
        BY <2>2, <2>3
      <3>2. s[j] = (IF j = log[i].j THEN i ELSE pos[q][j]) /\ NotJoined <= s[j] /\ s[j] <= Len(log) BY <2>1
      <3>3. NotJoined <= p[j] /\ p[j] <= Len(log) BY <1>2, <3>1, <3>2 DEF NotJoined
      <3>4. p[j] = Cursor(q, i, j)
        <4>1. CASE j = log[i].j BY <1>1, <3>1, <3>2, <4>1 DEF Cursor, NotJoined
        <4>2. CASE j # log[i].j BY <2>5, <3>1, <3>2, <4>2 DEF Cursor, Names
        <4> QED BY <4>1, <4>2
      <3> QED BY <3>3, <3>4
    <2> QED BY <2>4, <2>6
  <1>7. l \in SUBSET Nodes /\ g \in SUBSET Nodes /\ w \in SUBSET Procs BY <1>1, <1>2
  <1>8. /\ r \in Runs /\ r.pid = app[q].pid /\ r.born = app[q].born /\ r.up = app[q].up
        /\ r.fed = app[q].fed /\ r.started = app[q].started /\ app' = [app EXCEPT ![q] = r]
    <2>1. CASE Asks(q, new.live)
      <3>1. r = [app[q] EXCEPT !.asked = TRUE] BY <2>1
      <3>2. app' = [app EXCEPT ![q] = r] BY <1>5, <2>1, <3>1
      <3> HIDE DEF r
      <3> QED BY <1>2, <3>1, <3>2 DEF Runs
    <2>2. CASE ~Asks(q, new.live) BY <1>1, <1>2, <1>5, <2>2, SameSelf
    <2> QED BY <2>1, <2>2
  <1>9. LogKept /\ (\A k \in Added : Shape(log'[k]) /\ log'[k].from < k) /\ Reply(q, i)
    <2>1. CASE ~Asks(q, new.live)
      <3>1. LogKept /\ Added = {} BY <1>3, <1>5, <2>1, LogSame
      <3>2. ~Is(i, "CachedReadyToRead") BY DEF Is
      <3> QED BY <3>1, <3>2 DEF Reply
    <2>2. CASE Asks(q, new.live)
      <3>1. Cached \in new.live /\ Master \in writers[q] BY <2>2 DEF Asks
      <3>2. PICK from \in {i, Len(log)} : log' = log \o AskFrames(q, from) BY <1>5, <2>2
      <3>3. from \in Nat /\ from <= Len(log) BY <1>1, <1>2, <1>3, <3>2
      <3>4. CASE q = Cached
        <4> DEFINE d == Msg(Req(q), "RequestCachedDone", q)
        <4>1. d \in LogFrames /\ d.j = Req(q) /\ d.type = "RequestCachedDone" /\ d.arg = q /\ d.from = 0
          <5>1. q \in Args /\ "RequestCachedDone" \in Kinds BY <1>1, NodeNames DEF Args, Kinds
          <5> QED BY <1>4, <5>1, MsgType
        <4>2. log' = log \o <<d>> BY <3>2, <3>4 DEF AskFrames
        <4> HIDE DEF d
        <4>3. LogKept /\ Added = {Now} /\ log'[Now] = d /\ Now \in Nat /\ Now > Len(log)
          BY <1>3, <4>1, <4>2, GrownOne
        <4>4. \A k \in Added : Shape(log'[k]) /\ log'[k].from < k
          BY <1>1, <1>2, <3>4, <4>1, <4>3 DEF Shape
        <4>5. Put(Now, Req(q), "RequestCachedDone", q) BY <4>1, <4>3 DEF Put
        <4> QED BY <3>1, <3>4, <4>3, <4>4, <4>5 DEF Reply
      <3>5. CASE q # Cached
        <4> DEFINE a == Msg(Req(q), "RequestWriteTo", Cached)
                   b == ReadFromMsg(Req(q), Cached, from)
        <4>1. q \in Apps /\ Cached \in Args /\ "RequestWriteTo" \in Kinds
          BY <1>1, <3>5, NodeNames DEF Nodes, Args, Kinds
        <4>2. a \in LogFrames /\ a.j = Req(q) /\ a.type = "RequestWriteTo" /\ a.arg = Cached /\ a.from = 0
          BY <1>4, <4>1, MsgType
        <4>3. b \in LogFrames /\ b.j = Req(q) /\ b.type = "RequestReadFrom" /\ b.arg = Cached /\ b.from = from
          BY <1>4, <3>3, <4>1, ReadFromType
        <4>4. log' = log \o <<a, b>> BY <3>2, <3>5 DEF AskFrames
        <4> HIDE DEF a, b
        <4>5. /\ LogKept /\ Added = {Now, Now + 1} /\ log'[Now] = a /\ log'[Now + 1] = b
              /\ Now \in Nat /\ Now > Len(log)
          BY <1>3, <4>2, <4>3, <4>4, GrownTwo
        <4>6. \A k \in Added : Shape(log'[k]) /\ log'[k].from < k
          BY <1>2, <3>3, <4>1, <4>2, <4>3, <4>5 DEF Shape
        <4>7. Put(Now, Req(q), "RequestWriteTo", Cached) /\ Put(Now + 1, Req(q), "RequestReadFrom", Cached)
          BY <4>2, <4>3, <4>5 DEF Put
        <4> QED BY <3>1, <4>1, <4>5, <4>6, <4>7 DEF Reply
      <3> QED BY <3>4, <3>5
    <2> QED BY <2>1, <2>2
  <1>10. SelfStep(q, r, p, w, l, g)
    <2>1. writers' = [writers EXCEPT ![q] = w] BY <1>1, <1>5, SameSelf
    <2> HIDE DEF r, p, w, l, g
    <2> QED BY <1>5, <1>8, <2>1 DEF SelfStep
  <1> HIDE DEF p, r
  <1>11. TypeInv' /\ OthersSame(q) /\ Left(q, r, p, w, l, g)
    <2>1. broken' \subseteq Nodes BY <1>5 DEF TypeInv
    <2> HIDE DEF l, g, w
    <2> QED BY <1>1, <1>6, <1>7, <1>8, <1>9, <1>10, <2>1, TypedStep
  <1>12. HandleStep(q, i) BY <1>8, <1>9, <1>11 DEF HandleStep, Left
  <1>13. /\ ~Is(i, "Deregister") /\ ~Is(i, "RequestWriteTo") /\ ~Is(i, "RequestStart") /\ ~Is(i, "State")
    BY DEF Is
  <1>14. /\ app'[q].up /\ app'[q].started = app[q].started /\ app'[q].fed = app[q].fed
         /\ locations'[q] = locations[q] \cup new.known /\ registry'[q] = registry[q] \cup new.live
         /\ writers'[q] = writers[q] \cup {} /\ \A j \in Journals : pos'[q][j] = Cursor(q, i, j)
    BY <1>3, <1>6, <1>8, <1>11 DEF Left
  <1>15. GoodStep(q, i) BY <1>2, <1>5, <1>9, <1>12, <1>13, <1>14 DEF GoodStep
  <1> QED BY <1>11, <1>15

LEMMA DeregisterEffect ==
  ASSUME TypeInv, NEW q, NEW i, Handles(q, i), Is(i, "Deregister"), OnDeregister(q, i),
         UNCHANGED <<mail, livepid, crashes>>
  PROVE  TypeInv' /\ GoodStep(q, i)
  <1> DEFINE gone == log[i].arg \ {q}
             p == DropFrom(Stepped(q, i), gone)
             g == registry[q] \ gone
             r == app[q]
             w == writers[q]
             l == locations[q]
  <1>1. q \in Nodes /\ i \in Frames /\ log[i].j = Pub /\ log[i].arg \subseteq Nodes /\ app[q].up
    BY HandledKinds DEF Handles
  <1>2. /\ r \in Runs /\ l \in SUBSET Nodes /\ g \in SUBSET Nodes /\ w \in SUBSET Procs
        /\ app[q].fed \in BOOLEAN /\ app[q].started \in BOOLEAN
    BY <1>1, RunOf
  <1>3. /\ pos' = [pos EXCEPT ![q] = p] /\ registry' = [registry EXCEPT ![q] = g]
        /\ log' = log /\ app' = app /\ writers' = writers /\ locations' = locations /\ broken' = broken
    BY DEF OnDeregister
  <1>4. LogKept /\ Added = {} BY <1>3, LogSame DEF TypeInv
  <1>5. /\ p \in [Journals -> Int] /\ \A j \in Journals : NotJoined <= p[j] /\ p[j] <= Len(log)
        /\ \A j \in Journals : p[j] = Cursor(q, i, j)
    <2> DEFINE s == Stepped(q, i)
    <2>1. /\ s \in [Journals -> Int]
          /\ \A j \in Journals : /\ s[j] = IF j = log[i].j THEN i ELSE pos[q][j]
                                 /\ NotJoined <= s[j] /\ s[j] <= Len(log)
      BY SteppedType
    <2>2. p = DropFrom(s, gone) OBVIOUS
    <2>3. ~Is(i, "RequestReadFrom") /\ ~Is(i, "Register") BY DEF Is
    <2>4. Pub[1] \notin gone BY <1>1, JournalOf, NodeNames
    <2>5. Len(log) \in Nat BY DEF TypeInv
    <2> HIDE DEF s, gone
    <2>6. /\ p \in [Journals -> Int]
          /\ \A j \in Journals : p[j] = IF j[1] \in gone THEN NotJoined ELSE s[j]
      BY <2>1, <2>2 DEF DropFrom, NotJoined
    <2> HIDE DEF p
    <2>7. ASSUME NEW j \in Journals PROVE p[j] = Cursor(q, i, j) /\ NotJoined <= p[j] /\ p[j] <= Len(log)
      <3>1. p[j] = (IF j[1] \in gone THEN NotJoined ELSE s[j]) BY <2>6
      <3>2. s[j] = (IF j = log[i].j THEN i ELSE pos[q][j]) /\ NotJoined <= s[j] /\ s[j] <= Len(log) BY <2>1
      <3>3. NotJoined <= p[j] /\ p[j] <= Len(log) BY <2>5, <3>1, <3>2 DEF NotJoined
      <3>4. p[j] = Cursor(q, i, j) BY <1>1, <2>3, <2>4, <3>1, <3>2 DEF Cursor, Names, gone
      <3> QED BY <3>3, <3>4
    <2> QED BY <2>6, <2>7
  <1>6. SelfStep(q, r, p, w, l, g)
    <2>1. /\ app' = [app EXCEPT ![q] = r] /\ writers' = [writers EXCEPT ![q] = w]
          /\ locations' = [locations EXCEPT ![q] = l]
      BY <1>1, <1>3, SameSelf
    <2> HIDE DEF r, p, w, l, g
    <2> QED BY <1>3, <2>1 DEF SelfStep
  <1> HIDE DEF p
  <1>7. TypeInv' /\ OthersSame(q) /\ Left(q, r, p, w, l, g)
    <2>1. broken' \subseteq Nodes BY <1>3 DEF TypeInv
    <2> HIDE DEF l, g, w
    <2> QED BY <1>1, <1>2, <1>4, <1>5, <1>6, <2>1, TypedStep
  <1>8. HandleStep(q, i) BY <1>4, <1>7 DEF HandleStep, Left
  <1>9. /\ ~Is(i, "Register") /\ ~Is(i, "RequestWriteTo") /\ ~Is(i, "RequestStart") /\ ~Is(i, "State")
        /\ ~Is(i, "CachedReadyToRead")
    BY DEF Is
  <1>10. /\ app'[q].up /\ app'[q].started = app[q].started /\ app'[q].fed = app[q].fed
         /\ locations'[q] = locations[q] \cup {} /\ registry'[q] = registry[q] \ (log[i].arg \ {q})
         /\ writers'[q] = writers[q] \cup {} /\ \A j \in Journals : pos'[q][j] = Cursor(q, i, j)
    BY <1>1, <1>5, <1>7 DEF Left
  <1>11. Reply(q, i) BY <1>4, <1>9 DEF Reply
  <1>12. GoodStep(q, i) BY <1>2, <1>3, <1>8, <1>9, <1>10, <1>11 DEF GoodStep
  <1> QED BY <1>7, <1>12

LEMMA ThrowTyped ==
  ASSUME TypeInv, NEW q, NEW i, Handles(q, i), Throw(q), pos' = pos, UNCHANGED <<mail, livepid, crashes>>,
         LogKept, \A k \in Added : Shape(log'[k]) /\ log'[k].from < k
  PROVE  /\ TypeInv' /\ HandleStep(q, i) /\ ~app'[q].up /\ broken' = broken \cup {q}
         /\ app'[q].started = app[q].started /\ app'[q].fed = app[q].fed
         /\ writers'[q] = writers[q] /\ registry'[q] = registry[q] /\ locations'[q] = locations[q]
         /\ pos'[q] = pos[q]
  <1> DEFINE r == [app[q] EXCEPT !.up = FALSE]
  <1>1. q \in Nodes BY DEF Handles
  <1>2. /\ app[q] \in Runs /\ locations[q] \in SUBSET Nodes /\ registry[q] \in SUBSET Nodes
        /\ writers[q] \in SUBSET Procs /\ pos[q] \in [Journals -> Int]
        /\ \A j \in Journals : NotJoined <= pos[q][j] /\ pos[q][j] <= Len(log)
    BY <1>1, RunOf
  <1>3. /\ app' = [app EXCEPT ![q] = r] /\ broken' = broken \cup {q}
        /\ writers' = writers /\ locations' = locations /\ registry' = registry
    BY DEF Throw
  <1>4. r \in Runs /\ r.pid = app[q].pid /\ r.born = app[q].born /\ ~r.up /\ r.fed = app[q].fed
        /\ r.started = app[q].started
    BY <1>2 DEF Runs
  <1> HIDE DEF r
  <1>5. SelfStep(q, r, pos[q], writers[q], locations[q], registry[q])
    BY <1>1, <1>3, SameSelf DEF SelfStep
  <1>6. TypeInv' /\ OthersSame(q) /\ Left(q, r, pos[q], writers[q], locations[q], registry[q])
    <2>1. broken' \subseteq Nodes BY <1>1, <1>3 DEF TypeInv
    <2> QED BY <1>1, <1>2, <1>4, <1>5, <2>1, TypedStep
  <1>7. HandleStep(q, i) BY <1>4, <1>6 DEF HandleStep, Left
  <1> QED BY <1>3, <1>4, <1>6, <1>7 DEF Left

LEMMA ReadFromEffect ==
  ASSUME TypeInv, NEW q, NEW i, Handles(q, i), Is(i, "RequestReadFrom"), OnReadFromReply(q, i),
         UNCHANGED <<mail, livepid, crashes>>
  PROVE  TypeInv' /\ (GoodStep(q, i) \/ ThrowStep(q, i))
  <1>1. q \in Nodes /\ i \in Frames /\ log[i].j = Cmd(q) /\ log[i].arg \in Nodes /\ app[q].up
    BY HandledKinds DEF Handles
  <1>2. /\ app[q] \in Runs /\ locations[q] \in SUBSET Nodes /\ registry[q] \in SUBSET Nodes
        /\ writers[q] \in SUBSET Procs
        /\ app[q].fed \in BOOLEAN /\ app[q].started \in BOOLEAN
    BY <1>1, RunOf
  <1>3. log' = log BY DEF OnReadFromReply
  <1>4. LogKept /\ Added = {} BY <1>3, LogSame DEF TypeInv
  <1>5. /\ ~Is(i, "Register") /\ ~Is(i, "RequestWriteTo") /\ ~Is(i, "RequestStart") /\ ~Is(i, "State")
        /\ ~Is(i, "CachedReadyToRead") /\ ~Is(i, "Deregister")
    BY DEF Is
  <1>6. CASE log[i].arg \in locations[q]
    <2> DEFINE p == JoinFrom(Stepped(q, i), <<log[i].arg, q>>, log[i].from)
               g == registry[q]
               r == app[q]
               w == writers[q]
               l == locations[q]
    <2>1. /\ pos' = [pos EXCEPT ![q] = p] /\ registry' = registry
          /\ app' = app /\ writers' = writers /\ locations' = locations /\ broken' = broken
      BY <1>6 DEF OnReadFromReply
    <2>2. /\ p \in [Journals -> Int] /\ \A j \in Journals : NotJoined <= p[j] /\ p[j] <= Len(log)
          /\ \A j \in Journals : p[j] = Cursor(q, i, j)
      <3> DEFINE s == Stepped(q, i)
                 c == <<log[i].arg, q>>
      <3>1. /\ s \in [Journals -> Int]
            /\ \A j \in Journals : /\ s[j] = IF j = log[i].j THEN i ELSE pos[q][j]
                                   /\ NotJoined <= s[j] /\ s[j] <= Len(log)
        BY SteppedType
      <3>2. log[i].from \in Nat /\ log[i].from < i /\ i <= Len(log) /\ Len(log) \in Nat /\ i \in Nat
        BY <1>1, FrameOf DEF TypeInv
      <3>3. c # Cmd(q) BY <1>1, JournalsDiffer
      <3>4. p = JoinFrom(s, c, log[i].from) OBVIOUS
      <3> HIDE DEF s, c
      <3>5. /\ p \in [Journals -> Int]
            /\ \A j \in Journals : p[j] = IF j = c /\ s[j] = NotJoined THEN log[i].from ELSE s[j]
        <4>1. CASE s[c] = NotJoined
          <5>1. p = [s EXCEPT ![c] = log[i].from] BY <3>4, <4>1 DEF JoinFrom
          <5>2. DOMAIN p = Journals /\ \A j \in Journals : p[j] = IF j = c THEN log[i].from ELSE s[j]
            BY <3>1, <5>1
          <5> HIDE DEF p
          <5>3. \A j \in Journals : p[j] \in Int BY <3>1, <3>2, <5>2
          <5>4. p \in [Journals -> Int]
            <6>1. p = [j \in Journals |-> p[j]] BY <3>1, <5>1
            <6> QED BY <5>3, <6>1
          <5> QED BY <4>1, <5>2, <5>4
        <4>2. CASE s[c] # NotJoined
          <5>1. p = s BY <3>4, <4>2 DEF JoinFrom
          <5> QED BY <3>1, <4>2, <5>1
        <4> QED BY <4>1, <4>2
      <3> HIDE DEF p
      <3>6. ASSUME NEW j \in Journals PROVE p[j] = Cursor(q, i, j) /\ NotJoined <= p[j] /\ p[j] <= Len(log)
        <4>1. p[j] = (IF j = c /\ s[j] = NotJoined THEN log[i].from ELSE s[j]) BY <3>5
        <4>2. s[j] = (IF j = log[i].j THEN i ELSE pos[q][j]) /\ NotJoined <= s[j] /\ s[j] <= Len(log) BY <3>1
        <4>3. NotJoined <= p[j] /\ p[j] <= Len(log) BY <3>2, <4>1, <4>2 DEF NotJoined
        <4>4. p[j] = Cursor(q, i, j) BY <1>1, <1>5, <3>3, <4>1, <4>2 DEF Cursor, Names, c
        <4> QED BY <4>3, <4>4
      <3> QED BY <3>5, <3>6
    <2>3. SelfStep(q, r, p, w, l, g)
      <3>1. /\ app' = [app EXCEPT ![q] = r] /\ writers' = [writers EXCEPT ![q] = w]
            /\ locations' = [locations EXCEPT ![q] = l] /\ registry' = [registry EXCEPT ![q] = g]
        BY <1>1, <2>1, SameSelf
      <3> HIDE DEF r, p, w, l, g
      <3> QED BY <2>1, <3>1 DEF SelfStep
    <2> HIDE DEF p
    <2>4. TypeInv' /\ OthersSame(q) /\ Left(q, r, p, w, l, g)
      <3>1. broken' \subseteq Nodes BY <2>1 DEF TypeInv
      <3> HIDE DEF l, g, w
      <3> QED BY <1>1, <1>2, <1>4, <2>2, <2>3, <3>1, TypedStep DEF l, g, w
    <2>5. HandleStep(q, i) BY <1>4, <2>4 DEF HandleStep, Left
    <2>6. /\ app'[q].up /\ app'[q].started = app[q].started /\ app'[q].fed = app[q].fed
          /\ locations'[q] = locations[q] \cup {} /\ registry'[q] = registry[q]
          /\ writers'[q] = writers[q] \cup {} /\ \A j \in Journals : pos'[q][j] = Cursor(q, i, j)
      BY <1>1, <2>2, <2>4 DEF Left
    <2>7. Reply(q, i) BY <1>4, <1>5 DEF Reply
    <2>8. GoodStep(q, i) BY <1>2, <2>1, <1>5, <2>5, <2>6, <2>7 DEF GoodStep
    <2> QED BY <2>4, <2>8
  <1>7. CASE log[i].arg \notin locations[q]
    <2>1. Throw(q) /\ pos' = pos BY <1>7 DEF OnReadFromReply
    <2>2. /\ TypeInv' /\ HandleStep(q, i) /\ ~app'[q].up /\ broken' = broken \cup {q}
          /\ app'[q].started = app[q].started /\ app'[q].fed = app[q].fed
          /\ writers'[q] = writers[q] /\ registry'[q] = registry[q] /\ locations'[q] = locations[q]
          /\ pos'[q] = pos[q]
      BY <1>4, <2>1, ThrowTyped
    <2>3. ThrowStep(q, i) BY <1>1, <1>4, <1>7, <2>2 DEF ThrowStep
    <2> QED BY <2>2, <2>3
  <1> QED BY <1>6, <1>7


\* A handler that joins and disjoins nothing.
LEMMA PlainEffect ==
  ASSUME TypeInv, NEW q, NEW i, Handles(q, i),
         ~Is(i, "Register"), ~Is(i, "Deregister"), ~Is(i, "RequestReadFrom"),
         NEW r \in Runs, r.pid = app[q].pid, r.born = app[q].born, r.up,
         r.started = (app[q].started \/ Is(i, "RequestStart")),
         r.fed = (app[q].fed \/ (Is(i, "State") /\ ~app[q].started)),
         app' = [app EXCEPT ![q] = r], pos' = [pos EXCEPT ![q] = Stepped(q, i)],
         NEW w \in SUBSET Procs, w = writers[q] \cup (IF Is(i, "RequestWriteTo") THEN {log[i].arg} ELSE {}),
         writers' = [writers EXCEPT ![q] = w],
         UNCHANGED <<mail, livepid, crashes, locations, registry, broken>>,
         LogKept, \A k \in Added : Shape(log'[k]) /\ log'[k].from < k, Reply(q, i)
  PROVE  TypeInv' /\ GoodStep(q, i)
  <1> DEFINE p == Stepped(q, i)
             g == registry[q]
             l == locations[q]
  <1>1. q \in Nodes BY DEF Handles
  <1>2. l \in SUBSET Nodes /\ g \in SUBSET Nodes BY <1>1, RunOf
  <1>3. /\ p \in [Journals -> Int] /\ \A j \in Journals : NotJoined <= p[j] /\ p[j] <= Len(log)
        /\ \A j \in Journals : p[j] = Cursor(q, i, j)
    <2>1. /\ p \in [Journals -> Int]
          /\ \A j \in Journals : /\ p[j] = IF j = log[i].j THEN i ELSE pos[q][j]
                                 /\ NotJoined <= p[j] /\ p[j] <= Len(log)
      BY SteppedType
    <2> HIDE DEF p
    <2>2. \A j \in Journals : p[j] = Cursor(q, i, j) BY <2>1 DEF Cursor, Names
    <2> QED BY <2>1, <2>2
  <1>4. SelfStep(q, r, p, w, l, g)
    <2>1. locations' = [locations EXCEPT ![q] = l] /\ registry' = [registry EXCEPT ![q] = g]
      BY <1>1, SameSelf
    <2> QED BY <2>1 DEF SelfStep
  <1> HIDE DEF p, l, g
  <1>5. TypeInv' /\ OthersSame(q) /\ Left(q, r, p, w, l, g)
    <2>1. broken' \subseteq Nodes BY DEF TypeInv
    <2> QED BY <1>1, <1>2, <1>3, <1>4, <2>1, TypedStep
  <1>6. HandleStep(q, i) BY <1>5 DEF HandleStep, Left
  <1>7. locations'[q] = locations[q] \cup {} /\ registry'[q] = registry[q]
    BY <1>5 DEF Left, l, g
  <1>8. /\ app'[q] = r /\ writers'[q] = w /\ \A j \in Journals : pos'[q][j] = Cursor(q, i, j)
    BY <1>3, <1>5 DEF Left
  <1>9. GoodStep(q, i) BY <1>6, <1>7, <1>8 DEF GoodStep
  <1> QED BY <1>5, <1>9


LEMMA WriteToEffect ==
  ASSUME TypeInv, NEW q, NEW i, Handles(q, i), Is(i, "RequestWriteTo"), OnWriteTo(q, i),
         UNCHANGED <<mail, livepid, crashes>>
  PROVE  TypeInv' /\ GoodStep(q, i)
  <1> DEFINE w == writers[q] \cup {log[i].arg}
  <1>1. q \in Nodes /\ log[i].arg \in Procs /\ app[q].up BY HandledKinds DEF Handles
  <1>2. /\ app[q] \in Runs /\ w \in SUBSET Procs /\ app[q].fed \in BOOLEAN /\ app[q].started \in BOOLEAN
    BY <1>1, RunOf
  <1>3. /\ ~Is(i, "Register") /\ ~Is(i, "Deregister") /\ ~Is(i, "RequestReadFrom")
        /\ ~Is(i, "RequestStart") /\ ~Is(i, "State") /\ ~Is(i, "CachedReadyToRead")
    BY DEF Is
  <1>4. /\ writers' = [writers EXCEPT ![q] = w] /\ pos' = [pos EXCEPT ![q] = Stepped(q, i)]
        /\ UNCHANGED <<log, app, locations, registry, broken>>
    BY DEF OnWriteTo
  <1>5. LogKept /\ Added = {} BY <1>4, LogSame DEF TypeInv
  <1>6. Reply(q, i) BY <1>3, <1>5 DEF Reply
  <1>7. app' = [app EXCEPT ![q] = app[q]] BY <1>1, <1>4, SameSelf
  <1>8. w = writers[q] \cup (IF Is(i, "RequestWriteTo") THEN {log[i].arg} ELSE {}) OBVIOUS
  <1>9. /\ app[q].started = (app[q].started \/ Is(i, "RequestStart"))
        /\ app[q].fed = (app[q].fed \/ (Is(i, "State") /\ ~app[q].started))
    BY <1>2, <1>3
  <1> HIDE DEF w
  <1> QED BY <1>1, <1>2, <1>3, <1>4, <1>5, <1>6, <1>7, <1>8, <1>9, PlainEffect

\* RequestStart and State, which change only the run of q.
LEMMA RunEffect ==
  ASSUME TypeInv, NEW q, NEW i, Handles(q, i),
         \/ Is(i, "RequestStart") /\ OnStart(q, i)
         \/ Is(i, "State") /\ OnState(q, i),
         UNCHANGED <<mail, livepid, crashes>>
  PROVE  TypeInv' /\ GoodStep(q, i)
  <1> DEFINE r == IF Is(i, "RequestStart") THEN [app[q] EXCEPT !.started = TRUE]
                                           ELSE [app[q] EXCEPT !.fed = @ \/ ~app[q].started]
             w == writers[q]
  <1>1. q \in Nodes /\ app[q].up BY DEF Handles
  <1>2. app[q] \in Runs /\ w \in SUBSET Procs /\ app[q].fed \in BOOLEAN /\ app[q].started \in BOOLEAN
    BY <1>1, RunOf
  <1>3. /\ ~Is(i, "Register") /\ ~Is(i, "Deregister") /\ ~Is(i, "RequestReadFrom")
        /\ ~Is(i, "RequestWriteTo") /\ ~Is(i, "CachedReadyToRead")
        /\ Is(i, "RequestStart") <=> ~Is(i, "State")
    BY DEF Is
  <1>4. /\ app' = [app EXCEPT ![q] = r] /\ pos' = [pos EXCEPT ![q] = Stepped(q, i)]
        /\ UNCHANGED <<log, writers, locations, registry, broken>>
    <2>1. CASE Is(i, "RequestStart") /\ OnStart(q, i) BY <2>1 DEF OnStart
    <2>2. CASE Is(i, "State") /\ OnState(q, i) BY <1>3, <2>2 DEF OnState
    <2> QED BY <2>1, <2>2
  <1>5. LogKept /\ Added = {} BY <1>4, LogSame DEF TypeInv
  <1>6. Reply(q, i) BY <1>3, <1>5 DEF Reply
  <1>7. writers' = [writers EXCEPT ![q] = w] BY <1>1, <1>4, SameSelf
  <1>8. w = writers[q] \cup (IF Is(i, "RequestWriteTo") THEN {log[i].arg} ELSE {}) BY <1>3
  <1>9. /\ r \in Runs /\ r.pid = app[q].pid /\ r.born = app[q].born /\ r.up
        /\ r.started = (app[q].started \/ Is(i, "RequestStart"))
        /\ r.fed = (app[q].fed \/ (Is(i, "State") /\ ~app[q].started))
    <2>1. CASE Is(i, "RequestStart")
      <3>1. r = [app[q] EXCEPT !.started = TRUE] BY <2>1
      <3> HIDE DEF r
      <3> QED BY <1>1, <1>2, <1>3, <2>1, <3>1 DEF Runs
    <2>2. CASE Is(i, "State")
      <3>1. r = [app[q] EXCEPT !.fed = @ \/ ~app[q].started] BY <1>3, <2>2
      <3> HIDE DEF r
      <3> QED BY <1>1, <1>2, <1>3, <2>2, <3>1 DEF Runs
    <2> QED BY <1>3, <2>1, <2>2
  <1> HIDE DEF r, w
  <1> QED BY <1>1, <1>2, <1>3, <1>4, <1>5, <1>6, <1>7, <1>8, <1>9, PlainEffect

\* A handler that only writes.
LEMMA WritingEffect ==
  ASSUME TypeInv, NEW q, NEW i, Handles(q, i), Is(i, "CachedReadyToRead") \/ Is(i, "RequestCached"),
         pos' = [pos EXCEPT ![q] = Stepped(q, i)],
         UNCHANGED <<mail, livepid, crashes, app, writers, locations, registry, broken>>,
         LogKept, \A k \in Added : Shape(log'[k]) /\ log'[k].from < k, Reply(q, i)
  PROVE  TypeInv' /\ GoodStep(q, i)
  <1> DEFINE w == writers[q]
  <1>1. q \in Nodes /\ app[q].up BY DEF Handles
  <1>2. app[q] \in Runs /\ w \in SUBSET Procs /\ app[q].fed \in BOOLEAN /\ app[q].started \in BOOLEAN
    BY <1>1, RunOf
  <1>3. /\ ~Is(i, "Register") /\ ~Is(i, "Deregister") /\ ~Is(i, "RequestReadFrom")
        /\ ~Is(i, "RequestWriteTo") /\ ~Is(i, "RequestStart") /\ ~Is(i, "State")
    BY DEF Is
  <1>4. app' = [app EXCEPT ![q] = app[q]] /\ writers' = [writers EXCEPT ![q] = w] BY <1>1, SameSelf
  <1>5. w = writers[q] \cup (IF Is(i, "RequestWriteTo") THEN {log[i].arg} ELSE {}) BY <1>3
  <1>6. /\ app[q].started = (app[q].started \/ Is(i, "RequestStart"))
        /\ app[q].fed = (app[q].fed \/ (Is(i, "State") /\ ~app[q].started))
    BY <1>2, <1>3
  <1> HIDE DEF w
  <1> QED BY <1>1, <1>2, <1>3, <1>4, <1>5, <1>6, PlainEffect

LEMMA CachedReadyEffect ==
  ASSUME TypeInv, NEW q, NEW i, Handles(q, i), Is(i, "CachedReadyToRead"), OnCachedReady(q, i),
         UNCHANGED <<mail, livepid, crashes>>
  PROVE  TypeInv' /\ (GoodStep(q, i) \/ ThrowStep(q, i))
  <1>1. q \in Nodes /\ q \in Apps /\ log[i].arg = q /\ log[i].j = Cmd(q) BY HandledKinds
  <1>2. CASE Cached \in writers[q]
    <2> DEFINE f == Msg(<<q, Cached>>, "RequestCached", q)
    <2>1. /\ log' = Append(log, f) /\ pos' = [pos EXCEPT ![q] = Stepped(q, i)]
          /\ UNCHANGED <<app, writers, locations, registry, broken>>
      BY <1>2 DEF OnCachedReady
    <2>2. f \in LogFrames /\ f.j = <<q, Cached>> /\ f.type = "RequestCached" /\ f.arg = q /\ f.from = 0
      <3> DEFINE c == <<q, Cached>>
      <3>1. c \in Journals BY <1>1, JournalOf
      <3>2. q \in Args /\ "RequestCached" \in Kinds BY <1>1, NodeNames DEF Args, Kinds
      <3> HIDE DEF c
      <3>3. /\ Msg(c, "RequestCached", q) \in LogFrames /\ Msg(c, "RequestCached", q).j = c
            /\ Msg(c, "RequestCached", q).type = "RequestCached" /\ Msg(c, "RequestCached", q).arg = q
            /\ Msg(c, "RequestCached", q).from = 0
        BY <3>1, <3>2, MsgType
      <3> QED BY <3>3 DEF c
    <2> HIDE DEF f
    <2>3. log \in Seq(LogFrames) BY DEF TypeInv
    <2>4. log' = log \o <<f>>
      <3>1. log' = Append(log, f) BY <2>1
      <3>2. f \in LogFrames BY <2>2
      <3> QED BY <2>3, <3>1, <3>2
    <2>5. LogKept /\ Added = {Now} /\ log'[Now] = f /\ Now \in Nat /\ Now > Len(log)
      BY <2>2, <2>3, <2>4, GrownOne
    <2>6. Len(log) \in Nat BY <2>5 DEF LogKept
    <2>7. \A k \in Added : Shape(log'[k]) /\ log'[k].from < k BY <1>1, <2>2, <2>5, <2>6 DEF Shape
    <2>8. Put(Now, <<q, Cached>>, "RequestCached", q) BY <2>2, <2>5 DEF Put
    <2>9. Reply(q, i) BY <1>1, <1>2, <2>5, <2>8 DEF Reply
    <2> QED BY <2>1, <2>5, <2>7, <2>9, WritingEffect
  <1>3. CASE Cached \notin writers[q]
    <2>1. Throw(q) /\ log' = log /\ pos' = pos BY <1>3 DEF OnCachedReady
    <2>2. LogKept /\ Added = {} BY <2>1, LogSame DEF TypeInv
    <2>3. /\ TypeInv' /\ HandleStep(q, i) /\ ~app'[q].up /\ broken' = broken \cup {q}
          /\ app'[q].started = app[q].started /\ app'[q].fed = app[q].fed
          /\ writers'[q] = writers[q] /\ registry'[q] = registry[q] /\ locations'[q] = locations[q]
          /\ pos'[q] = pos[q]
      BY <2>1, <2>2, ThrowTyped
    <2>4. ThrowStep(q, i) BY <1>1, <1>3, <2>2, <2>3 DEF ThrowStep
    <2> QED BY <2>3, <2>4
  <1> QED BY <1>2, <1>3

LEMMA PairOf ==
  ASSUME NEW a \in LogFrames, NEW b \in LogFrames
  PROVE  <<a>> \o <<b>> = <<a, b>>
  <1> DEFINE u == <<a>> \o <<b>>
             v == <<a, b>>
  <1>1. u \in Seq(LogFrames) /\ Len(u) = 2 /\ u[1] = a /\ u[2] = b OBVIOUS
  <1>2. v \in Seq(LogFrames) /\ Len(v) = 2 /\ v[1] = a /\ v[2] = b OBVIOUS
  <1> HIDE DEF u, v
  <1>3. u = [i \in 1 .. 2 |-> u[i]] BY <1>1
  <1>4. v = [i \in 1 .. 2 |-> v[i]] BY <1>2
  <1>5. u = v BY <1>1, <1>2, <1>3, <1>4
  <1> QED BY <1>5 DEF u, v

LEMMA RequestCachedEffect ==
  ASSUME TypeInv, NEW q, NEW i, Handles(q, i), Is(i, "RequestCached"), OnRequestCached(q, i),
         UNCHANGED <<mail, livepid, crashes>>
  PROVE  TypeInv' /\ (GoodStep(q, i) \/ ThrowStep(q, i))
  <1> DEFINE x == log[i].arg
             c == <<Cached, x>>
             s == Msg(c, "State", x)
             d == Msg(Req(Cached), "RequestCachedDone", x)
  <1>1. q = Cached /\ q \in Nodes /\ x \in Apps /\ log[i].j = <<x, Cached>> BY HandledKinds
  <1>2. x \in Nodes /\ c \in Journals /\ Req(Cached) \in Journals /\ log[i].j[1] = x
    <2> HIDE DEF x
    <2>1. x \in Nodes BY <1>1, NodeNames
    <2>2. c \in Journals /\ Req(Cached) \in Journals BY <1>1, <2>1, NodeNames, JournalOf
    <2>3. <<x, Cached>>[1] = x OBVIOUS
    <2> QED BY <1>1, <2>1, <2>2, <2>3
  <1>3. x \in Args /\ "State" \in Kinds /\ "RequestCachedDone" \in Kinds /\ log \in Seq(LogFrames)
    BY <1>2, NodeNames DEF Args, Kinds, TypeInv
  <1>4. /\ x \notin locations[q] => pos' = [pos EXCEPT ![q] = Stepped(q, i)] /\ log' = log
        /\ x \notin locations[q] => UNCHANGED <<app, writers, locations, registry, broken>>
        /\ x \in locations[q] /\ {x, Master} \subseteq writers[q] =>
             /\ log' = log \o <<s>> \o <<d>> /\ pos' = [pos EXCEPT ![q] = Stepped(q, i)]
             /\ UNCHANGED <<app, writers, locations, registry, broken>>
        /\ x \in locations[q] /\ ~({x, Master} \subseteq writers[q]) =>
             Throw(q) /\ pos' = pos /\ log' = IF x \in writers[q] THEN log \o <<s>> ELSE log
    BY <1>1, <1>2 DEF OnRequestCached
  <1> HIDE DEF x, c
  <1>5. s \in LogFrames /\ s.j = c /\ s.type = "State" /\ s.arg = x /\ s.from = 0 BY <1>2, <1>3, MsgType
  <1>6. d \in LogFrames /\ d.j = Req(Cached) /\ d.type = "RequestCachedDone" /\ d.arg = x /\ d.from = 0
    BY <1>2, <1>3, MsgType
  <1> HIDE DEF s, d
  <1>7. ~Is(i, "CachedReadyToRead") BY DEF Is
  <1>8. CASE x \notin locations[q]
    <2>1. LogKept /\ Added = {} BY <1>3, <1>4, <1>8, LogSame
    <2>2. Reply(q, i) BY <1>7, <2>1 DEF Reply
    <2> QED BY <1>4, <1>8, <2>1, <2>2, WritingEffect
  <1>9. CASE x \in locations[q] /\ {x, Master} \subseteq writers[q]
    <2>1. log' = log \o <<s, d>>
      <3>1. log' = log \o <<s>> \o <<d>> BY <1>4, <1>9
      <3>2. s \in LogFrames /\ d \in LogFrames BY <1>5, <1>6
      <3>3. log \in Seq(LogFrames) /\ <<s>> \in Seq(LogFrames) /\ <<d>> \in Seq(LogFrames) BY <1>3, <3>2
      <3>4. log \o <<s>> \o <<d>> = log \o (<<s>> \o <<d>>) BY <3>3, SMT
      <3>5. <<s>> \o <<d>> = <<s, d>> BY <3>2, PairOf
      <3> QED BY <3>1, <3>4, <3>5
    <2>2. /\ LogKept /\ Added = {Now, Now + 1} /\ log'[Now] = s /\ log'[Now + 1] = d
          /\ Now \in Nat /\ Now > Len(log)
      BY <1>3, <1>5, <1>6, <2>1, GrownTwo
    <2>3. Len(log) \in Nat BY <2>2 DEF LogKept
    <2>4. \A k \in Added : Shape(log'[k]) /\ log'[k].from < k
      BY <1>1, <1>2, <1>5, <1>6, <2>2, <2>3 DEF Shape, c, x
    <2>5. /\ Put(Now, <<Cached, log[i].arg>>, "State", log[i].arg)
          /\ Put(Now + 1, Req(Cached), "RequestCachedDone", log[i].arg)
      BY <1>5, <1>6, <2>2 DEF Put, c, x
    <2>6. Reply(q, i) BY <1>1, <2>2, <2>5 DEF Reply, x
    <2> QED BY <1>4, <1>9, <2>2, <2>4, <2>6, WritingEffect
  <1>10. CASE x \in locations[q] /\ ~({x, Master} \subseteq writers[q])
    <2>1. Throw(q) /\ pos' = pos /\ log' = IF x \in writers[q] THEN log \o <<s>> ELSE log BY <1>4, <1>10
    <2>2. /\ LogKept /\ \A k \in Added : Shape(log'[k]) /\ log'[k].from < k
          /\ \/ Added = {}
             \/ Added = {Now} /\ Put(Now, <<Cached, log[i].arg>>, "State", log[i].arg) /\ log[i].arg \in Apps
      <3>1. CASE x \notin writers[q] BY <1>3, <2>1, <3>1, LogSame
      <3>2. CASE x \in writers[q]
        <4>1. log' = log \o <<s>> BY <2>1, <3>2
        <4>2. LogKept /\ Added = {Now} /\ log'[Now] = s /\ Now \in Nat /\ Now > Len(log)
          BY <1>3, <1>5, <4>1, GrownOne
        <4>3. Len(log) \in Nat BY <4>2 DEF LogKept
        <4>4. \A k \in Added : Shape(log'[k]) /\ log'[k].from < k
          BY <1>1, <1>5, <4>2, <4>3 DEF Shape, c, x
        <4> QED BY <1>1, <1>5, <4>2, <4>4 DEF Put, c, x
      <3> QED BY <3>1, <3>2
    <2>3. /\ TypeInv' /\ HandleStep(q, i) /\ ~app'[q].up /\ broken' = broken \cup {q}
          /\ app'[q].started = app[q].started /\ app'[q].fed = app[q].fed
          /\ writers'[q] = writers[q] /\ registry'[q] = registry[q] /\ locations'[q] = locations[q]
          /\ pos'[q] = pos[q]
      BY <2>1, <2>2, ThrowTyped
    <2>4. ThrowStep(q, i) BY <1>1, <1>10, <2>2, <2>3 DEF ThrowStep, x
    <2> QED BY <2>3, <2>4
  <1> QED BY <1>8, <1>9, <1>10

LEMMA FrameEffect ==
  ASSUME TypeInv, NEW q \in Nodes, JoinInv(q), Frame(q)
  PROVE  TypeInv' /\ \E i : GoodStep(q, i) \/ ThrowStep(q, i)
  <1>1. PICK i \in Unread(q) :
          /\ app[q].up /\ IsNext(q, i)
          /\ \/ log[i].type = "Register" /\ OnRegister(q, i)
             \/ log[i].type = "Deregister" /\ OnDeregister(q, i)
             \/ log[i].type = "RequestReadFrom" /\ OnReadFromReply(q, i)
             \/ log[i].type = "RequestWriteTo" /\ OnWriteTo(q, i)
             \/ log[i].type = "CachedReadyToRead" /\ OnCachedReady(q, i)
             \/ log[i].type = "RequestStart" /\ OnStart(q, i)
             \/ log[i].type = "State" /\ OnState(q, i)
             \/ log[i].type = "RequestCached" /\ OnRequestCached(q, i)
          /\ UNCHANGED <<mail, livepid, crashes>>
    BY DEF Frame
  <1>2. Handles(q, i) BY <1>1, HandlesFrom
  <1>3. CASE Is(i, "Register") /\ OnRegister(q, i) BY <1>1, <1>2, <1>3, RegisterEffect
  <1>4. CASE Is(i, "Deregister") /\ OnDeregister(q, i) BY <1>1, <1>2, <1>4, DeregisterEffect
  <1>5. CASE Is(i, "RequestReadFrom") /\ OnReadFromReply(q, i) BY <1>1, <1>2, <1>5, ReadFromEffect
  <1>6. CASE Is(i, "RequestWriteTo") /\ OnWriteTo(q, i) BY <1>1, <1>2, <1>6, WriteToEffect
  <1>7. CASE Is(i, "CachedReadyToRead") /\ OnCachedReady(q, i) BY <1>1, <1>2, <1>7, CachedReadyEffect
  <1>8. CASE \/ Is(i, "RequestStart") /\ OnStart(q, i)
             \/ Is(i, "State") /\ OnState(q, i)
    BY <1>1, <1>2, <1>8, RunEffect
  <1>9. CASE Is(i, "RequestCached") /\ OnRequestCached(q, i) BY <1>1, <1>2, <1>9, RequestCachedEffect
  <1> QED BY <1>1, <1>3, <1>4, <1>5, <1>6, <1>7, <1>8, <1>9 DEF Is


-----------------------------------------------------------------------------
(* a process is started, and killed *)

BootStep(q) ==
  /\ ~app[q].up /\ app'[q].up /\ app'[q].pid = app[q].pid + 1 /\ app'[q].born = Len(log)
  /\ ~app'[q].fed /\ ~app'[q].started
  /\ mail' = mail \cup {[q |-> q, pid |-> app[q].pid + 1]}
  /\ \A j \in Journals : pos'[q][j] = IF j = Pub THEN Len(log) ELSE NotJoined
  /\ writers'[q] = {} /\ locations'[q] = {q, Cached} /\ registry'[q] = {}
  /\ \A p \in Procs \ {q} : /\ writers'[p] = writers[p] /\ locations'[p] = locations[p]
                            /\ registry'[p] = registry[p] /\ pos'[p] = pos[p]
  /\ \A p \in Nodes \ {q} : app'[p] = app[p]
  /\ log' = log /\ livepid' = livepid /\ crashes' = crashes /\ broken' = broken

CrashStep(q) ==
  /\ app[q].up /\ ~app'[q].up /\ app'[q].pid = app[q].pid /\ app'[q].born = app[q].born
  /\ app'[q].fed = app[q].fed /\ app'[q].started = app[q].started /\ crashes' = crashes + 1
  /\ \A p \in Nodes \ {q} : app'[p] = app[p]
  /\ UNCHANGED <<log, mail, pos, writers, locations, registry, livepid, broken>>

LEMMA BootEffect ==
  ASSUME TypeInv, NEW q \in Nodes, Boot(q)
  PROVE  TypeInv' /\ BootStep(q)
  <1> DEFINE r == [Down EXCEPT !.up = TRUE, !.pid = app[q].pid + 1, !.born = Len(log)]
             p == [j \in Journals |-> IF j = Pub THEN Len(log) ELSE NotJoined]
             l == {q, Cached}
             m == [q |-> q, pid |-> app[q].pid + 1]
  <1>1. q \in Procs /\ Cached \in Nodes /\ MaxCrash \in Nat BY NodeNames
  <1>2. app[q].pid \in Nat /\ Len(log) \in Nat /\ ~app[q].up /\ app[q].pid <= MaxCrash BY RunOf DEF Boot
  <1>3. /\ r \in Runs /\ r.up /\ r.pid = app[q].pid + 1 /\ r.born = Len(log) /\ ~r.fed /\ ~r.started
    <2>1. Down \in Runs /\ ~Down.fed /\ ~Down.started BY DEF Down, Runs
    <2> DEFINE n == app[q].pid + 1
               t == Len(log)
    <2>2. n \in Nat /\ t \in Nat BY <1>2
    <2>3. r = [Down EXCEPT !.up = TRUE, !.pid = n, !.born = t] OBVIOUS
    <2> HIDE DEF n, t, r
    <2>4. r \in Runs /\ r.up /\ r.pid = n /\ r.born = t /\ ~r.fed /\ ~r.started
      BY <2>1, <2>2, <2>3 DEF Runs
    <2> QED BY <2>4 DEF n, t
  <1>4. /\ p \in [Journals -> Int] /\ \A j \in Journals : p[j] = IF j = Pub THEN Len(log) ELSE NotJoined
    BY <1>2 DEF NotJoined
  <1>5. l \in SUBSET Nodes BY <1>1
  <1>6. m \in [q : Nodes, pid : 1 .. MaxCrash + 1] BY <1>1, <1>2
  <1>7. /\ app' = [app EXCEPT ![q] = r] /\ mail' = mail \cup {m} /\ pos' = [pos EXCEPT ![q] = p]
        /\ writers' = [writers EXCEPT ![q] = {}] /\ locations' = [locations EXCEPT ![q] = l]
        /\ registry' = [registry EXCEPT ![q] = {}] /\ UNCHANGED <<log, livepid, crashes, broken>>
    BY DEF Boot
  <1> HIDE DEF r, p, l, m
  <1>8. app' \in [Nodes -> Runs] /\ app'[q] = r /\ \A x \in Nodes \ {q} : app'[x] = app[x]
    BY <1>3, <1>7 DEF TypeInv
  <1>9. pos' \in [Procs -> [Journals -> Int]] /\ pos'[q] = p /\ \A x \in Procs \ {q} : pos'[x] = pos[x]
    BY <1>1, <1>4, <1>7 DEF TypeInv
  <1>10. /\ writers' \in [Procs -> SUBSET Procs] /\ writers'[q] = {}
         /\ \A x \in Procs \ {q} : writers'[x] = writers[x]
    BY <1>1, <1>7 DEF TypeInv
  <1>11. /\ locations' \in [Procs -> SUBSET Nodes] /\ locations'[q] = l
         /\ \A x \in Procs \ {q} : locations'[x] = locations[x]
    BY <1>1, <1>5, <1>7 DEF TypeInv
  <1>12. /\ registry' \in [Procs -> SUBSET Nodes] /\ registry'[q] = {}
         /\ \A x \in Procs \ {q} : registry'[x] = registry[x]
    BY <1>1, <1>7 DEF TypeInv
  <1>13. \A x \in Nodes : app'[x].pid <= MaxCrash + 1 /\ app'[x].born <= Len(log')
    <2> TAKE x \in Nodes
    <2>1. CASE x = q BY <1>1, <1>2, <1>3, <1>7, <1>8, <2>1
    <2>2. CASE x # q BY <1>7, <1>8, <2>2, RunOf
    <2> QED BY <2>1, <2>2
  <1>14. \A x \in Procs, j \in Journals : pos'[x][j] \in NotJoined .. Len(log')
    <2> TAKE x \in Procs, j \in Journals
    <2>1. CASE x = q BY <1>2, <1>4, <1>7, <1>9, <2>1 DEF NotJoined
    <2>2. CASE x # q BY <1>7, <1>9, <2>2, PosType DEF NotJoined
    <2> QED BY <2>1, <2>2
  <1>15. log' \in Seq(LogFrames) /\ LogInv' BY <1>7 DEF TypeInv, LogInv, Frames
  <1>16. mail' \subseteq [q : Nodes, pid : 1 .. MaxCrash + 1] BY <1>6, <1>7 DEF TypeInv
  <1>17. livepid' \in [Nodes -> Nat] /\ crashes' \in Nat /\ broken' \subseteq Nodes BY <1>7 DEF TypeInv
  <1>18. TypeInv' BY <1>8, <1>9, <1>10, <1>11, <1>12, <1>13, <1>14, <1>15, <1>16, <1>17 DEF TypeInv
  <1>19. /\ writers'[q] = {} /\ locations'[q] = {q, Cached} /\ registry'[q] = {}
         /\ mail' = mail \cup {[q |-> q, pid |-> app[q].pid + 1]}
    BY <1>7, <1>10, <1>11, <1>12 DEF l, m
  <1>20. BootStep(q) BY <1>2, <1>3, <1>4, <1>7, <1>8, <1>9, <1>10, <1>11, <1>12, <1>19 DEF BootStep
  <1> QED BY <1>18, <1>20

LEMMA CrashEffect ==
  ASSUME TypeInv, NEW q \in Nodes, Crash(q)
  PROVE  TypeInv' /\ CrashStep(q)
  <1> DEFINE r == [app[q] EXCEPT !.up = FALSE]
  <1>1. /\ app' = [app EXCEPT ![q] = r] /\ app[q].up /\ crashes' = crashes + 1
        /\ UNCHANGED <<log, mail, pos, writers, locations, registry, livepid, broken>>
    BY DEF Crash
  <1>2. /\ r \in Runs /\ ~r.up /\ r.pid = app[q].pid /\ r.born = app[q].born
        /\ r.fed = app[q].fed /\ r.started = app[q].started
    <2>1. app[q] \in Runs BY RunOf
    <2> QED BY <2>1 DEF Runs
  <1> HIDE DEF r
  <1>3. app' \in [Nodes -> Runs] /\ app'[q] = r /\ \A x \in Nodes \ {q} : app'[x] = app[x]
    BY <1>1, <1>2 DEF TypeInv
  <1>4. CrashStep(q) BY <1>1, <1>2, <1>3 DEF CrashStep
  <1>5. \A x \in Nodes : app'[x].pid <= MaxCrash + 1 /\ app'[x].born <= Len(log')
    <2> TAKE x \in Nodes
    <2>1. app'[x].pid = app[x].pid /\ app'[x].born = app[x].born BY <1>2, <1>3
    <2> QED BY <1>1, <2>1, RunOf
  <1>6. log' \in Seq(LogFrames) /\ LogInv' BY <1>1 DEF TypeInv, LogInv, Frames
  <1>7. TypeInv' BY <1>1, <1>3, <1>5, <1>6 DEF TypeInv
  <1> QED BY <1>4, <1>7


-----------------------------------------------------------------------------
(* the steps, as they look from one process *)

MasterMove ==
  \/ \E dead : HealthStep(dead)
  \/ \E m : MetStep(m) \/ LostStep(m) \/ RefusedStep(m)
  \/ \E i, x : WriteStep(i, x) \/ ReadStep(i, x) \/ DoneStep(i, x)

ProcMove(p) == (\E i : GoodStep(p, i) \/ ThrowStep(p, i)) \/ BootStep(p) \/ CrashStep(p)

\* A step of somebody else.
Idle(q) ==
  /\ app'[q] = app[q] /\ pos'[q] = pos[q] /\ writers'[q] = writers[q]
  /\ locations'[q] = locations[q] /\ registry'[q] = registry[q] /\ LogKept

MasterSame ==
  /\ writers'[Master] = writers[Master] /\ locations'[Master] = locations[Master]
  /\ registry'[Master] = registry[Master] /\ pos'[Master] = pos[Master] /\ livepid' = livepid

LEMMA MasterIdle ==
  ASSUME TypeInv, MasterMove, NEW q \in Nodes
  PROVE  Idle(q) /\ mail' \subseteq mail /\ crashes' = crashes /\ broken' = broken /\ app' = app
  <1>1. log \in Seq(LogFrames) BY DEF TypeInv
  <1>2. CASE \E dead : HealthStep(dead) BY <1>2 DEF HealthStep, NodesSame, Idle
  <1>3. CASE \E m : MetStep(m) \/ LostStep(m) BY <1>3 DEF MetStep, LostStep, Meets, NodesSame, Idle
  <1>4. CASE \E m : RefusedStep(m)
    <2>1. log' = log /\ NodesSame /\ mail' \subseteq mail BY <1>4 DEF RefusedStep
    <2>2. LogKept BY <1>1, <2>1, LogSame
    <2> QED BY <2>1, <2>2 DEF NodesSame, Idle
  <1>5. CASE \E i, x : WriteStep(i, x) \/ ReadStep(i, x) \/ DoneStep(i, x)
    <2>1. NodesSame /\ LogKept /\ mail' = mail
      BY <1>5 DEF WriteStep, ReadStep, DoneStep, RequestStep
    <2> QED BY <2>1 DEF NodesSame, Idle
  <1> QED BY <1>2, <1>3, <1>4, <1>5 DEF MasterMove

LEMMA ProcIdle ==
  ASSUME TypeInv, NEW p \in Nodes, ProcMove(p)
  PROVE  /\ MasterSame /\ LogKept /\ mail \subseteq mail' /\ app'[p].pid >= app[p].pid
         /\ \A q \in Nodes \ {p} : Idle(q) /\ \A m \in mail' \ mail : m.q # q
  <1>1. log \in Seq(LogFrames) /\ app[p].pid \in Nat BY RunOf DEF TypeInv
  <1>2. Master \in Procs \ {p} /\ Nodes \subseteq Procs BY NodeNames
  <1>3. CASE \E i : GoodStep(p, i) \/ ThrowStep(p, i)
    <2>1. OthersSame(p) /\ LogKept /\ app'[p].pid = app[p].pid BY <1>3 DEF GoodStep, ThrowStep, HandleStep
    <2> QED BY <1>1, <1>2, <2>1 DEF OthersSame, MasterSame, Idle
  <1>4. CASE BootStep(p)
    <2>1. LogKept BY <1>1, <1>4, LogSame DEF BootStep
    <2>2. /\ \A q \in Procs \ {p} : /\ writers'[q] = writers[q] /\ locations'[q] = locations[q]
                                    /\ registry'[q] = registry[q] /\ pos'[q] = pos[q]
          /\ \A q \in Nodes \ {p} : app'[q] = app[q]
          /\ livepid' = livepid /\ app'[p].pid = app[p].pid + 1
      BY <1>4 DEF BootStep
    <2>3. mail \subseteq mail' /\ \A m \in mail' \ mail : m.q = p BY <1>4 DEF BootStep
    <2> QED BY <1>1, <1>2, <2>1, <2>2, <2>3 DEF MasterSame, Idle
  <1>5. CASE CrashStep(p)
    <2>1. LogKept BY <1>1, <1>5, LogSame DEF CrashStep
    <2>2. /\ \A q \in Nodes \ {p} : app'[q] = app[q]
          /\ UNCHANGED <<mail, pos, writers, locations, registry, livepid>> /\ app'[p].pid = app[p].pid
      BY <1>5 DEF CrashStep
    <2> QED BY <1>1, <2>1, <2>2 DEF MasterSame, Idle
  <1> QED BY <1>3, <1>4, <1>5 DEF ProcMove

-----------------------------------------------------------------------------
(* what a process has yet to read *)

LEMMA DueOf ==
  ASSUME TypeInv, NEW q \in Nodes, NEW k
  PROVE  /\ k \in Due(q) => k \in Frames /\ k \in Nat /\ k <= Len(log) /\ k < Now /\ Now \in Nat
         /\ k \in Due(q) => (log[k].j = Pub \/ log[k].j = Cmd(q)) /\ log[k].j \in Journals
  <1>1. k \in Due(q) => k \in Frames /\ (log[k].j = Pub \/ log[k].j = Cmd(q)) BY DEF Due
  <1>2. Len(log) \in Nat BY RunOf
  <1> QED BY <1>1, <1>2, FrameOf DEF Now

LEMMA DueKept ==
  ASSUME TypeInv, NEW q \in Nodes, Idle(q)
  PROVE  /\ Due(q) \subseteq Due(q)'
         /\ \A k \in Due(q)' \ Due(q) : k \in Added /\ (log'[k].j = Pub \/ log'[k].j = Cmd(q))
         /\ \A k \in Added : log'[k].j = Pub \/ log'[k].j = Cmd(q) => k \in Due(q)' /\ k \notin Due(q)
  <1>1. /\ Frames \subseteq Frames' /\ \A k \in Frames : log'[k] = log[k]
        /\ \A k \in Added : k \in Nat /\ Len(log) < k
    BY DEF Idle, LogKept
  <1>2. app'[q] = app[q] /\ pos'[q] = pos[q] BY DEF Idle
  <1>3. /\ app[q].born \in Nat /\ app[q].born <= Len(log) /\ Len(log) \in Nat
        /\ \A j \in Journals : pos[q][j] \in Int /\ pos[q][j] <= Len(log)
    BY RunOf
  <1>4. Pub \in Journals /\ Cmd(q) \in Journals BY JournalOf
  <1>5. ASSUME NEW k \in Frames PROVE k \in Due(q)' <=> k \in Due(q)
    BY <1>1, <1>2, <1>5 DEF Due
  <1>6. ASSUME NEW k \in Added
        PROVE  /\ k \in Due(q)' <=> log'[k].j = Pub \/ log'[k].j = Cmd(q)
               /\ k \notin Due(q)
    <2>1. k \in Frames' /\ k \notin Frames BY <1>6 DEF Added
    <2>2. app[q].born < k /\ pos[q][Pub] < k /\ pos[q][Cmd(q)] < k BY <1>1, <1>3, <1>4, <1>6
    <2> QED BY <1>2, <2>1, <2>2 DEF Due
  <1>7. \A k \in Due(q)' : k \in Frames \/ k \in Added BY DEF Due, Added
  <1>8. \A k \in Due(q) : k \in Frames BY DEF Due
  <1> QED BY <1>5, <1>6, <1>7, <1>8

\* A frame of the master that q handles was due.
LEMMA DueHandled ==
  ASSUME TypeInv, NEW q \in Nodes, JoinInv(q), NEW i, Handles(q, i), log[i].j = Pub \/ log[i].j = Cmd(q)
  PROVE  i \in Due(q)
  <1>1. i \in Frames /\ pos[q][log[i].j] < i /\ pos[q][log[i].j] # NotJoined BY DEF Handles
  <1>2. i \in Nat BY <1>1, FrameOf
  <1>3. Pub \in Journals /\ Cmd(q) \in Journals BY JournalOf
  <1>4. CASE log[i].j = Pub BY <1>1, <1>4 DEF Due
  <1>5. CASE log[i].j = Cmd(q)
    <2>1. app[q].born <= pos[q][Cmd(q)] /\ pos[q][Cmd(q)] < i BY <1>1, <1>5 DEF JoinInv
    <2>2. app[q].born \in Nat /\ pos[q][Cmd(q)] \in Int BY <1>3, RunOf
    <2> QED BY <1>1, <1>2, <1>5, <2>1, <2>2 DEF Due
  <1> QED BY <1>4, <1>5

\* A process that runs for the first time handles what is due in order.
LEMMA NextDue ==
  ASSUME TypeInv, NEW q \in Nodes, JoinInv(q), NEW i, Handles(q, i), Active(q), NEW k \in Due(q)
  PROVE  i <= k
  <1>1. i \in Nat /\ \A x \in Unread(q) : i <= x BY FrameOf DEF Handles, IsNext
  <1>2. app[q].up BY DEF Active
  <1>3. ASSUME NEW x \in Due(q), log[x].j = Pub PROVE i <= x
    <2>1. x \in Frames /\ pos[q][Pub] < x BY <1>3, JournalOf DEF Due
    <2>2. pos[q][Pub] # NotJoined BY <1>2 DEF JoinInv
    <2>3. x \in Unread(q) BY <1>3, <2>1, <2>2 DEF Unread, Frames
    <2> QED BY <1>1, <2>3
  <1>4. CASE log[k].j = Pub BY <1>3, <1>4
  <1>5. CASE log[k].j = Cmd(q)
    <2>1. k \in Frames /\ pos[q][Cmd(q)] < k BY <1>5, JournalOf DEF Due
    <2>2. CASE pos[q][Cmd(q)] # NotJoined
      <3>1. k \in Unread(q) BY <1>5, <2>1, <2>2 DEF Unread, Frames
      <3> QED BY <1>1, <3>1
    <2>3. CASE pos[q][Cmd(q)] = NotJoined
      <3>1. PICK x \in Due(q) : x < k /\ log[x].j = Pub BY <1>5, <2>1, <2>3 DEF JoinInv
      <3>2. i <= x /\ x \in Nat /\ k \in Nat BY <1>3, <2>1, <3>1, DueOf, FrameOf
      <3> QED BY <1>1, <3>1, <3>2
    <2> QED BY <2>2, <2>3
  <1> QED BY <1>4, <1>5, DueOf

\* The journals in which a process answers.
LEMMA ReplyJournals ==
  ASSUME TypeInv, NEW p, NEW i, GoodStep(p, i) \/ ThrowStep(p, i), NEW k \in Added
  PROVE  log'[k].j # Pub /\ \A x \in Nodes : log'[k].j # Cmd(x)
  <1>1. Handles(p, i) BY DEF GoodStep, ThrowStep, HandleStep
  <1>2. p \in Nodes /\ Cached \in Nodes /\ \A a \in Apps : a \in Nodes BY <1>1, NodeNames DEF Handles
  <1>3. \A x \in Nodes, y \in Nodes : /\ Req(x) # Pub /\ Req(x) # Cmd(y)
                                      /\ <<x, y>> # Pub /\ \A z \in Nodes : <<x, y>> # Cmd(z)
    BY JournalsDiffer
  <1>4. \/ \E x \in Nodes : log'[k].j = Req(x)
        \/ \E x \in Nodes, y \in Nodes : log'[k].j = <<x, y>>
    <2>1. CASE ThrowStep(p, i)
      <3>1. k = Now /\ log[i].arg \in Apps /\ Put(Now, <<Cached, log[i].arg>>, "State", log[i].arg)
        BY <2>1 DEF ThrowStep
      <3> QED BY <1>2, <3>1 DEF Put
    <2>2. CASE GoodStep(p, i)
      <3>1. Reply(p, i) BY <2>2 DEF GoodStep
      <3>2. CASE p = Cached /\ Added = {Now} /\ Put(Now, Req(p), "RequestCachedDone", p)
        BY <1>2, <3>2 DEF Put
      <3>3. CASE /\ p \in Apps /\ Added = {Now, Now + 1}
                 /\ Put(Now, Req(p), "RequestWriteTo", Cached) /\ Put(Now + 1, Req(p), "RequestReadFrom", Cached)
        BY <1>2, <3>3 DEF Put
      <3>4. CASE p \in Apps /\ Added = {Now} /\ Put(Now, <<p, Cached>>, "RequestCached", p)
        BY <1>2, <3>4 DEF Put
      <3>5. CASE /\ log[i].arg \in Apps /\ Added = {Now, Now + 1}
                 /\ Put(Now, <<Cached, log[i].arg>>, "State", log[i].arg)
                 /\ Put(Now + 1, Req(Cached), "RequestCachedDone", log[i].arg)
        BY <1>2, <3>5 DEF Put
      <3> QED BY <3>1, <3>2, <3>3, <3>4, <3>5 DEF Reply
    <2> QED BY <2>1, <2>2
  <1> QED BY <1>3, <1>4


\* The cursors of the master's journals.
LEMMA MasterCursors ==
  ASSUME TypeInv, NEW q \in Nodes, NEW i, Handles(q, i)
  PROVE  /\ Cursor(q, i, Pub) = IF log[i].j = Pub THEN i ELSE pos[q][Pub]
         /\ Cursor(q, i, Cmd(q)) = IF log[i].j = Cmd(q) THEN i
                                   ELSE IF Names(i, q) /\ pos[q][Cmd(q)] = NotJoined THEN app[q].born
                                   ELSE pos[q][Cmd(q)]
  <1>1. Pub # Cmd(q) /\ Pub[1] = Master /\ Cmd(q)[1] = Master /\ Master \notin Nodes BY JournalOf, NodeNames
  <1>2. Is(i, "RequestReadFrom") => log[i].arg \in Nodes /\ log[i].j = Cmd(q) BY HandledKinds
  <1>3. Is(i, "Deregister") => Master \notin log[i].arg \ {q} BY <1>1, HandledKinds
  <1>4. Is(i, "RequestReadFrom") => <<log[i].arg, q>> # Pub /\ <<log[i].arg, q>> # Cmd(q)
    BY <1>2, JournalsDiffer
  <1> QED BY <1>1, <1>2, <1>3, <1>4 DEF Cursor

\* What a process has handled is not due any more.
LEMMA DueRead ==
  ASSUME TypeInv, NEW q \in Nodes, JoinInv(q), NEW i, GoodStep(q, i)
  PROVE  Due(q)' = Due(q) \ {i} /\ \A k \in Due(q)' : log'[k] = log[k]
  <1>1. /\ Handles(q, i) /\ LogKept /\ app'[q].born = app[q].born /\ app[q].up
        /\ \A j \in Journals : pos'[q][j] = Cursor(q, i, j)
    BY DEF GoodStep, HandleStep, Handles
  <1>2. Pub \in Journals /\ Cmd(q) \in Journals /\ Pub # Cmd(q) BY JournalOf
  <1>3. i \in Nat /\ i \in Frames /\ \A x \in Unread(q) : i <= x BY <1>1, FrameOf DEF Handles, IsNext
  <1>4. /\ app[q].born \in Nat /\ Len(log) \in Nat
        /\ pos[q][Pub] \in Int /\ pos[q][Cmd(q)] \in Int
    BY <1>2, RunOf
  <1>5. /\ pos'[q][Pub] = IF log[i].j = Pub THEN i ELSE pos[q][Pub]
        /\ pos'[q][Cmd(q)] = IF log[i].j = Cmd(q) THEN i
                                   ELSE IF Names(i, q) /\ pos[q][Cmd(q)] = NotJoined THEN app[q].born
                                   ELSE pos[q][Cmd(q)]
    BY <1>1, <1>2, MasterCursors
  <1>6. \A k \in Added : log'[k].j # Pub /\ log'[k].j # Cmd(q) BY ReplyJournals
  <1>7. /\ Frames \subseteq Frames' /\ \A k \in Frames : log'[k] = log[k] /\ k \in Nat
        /\ \A k \in Frames' : k \in Frames \/ k \in Added
    BY <1>1, FrameOf DEF LogKept, Added
  <1>8. pos[q][log[i].j] < i /\ pos[q][log[i].j] # NotJoined BY <1>1 DEF Handles
  <1>9. ASSUME NEW k \in Frames, log[k].j = Pub
        PROVE  pos'[q][Pub] < k <=> pos[q][Pub] < k /\ k # i
    <2>1. CASE log[i].j = Pub
      <3>1. pos[q][Pub] < k => i <= k BY <1>3, <1>8, <1>9, <2>1 DEF Unread, Frames
      <3> QED BY <1>3, <1>4, <1>5, <1>7, <1>8, <2>1, <3>1
    <2>2. CASE log[i].j # Pub BY <1>5, <1>9, <2>2
    <2> QED BY <2>1, <2>2
  <1>10. ASSUME NEW k \in Frames, log[k].j = Cmd(q)
         PROVE  pos'[q][Cmd(q)] < k /\ app[q].born < k <=> pos[q][Cmd(q)] < k /\ app[q].born < k /\ k # i
    <2>1. CASE log[i].j = Cmd(q)
      <3>1. pos[q][Cmd(q)] < k => i <= k BY <1>3, <1>8, <1>10, <2>1 DEF Unread, Frames
      <3>2. app[q].born <= pos[q][Cmd(q)] BY <1>8, <2>1 DEF JoinInv
      <3>3. pos'[q][Cmd(q)] = i BY <1>5, <2>1
      <3>4. pos[q][Cmd(q)] < i BY <1>8, <2>1
      <3> QED BY <1>3, <1>4, <1>7, <3>1, <3>2, <3>3, <3>4
    <2>2. CASE log[i].j # Cmd(q)
      <3>1. k # i BY <1>10, <2>2
      <3>2. pos'[q][Cmd(q)] = pos[q][Cmd(q)] \/ (pos[q][Cmd(q)] = NotJoined /\ pos'[q][Cmd(q)] = app[q].born)
        BY <1>5, <2>2
      <3> QED BY <1>4, <1>7, <3>1, <3>2 DEF NotJoined
    <2> QED BY <2>1, <2>2
  <1>11. \A k \in Frames : k \in Due(q)' <=> k \in Due(q) /\ k # i
    <2> TAKE k \in Frames
    <2>1. k \in Due(q)' <=> \/ log[k].j = Pub /\ pos'[q][Pub] < k
                            \/ log[k].j = Cmd(q) /\ pos'[q][Cmd(q)] < k /\ app[q].born < k
      BY <1>1, <1>7 DEF Due
    <2>2. k \in Due(q) <=> \/ log[k].j = Pub /\ pos[q][Pub] < k
                           \/ log[k].j = Cmd(q) /\ pos[q][Cmd(q)] < k /\ app[q].born < k
      BY DEF Due
    <2> QED BY <1>2, <1>9, <1>10, <2>1, <2>2
  <1>12. \A k \in Due(q)' : k \in Frames BY <1>6, <1>7 DEF Due
  <1>13. \A k \in Due(q) : k \in Frames BY DEF Due
  <1> QED BY <1>7, <1>11, <1>12, <1>13

\* What a process finds when it comes to a frame stays so.
Keeps(q) == Idle(q) \/ \E i : GoodStep(q, i)

LEMMA FoundKept ==
  ASSUME TypeInv, NEW q \in Nodes, JoinInv(q), Keeps(q), NEW x, NEW n \in Nat
  PROVE  /\ Knows(q, x, n) => Knows(q, x, n)'
         /\ Writes(q, x, n) => Writes(q, x, n)'
  <1>1. CASE Idle(q)
    <2>1. Due(q) \subseteq Due(q)' /\ writers'[q] = writers[q] /\ locations'[q] = locations[q] BY <1>1, DueKept DEF Idle
    <2>2. \A k \in Due(q) : log'[k] = log[k] BY <1>1 DEF Due, Idle, LogKept
    <2> QED BY <2>1, <2>2 DEF Knows, Writes, Is
  <1>2. CASE \E i : GoodStep(q, i)
    <2>1. PICK i : GoodStep(q, i) BY <1>2
    <2>2. Due(q)' = Due(q) \ {i} /\ \A k \in Due(q)' : log'[k] = log[k] BY <2>1, DueRead
    <2>3. /\ locations'[q] = locations[q] \cup (IF Is(i, "Register") THEN log[i].arg.known ELSE {})
          /\ writers'[q] = writers[q] \cup (IF Is(i, "RequestWriteTo") THEN {log[i].arg} ELSE {})
      BY <2>1 DEF GoodStep
    <2>4. Knows(q, x, n) => Knows(q, x, n)'
      <3>1. CASE x \in locations[q] BY <2>3, <3>1 DEF Knows
      <3>2. ASSUME NEW k \in Due(q), k < n, Is(k, "Register"), x \in log[k].arg.known PROVE Knows(q, x, n)'
        <4>1. CASE k = i BY <2>3, <3>2, <4>1 DEF Knows
        <4>2. CASE k # i
          <5>1. k \in Due(q)' /\ log'[k] = log[k] BY <2>2, <4>2
          <5> QED BY <3>2, <5>1 DEF Knows, Is
        <4> QED BY <4>1, <4>2
      <3> QED BY <3>1, <3>2 DEF Knows
    <2>5. Writes(q, x, n) => Writes(q, x, n)'
      <3>1. CASE x \in writers[q] BY <2>3, <3>1 DEF Writes
      <3>2. ASSUME NEW k \in Due(q), k < n, Is(k, "RequestWriteTo"), log[k].arg = x PROVE Writes(q, x, n)'
        <4>1. CASE k = i BY <2>3, <3>2, <4>1 DEF Writes
        <4>2. CASE k # i
          <5>1. k \in Due(q)' /\ log'[k] = log[k] BY <2>2, <4>2
          <5> QED BY <3>2, <5>1 DEF Writes, Is
        <4> QED BY <4>1, <4>2
      <3> QED BY <3>1, <3>2 DEF Writes
    <2> QED BY <2>4, <2>5
  <1> QED BY <1>1, <1>2 DEF Keeps

LEMMA FoundLater ==
  ASSUME TypeInv, NEW q \in Nodes, JoinInv(q), Keeps(q), NEW x, NEW n \in Nat, NEW t \in Nat, n <= t
  PROVE  /\ Knows(q, x, n) => Knows(q, x, t)'
         /\ Writes(q, x, n) => Writes(q, x, t)'
  <1>1. \A k \in Due(q) : k \in Nat BY DueOf
  <1>2. Knows(q, x, n) => Knows(q, x, t) BY <1>1 DEF Knows
  <1>3. Writes(q, x, n) => Writes(q, x, t) BY <1>1 DEF Writes
  <1> QED BY <1>2, <1>3, FoundKept

\* What is found at the end of the log is found at its end, and at the frames added, later.
LEMMA FoundNow ==
  ASSUME TypeInv, NEW q \in Nodes, JoinInv(q), Keeps(q), NEW x
  PROVE  /\ Knows(q, x, Now) => Knows(q, x, Now)' /\ \A i \in Added : Knows(q, x, i)'
         /\ Writes(q, x, Now) => Writes(q, x, Now)' /\ \A i \in Added : Writes(q, x, i)'
  <1>1. LogKept BY DEF Keeps, Idle, GoodStep, HandleStep
  <1>2. Len(log) \in Nat /\ Len(log') \in Nat /\ Len(log) <= Len(log') BY <1>1 DEF LogKept
  <1>3. PICK n \in Nat : n = Now BY <1>2 DEF Now
  <1>4. PICK t \in Nat : t = Now' BY <1>2 DEF Now
  <1>5. n <= t /\ \A i \in Added : i \in Nat /\ n <= i BY <1>1, <1>2, <1>3, <1>4 DEF Now, LogKept
  <1>6. ASSUME Knows(q, x, Now) PROVE Knows(q, x, Now)' /\ \A i \in Added : Knows(q, x, i)'
    <2>1. Knows(q, x, n) BY <1>3, <1>6
    <2>2. Knows(q, x, t)' /\ \A i \in Added : Knows(q, x, i)' BY <1>5, <2>1, FoundLater
    <2> QED BY <1>4, <2>2 DEF Knows
  <1>7. ASSUME Writes(q, x, Now) PROVE Writes(q, x, Now)' /\ \A i \in Added : Writes(q, x, i)'
    <2>1. Writes(q, x, n) BY <1>3, <1>7
    <2>2. Writes(q, x, t)' /\ \A i \in Added : Writes(q, x, i)' BY <1>5, <2>1, FoundLater
    <2> QED BY <1>4, <2>2 DEF Writes
  <1> QED BY <1>6, <1>7



-----------------------------------------------------------------------------
(* nothing tells of a process the master has not heard of *)

LEMMA FreshFrom ==
  ASSUME NEW q \in Nodes, Fresh(q), LogKept, q \notin registry'[Master], writers'[q] = {},
         \A p \in Nodes : q \notin registry'[p], \A i \in Added : Foreign(log'[i], q)
  PROVE  Fresh(q)'
  <1>1. ASSUME NEW i \in Frames' PROVE Foreign(log'[i], q)
    <2>1. CASE i \in Frames
      <3>1. log'[i] = log[i] /\ Foreign(log[i], q) BY <2>1 DEF LogKept, Fresh
      <3> QED BY <3>1
    <2>2. CASE i \notin Frames BY <1>1, <2>2 DEF Added
    <2> QED BY <2>1, <2>2
  <1> QED BY <1>1 DEF Fresh

LEMMA ForeignJournal ==
  ASSUME NEW q \in Nodes, NEW j, j = Pub \/ \E x \in Nodes \ {q} : j = Cmd(x)
  PROVE  j \notin {Cmd(q), Req(q), <<q, Cached>>, <<Cached, q>>}
  <1>1. Cached \in Nodes BY NodeNames
  <1> QED BY <1>1, JournalsDiffer

\* Whoever checks in is met.
LEMMA NotMetBefore ==
  ASSUME TypeInv, NEW q \in Nodes, MetInv(q), app' = app, mail' \subseteq mail, NotMet(q)'
  PROVE  NotMet(q) /\ \A m \in mail \ mail' : m.q # q
  <1>1. app'[q] = app[q] /\ app[q].pid \in Nat BY RunOf
  <1>2. NotMet(q) BY <1>1 DEF NotMet
  <1>3. ASSUME NEW m \in mail \ mail', m.q = q PROVE FALSE
    <2>1. m \in [q : Nodes, pid : 1 .. MaxCrash + 1] BY <1>3 DEF TypeInv
    <2>2. m.pid \in Nat /\ m.pid > 0 /\ m.pid <= app[q].pid BY <1>3, <2>1, NodeNames DEF MetInv
    <2>3. app[q].pid = 1 /\ [q |-> q, pid |-> 1] \in mail' BY <1>1, <2>2 DEF NotMet
    <2>4. m.pid = 1 BY <1>1, <2>2, <2>3
    <2>5. m = [q |-> q, pid |-> 1] BY <1>3, <2>1, <2>4
    <2> QED BY <1>3, <2>3, <2>5
  <1> QED BY <1>2, <1>3

LEMMA FreshMaster ==
  ASSUME TypeInv, NEW q \in Nodes, MetInv(q), MasterMove, NotMet(q)'
  PROVE  Fresh(q)'
  <1>1. Idle(q) /\ mail' \subseteq mail /\ app' = app BY MasterIdle
  <1>2. NotMet(q) /\ Fresh(q) /\ \A m \in mail \ mail' : m.q # q BY <1>1, NotMetBefore DEF MetInv
  <1>3. LogKept /\ writers'[q] = {} BY <1>1, <1>2 DEF Idle, Fresh
  <1>4. \A p \in Nodes : q \notin registry'[p]
    <2>1. \A p \in Nodes : registry'[p] = registry[p] BY MasterIdle DEF Idle
    <2> QED BY <1>2, <2>1 DEF Fresh
  <1>5. Cached \in Nodes /\ Master \notin Nodes /\ \A i \in Frames : Foreign(log[i], q)
    BY <1>2, NodeNames DEF Fresh
  <1>6. q \notin registry[Master] /\ registry[Master] \subseteq Nodes BY <1>2, NodeNames DEF Fresh, TypeInv
  <1>7. q \notin registry'[Master] /\ \A i \in Added : Foreign(log'[i], q)
    <2>1. ASSUME NEW dead, HealthStep(dead) PROVE q \notin registry'[Master] /\ \A i \in Added : Foreign(log'[i], q)
      <3>1. /\ registry'[Master] = registry[Master] \ dead /\ q \notin dead
            /\ Added = {Now} /\ Put(Now, Pub, "Deregister", dead)
        BY <1>6, <2>1 DEF HealthStep
      <3> QED BY <1>6, <3>1, ForeignJournal DEF Put, Foreign
    <2>2. ASSUME NEW m, Meets(m)
          PROVE  /\ m.q # q /\ m.q \in Nodes
                 /\ Foreign(log'[Now], q) /\ Foreign(log'[Now + 1], q) /\ Foreign(log'[Now + 2], q)
      <3>1. m.q # q /\ m.q \in Nodes BY <1>2, <2>2 DEF Meets
      <3>2. /\ Put(Now, Pub, "Register", [known |-> {m.q}, live |-> {m.q}])
            /\ Put(Now + 1, Cmd(m.q), "RequestWriteTo", Master)
            /\ Put(Now + 2, Cmd(m.q), "Register",
                   [known |-> locations[Master] \cup {m.q}, live |-> registry[Master] \cup {m.q}])
        BY <2>2 DEF Meets
      <3>3. /\ Cmd(m.q) \notin {Cmd(q), Req(q), <<q, Cached>>, <<Cached, q>>}
            /\ Pub \notin {Cmd(q), Req(q), <<q, Cached>>, <<Cached, q>>}
        BY <3>1, ForeignJournal
      <3>4. Foreign(log'[Now], q) BY <3>1, <3>2, <3>3 DEF Put, Foreign
      <3>5. Foreign(log'[Now + 1], q) BY <3>2, <3>3 DEF Put, Foreign
      <3>6. Foreign(log'[Now + 2], q) BY <1>6, <3>1, <3>2, <3>3 DEF Put, Foreign
      <3> QED BY <3>1, <3>4, <3>5, <3>6
    <2>3. ASSUME NEW m, MetStep(m) PROVE q \notin registry'[Master] /\ \A i \in Added : Foreign(log'[i], q)
      <3>1. Meets(m) /\ Added = {Now, Now + 1, Now + 2} /\ registry'[Master] = registry[Master] \cup {m.q}
        BY <2>3 DEF MetStep
      <3> QED BY <1>6, <2>2, <3>1
    <2>4. ASSUME NEW m, LostStep(m) PROVE q \notin registry'[Master] /\ \A i \in Added : Foreign(log'[i], q)
      <3>1. /\ Meets(m) /\ Added = {Now, Now + 1, Now + 2, Now + 3} /\ registry' = registry
            /\ Put(Now + 3, Pub, "Deregister", {m.q})
        BY <2>4 DEF LostStep
      <3>2. m.q # q BY <2>2, <3>1
      <3>3. Foreign(log'[Now + 3], q) BY <3>1, <3>2, ForeignJournal DEF Put, Foreign
      <3> QED BY <1>6, <2>2, <3>1, <3>3
    <2>5. ASSUME NEW m, RefusedStep(m) PROVE q \notin registry'[Master] /\ \A i \in Added : Foreign(log'[i], q)
      <3>1. log' = log /\ registry' = registry BY <2>5 DEF RefusedStep
      <3>2. Added = {} BY <3>1 DEF Added, Frames
      <3> QED BY <1>6, <3>1, <3>2
    <2>6. ASSUME NEW i, NEW x, RequestStep(i, x)
          PROVE  /\ x \in Nodes /\ x # q /\ registry' = registry /\ Foreign(log[i], q)
                 /\ \A y \in Nodes \ {q} : Cmd(y) \notin {Cmd(q), Req(q), <<q, Cached>>, <<Cached, q>>}
      BY <1>5, <1>6, <2>6, ForeignJournal DEF RequestStep
    <2>7. ASSUME NEW i, NEW x, WriteStep(i, x)
          PROVE  q \notin registry'[Master] /\ \A k \in Added : Foreign(log'[k], q)
      <3>1. /\ RequestStep(i, x) /\ Put(Now, Cmd(x), "RequestWriteTo", Cached)
            /\ \/ Cached \notin registry[Master] /\ Added = {Now}
               \/ /\ Cached \in registry[Master] /\ Added = {Now, Now + 1}
                  /\ Put(Now + 1, Cmd(Cached), "RequestReadFrom", x)
        BY <2>7 DEF WriteStep
      <3>2. Foreign(log'[Now], q) BY <2>6, <3>1 DEF Put, Foreign
      <3>3. Cached \in registry[Master] => Foreign(log'[Now + 1], q)
        BY <1>5, <1>6, <2>6, <3>1 DEF Put, Foreign, Added
      <3> QED BY <1>6, <2>6, <3>1, <3>2, <3>3
    <2>8. ASSUME NEW i, NEW x, ReadStep(i, x)
          PROVE  q \notin registry'[Master] /\ \A k \in Added : Foreign(log'[k], q)
      <3>1. /\ RequestStep(i, x) /\ Is(i, "RequestReadFrom")
            /\ \/ Cached \notin registry[Master] /\ Added = {Now} /\ Put(Now, Cmd(x), "CachedReadyToRead", x)
               \/ /\ Cached \in registry[Master] /\ Added = {Now, Now + 1, Now + 2}
                  /\ Put(Now, Cmd(Cached), "RequestWriteTo", x) /\ Put(Now + 1, Cmd(x), "RequestReadFrom", Cached)
                  /\ Put(Now + 2, Cmd(x), "CachedReadyToRead", x)
        BY <2>8 DEF ReadStep
      <3>2. q # Cached BY <2>6, <3>1 DEF Foreign, Is
      <3>3. CASE Added = {Now} /\ Put(Now, Cmd(x), "CachedReadyToRead", x)
        BY <1>6, <2>6, <3>1, <3>2, <3>3 DEF Put, Foreign
      <3>4. CASE /\ Cached \in registry[Master] /\ Added = {Now, Now + 1, Now + 2}
                 /\ Put(Now, Cmd(Cached), "RequestWriteTo", x) /\ Put(Now + 1, Cmd(x), "RequestReadFrom", Cached)
                 /\ Put(Now + 2, Cmd(x), "CachedReadyToRead", x)
        <4>1. Foreign(log'[Now], q) BY <1>5, <2>6, <3>1, <3>2, <3>4 DEF Put, Foreign
        <4>2. Foreign(log'[Now + 1], q) BY <2>6, <3>1, <3>2, <3>4 DEF Put, Foreign
        <4>3. Foreign(log'[Now + 2], q) BY <2>6, <3>1, <3>2, <3>4 DEF Put, Foreign
        <4> QED BY <1>6, <2>6, <3>1, <3>4, <4>1, <4>2, <4>3
      <3> QED BY <3>1, <3>3, <3>4
    <2>9. ASSUME NEW i, NEW y, DoneStep(i, y)
          PROVE  q \notin registry'[Master] /\ \A k \in Added : Foreign(log'[k], q)
      <3>1. /\ RequestStep(i, Cached) /\ Is(i, "RequestCachedDone") /\ log[i].arg = y /\ y \in Nodes
            /\ \/ Added = {}
               \/ /\ Added = {Now, Now + 1} /\ Put(Now, Cmd(y), "RequestStart", y)
                  /\ Put(Now + 1, Cmd(y), "Register", [known |-> locations[Master], live |-> registry[Master]])
        BY <2>9 DEF DoneStep
      <3>2. y # q BY <2>6, <3>1 DEF Foreign, Is
      <3>3. CASE Added = {} BY <1>6, <2>6, <3>1, <3>3
      <3>4. CASE /\ Added = {Now, Now + 1} /\ Put(Now, Cmd(y), "RequestStart", y)
                 /\ Put(Now + 1, Cmd(y), "Register", [known |-> locations[Master], live |-> registry[Master]])
        <4>1. Foreign(log'[Now], q) BY <2>6, <3>1, <3>2, <3>4 DEF Put, Foreign
        <4>2. Foreign(log'[Now + 1], q) BY <1>6, <2>6, <3>1, <3>2, <3>4 DEF Put, Foreign
        <4> QED BY <1>6, <2>6, <3>1, <3>4, <4>1, <4>2
      <3> QED BY <3>1, <3>3, <3>4
    <2> QED BY <2>1, <2>3, <2>4, <2>5, <2>7, <2>8, <2>9 DEF MasterMove
  <1> QED BY <1>2, <1>3, <1>4, <1>7, FreshFrom


LEMMA NotMetAlready ==
  ASSUME TypeInv, NEW q \in Nodes, NEW p \in Nodes, ProcMove(p), NotMet(q)'
  PROVE  NotMet(q)
  <1>1. app[q].pid \in Nat BY RunOf
  <1>2. CASE p # q
    <2>1. app'[q] = app[q] /\ \A m \in mail' \ mail : m.q # q BY <1>2, ProcIdle DEF Idle
    <2>2. [q |-> q, pid |-> 1].q = q OBVIOUS
    <2>3. [q |-> q, pid |-> 1] \in mail' => [q |-> q, pid |-> 1] \in mail
      <3> DEFINE m == [q |-> q, pid |-> 1]
      <3>1. m.q = q OBVIOUS
      <3> HIDE DEF m
      <3>2. m \in mail' => m \in mail BY <2>1, <3>1
      <3> QED BY <3>2 DEF m
    <2> QED BY <2>1, <2>3 DEF NotMet
  <1>3. CASE \E i : GoodStep(q, i) \/ ThrowStep(q, i)
    <2>1. app'[q].pid = app[q].pid /\ mail' = mail BY <1>3 DEF GoodStep, ThrowStep, HandleStep, OthersSame
    <2> QED BY <2>1 DEF NotMet
  <1>4. CASE BootStep(q)
    <2>1. app'[q].pid = app[q].pid + 1 BY <1>4 DEF BootStep
    <2> QED BY <1>1, <2>1 DEF NotMet
  <1>5. CASE CrashStep(q) BY <1>5 DEF CrashStep, NotMet
  <1> QED BY <1>2, <1>3, <1>4, <1>5 DEF ProcMove

LEMMA FreshProc ==
  ASSUME TypeInv, NEW q \in Nodes, Fresh(q), NEW p \in Nodes, ProcMove(p)
  PROVE  Fresh(q)'
  <1>1. MasterSame /\ LogKept /\ \A x \in Nodes \ {p} : Idle(x) BY ProcIdle
  <1>2. q \notin registry[Master] /\ registry'[Master] = registry[Master] BY <1>1 DEF MasterSame, Fresh
  <1>3. /\ writers[q] = {} /\ \A x \in Nodes : q \notin registry[x]
        /\ \A i \in Frames : Foreign(log[i], q)
    BY DEF Fresh
  <1>4. \A x \in Nodes \ {p} : q \notin registry'[x] BY <1>1, <1>3 DEF Idle
  <1>5. ASSUME NEW x \in Nodes
        PROVE  /\ Req(x)  \notin {Cmd(q), <<q, Cached>>, <<Cached, q>>} /\ (x # q => Req(x) # Req(q))
               /\ x # q => <<x, Cached>> \notin {Cmd(q), Req(q), <<q, Cached>>}
               /\ x # q => <<Cached, x>> \notin {Cmd(q), Req(q), <<Cached, q>>}
    BY NodeNames, JournalsDiffer
  <1>6. CASE BootStep(p) \/ CrashStep(p)
    <2>1. Added = {} BY <1>6 DEF BootStep, CrashStep, Added, Frames
    <2>2. writers'[q] = {} /\ q \notin registry'[p]
      <3>1. CASE BootStep(p)
        <4>1. writers'[p] = {} /\ registry'[p] = {} BY <3>1 DEF BootStep
        <4>2. p # q => writers'[q] = writers[q] BY <1>1 DEF Idle
        <4> QED BY <1>3, <4>1, <4>2
      <3>2. CASE CrashStep(p) BY <1>3, <3>2 DEF CrashStep
      <3> QED BY <1>6, <3>1, <3>2
    <2> QED BY <1>1, <1>2, <1>4, <2>1, <2>2, FreshFrom
  <1>7. ASSUME NEW i, GoodStep(p, i) \/ ThrowStep(p, i) PROVE Fresh(q)'
    <2>1. Handles(p, i) /\ i \in Frames /\ Foreign(log[i], q) BY <1>3, <1>7 DEF GoodStep, ThrowStep, HandleStep, Handles
    <2>2. writers'[q] = {}
      <3>1. CASE p # q BY <1>1, <1>3, <3>1 DEF Idle
      <3>2. CASE p = q
        <4>1. ~Is(i, "RequestWriteTo") BY <2>1, <3>2, HandledKinds DEF Foreign
        <4> QED BY <1>3, <1>7, <3>2, <4>1 DEF GoodStep, ThrowStep
      <3> QED BY <3>1, <3>2
    <2>3. q \notin registry'[p] BY <1>3, <1>7, <2>1 DEF GoodStep, ThrowStep, Foreign, Is
    <2>4. ASSUME NEW k \in Added PROVE Foreign(log'[k], q)
      <3>1. CASE ThrowStep(p, i)
        <4>1. /\ p = Cached /\ Is(i, "RequestCached") /\ k = Now
              /\ Put(Now, <<Cached, log[i].arg>>, "State", log[i].arg) /\ log[i].arg \in Apps
          BY <2>4, <3>1 DEF ThrowStep
        <4>2. q # Cached /\ log[i].j # <<q, Cached>> BY <2>1, <4>1 DEF Foreign, Is
        <4>3. log[i].j = <<log[i].arg, Cached>> BY <2>1, <4>1, HandledKinds
        <4>4. log[i].arg # q /\ log[i].arg \in Nodes /\ log[i].arg # Cached BY <4>1, <4>2, <4>3, NodeNames
        <4>5. <<Cached, log[i].arg>> \notin {Cmd(q), Req(q), <<Cached, q>>, <<q, Cached>>}
          <5> DEFINE x == log[i].arg
          <5>1. x \in Nodes /\ x # q BY <4>4
          <5> HIDE DEF x
          <5>2. <<Cached, x>> \notin {Cmd(q), Req(q), <<Cached, q>>} BY <1>5, <5>1
          <5>3. <<Cached, x>> # <<q, Cached>> BY <4>2
          <5> QED BY <5>2, <5>3 DEF x
        <4> QED BY <4>1, <4>2, <4>5 DEF Put, Foreign
      <3>2. CASE GoodStep(p, i)
        <4>1. Reply(p, i) BY <3>2 DEF GoodStep
        <4>2. CASE /\ Is(i, "Register") /\ Cached \in log[i].arg.live /\ Master \in writers[p]
                   /\ \/ p = Cached /\ Added = {Now} /\ Put(Now, Req(p), "RequestCachedDone", p)
                      \/ /\ p \in Apps /\ Added = {Now, Now + 1}
                         /\ Put(Now, Req(p), "RequestWriteTo", Cached)
                         /\ Put(Now + 1, Req(p), "RequestReadFrom", Cached)
          <5>1. p # q /\ q # Cached BY <1>3, <2>1, <4>2 DEF Foreign, Is
          <5>2. Req(p) \notin {Cmd(q), Req(q), <<q, Cached>>, <<Cached, q>>} BY <1>5, <5>1
          <5> QED BY <2>4, <4>2, <5>1, <5>2 DEF Put, Foreign
        <4>3. CASE /\ Is(i, "CachedReadyToRead") /\ p \in Apps /\ Added = {Now}
                   /\ Put(Now, <<p, Cached>>, "RequestCached", p)
          <5>1. q # Cached BY <2>1, <4>3 DEF Foreign, Is
          <5>2. log[i].j = Cmd(p) BY <2>1, <4>3, HandledKinds
          <5>3. p # q BY <2>1, <5>2 DEF Foreign
          <5>4. <<p, Cached>> \notin {Cmd(q), Req(q), <<q, Cached>>, <<Cached, q>>}
            <6>1. <<p, Cached>> \notin {Cmd(q), Req(q), <<q, Cached>>} BY <1>5, <5>3
            <6>2. <<p, Cached>> # <<Cached, q>> BY <5>1
            <6> QED BY <6>1, <6>2
          <5> QED BY <2>4, <4>3, <5>1, <5>4 DEF Put, Foreign
        <4>4. CASE /\ Is(i, "RequestCached") /\ p = Cached /\ log[i].arg \in Apps /\ Added = {Now, Now + 1}
                   /\ Put(Now, <<Cached, log[i].arg>>, "State", log[i].arg)
                   /\ Put(Now + 1, Req(Cached), "RequestCachedDone", log[i].arg)
          <5>1. q # Cached /\ log[i].j # <<q, Cached>> BY <2>1, <4>4 DEF Foreign, Is
          <5>2. log[i].j = <<log[i].arg, Cached>> BY <2>1, <4>4, HandledKinds
          <5>3. log[i].arg # q /\ log[i].arg \in Nodes BY <4>4, <5>1, <5>2, NodeNames
          <5>4. <<Cached, log[i].arg>> \notin {Cmd(q), Req(q), <<Cached, q>>, <<q, Cached>>}
            <6> DEFINE x == log[i].arg
            <6>1. x \in Nodes /\ x # q BY <5>3
            <6> HIDE DEF x
            <6>2. <<Cached, x>> \notin {Cmd(q), Req(q), <<Cached, q>>} BY <1>5, <6>1
            <6>3. <<Cached, x>> # <<q, Cached>> BY <5>1
            <6> QED BY <6>2, <6>3 DEF x
          <5>5. Req(Cached) \notin {Cmd(q), Req(q), <<q, Cached>>, <<Cached, q>>} BY <1>5, <5>1, NodeNames
          <5>6. k = Now \/ k = Now + 1 BY <2>4, <4>4
          <5>7. Foreign(log'[Now], q) BY <4>4, <5>1, <5>4 DEF Put, Foreign
          <5>8. Foreign(log'[Now + 1], q) BY <4>4, <5>1, <5>3, <5>5 DEF Put, Foreign
          <5> QED BY <5>6, <5>7, <5>8
        <4> QED BY <2>4, <4>1, <4>2, <4>3, <4>4 DEF Reply
      <3> QED BY <1>7, <3>1, <3>2
    <2> QED BY <1>1, <1>2, <1>4, <2>2, <2>3, <2>4, FreshFrom
  <1> QED BY <1>6, <1>7 DEF ProcMove


-----------------------------------------------------------------------------
(* the invariant is kept, part by part *)

LEMMA MasterKept ==
  ASSUME TypeInv, MasterInv, MasterMove \/ \E p \in Nodes : ProcMove(p)
  PROVE  MasterInv'
  <1>1. CASE \E p \in Nodes : ProcMove(p)
    <2>1. MasterSame BY <1>1, ProcIdle
    <2> QED BY <2>1 DEF MasterSame, MasterInv
  <1>2. /\ writers[Master] = registry[Master] /\ registry[Master] \subseteq locations[Master]
        /\ \A j \in Journals : pos[Master][j] # NotJoined <=> \E q \in registry[Master] : j = Req(q)
        /\ registry[Master] \subseteq Nodes
    BY NodeNames DEF MasterInv, TypeInv
  <1>3. ASSUME NEW dead, HealthStep(dead) PROVE MasterInv'
    <2>1. /\ registry'[Master] = registry[Master] \ dead /\ writers'[Master] = writers[Master] \ dead
          /\ locations'[Master] = locations[Master]
          /\ \A j \in Journals : pos'[Master][j] = IF j[1] \in dead THEN NotJoined ELSE pos[Master][j]
      BY <1>3 DEF HealthStep
    <2>2. \A q \in registry[Master] : Req(q)[1] = q BY <1>2, JournalOf
    <2>3. ASSUME NEW j \in Journals PROVE pos'[Master][j] # NotJoined <=> \E q \in registry'[Master] : j = Req(q)
      BY <1>2, <2>1, <2>2
    <2> QED BY <1>2, <2>1, <2>3 DEF MasterInv
  <1>4. ASSUME NEW m, MetStep(m) PROVE MasterInv'
    <2>1. /\ registry'[Master] = registry[Master] \cup {m.q} /\ writers'[Master] = writers[Master] \cup {m.q}
          /\ locations'[Master] = locations[Master] \cup {m.q}
          /\ \A j \in Journals : pos'[Master][j] = IF j = Req(m.q) /\ pos[Master][j] = NotJoined THEN Len(log)
                                                                                       ELSE pos[Master][j]
      BY <1>4 DEF MetStep, Meets
    <2>2. Len(log) # NotJoined BY DEF TypeInv, NotJoined
    <2>3. ASSUME NEW j \in Journals PROVE pos'[Master][j] # NotJoined <=> \E q \in registry'[Master] : j = Req(q)
      BY <1>2, <2>1, <2>2
    <2> QED BY <1>2, <2>1, <2>3 DEF MasterInv
  <1>5. ASSUME NEW m, LostStep(m) \/ RefusedStep(m) PROVE MasterInv'
    <2>1. /\ registry' = registry /\ writers' = writers /\ pos' = pos
          /\ locations[Master] \subseteq locations'[Master]
      BY <1>5 DEF LostStep, RefusedStep, Meets
    <2> QED BY <1>2, <2>1 DEF MasterInv
  <1>6. ASSUME NEW i, NEW x, RequestStep(i, x) PROVE MasterInv'
    <2>1. /\ registry' = registry /\ writers' = writers /\ locations' = locations /\ x \in registry[Master]
          /\ \A j \in Journals : pos'[Master][j] = IF j = Req(x) THEN i ELSE pos[Master][j]
          /\ i \in Frames
      BY <1>6 DEF RequestStep
    <2>2. i # NotJoined BY <2>1, FrameOf DEF NotJoined
    <2>3. ASSUME NEW j \in Journals PROVE pos'[Master][j] # NotJoined <=> \E q \in registry'[Master] : j = Req(q)
      BY <1>2, <2>1, <2>2
    <2> QED BY <1>2, <2>1, <2>3 DEF MasterInv
  <1>7. CASE MasterMove
    BY <1>3, <1>4, <1>5, <1>6, <1>7 DEF MasterMove, WriteStep, ReadStep, DoneStep
  <1> QED BY <1>1, <1>7

\* A running process that the master has met is registered, one that is registered is settled.
LEMMA ActiveMet ==
  ASSUME TypeInv, NEW q \in Nodes, MetInv(q), Active(q)
  PROVE  /\ q \in registry[Master] => Settled(q) /\ Alive(q, livepid[q]) /\ livepid[q] = 1
         /\ q \notin registry[Master] => NotMet(q) /\ Fresh(q)
         /\ app[q].up /\ app[q].pid = 1
  BY DEF MetInv, Active, Settled, Alive

LEMMA ActiveMaster ==
  ASSUME TypeInv, NEW q \in Nodes, MasterMove
  PROVE  Active(q)' <=> Active(q)
  <1>1. app'[q] = app[q] BY MasterIdle DEF Idle
  <1> QED BY <1>1 DEF Active

\* The first run of a process is not taken for gone.
LEMMA ActiveStays ==
  ASSUME TypeInv, NEW q \in Nodes, MetInv(q), Active(q)
  PROVE  /\ \A dead : HealthStep(dead) => q \notin dead
         /\ \A m : LostStep(m) => m.q # q
         /\ \A m : MetStep(m) => (m.q = q => m.pid = 1 /\ NotMet(q) /\ Fresh(q))
  <1>1. ASSUME NEW dead, HealthStep(dead), q \in dead PROVE FALSE
    <2>1. q \in registry[Master] /\ ~Alive(q, livepid[q]) BY <1>1 DEF HealthStep
    <2> QED BY <2>1, ActiveMet
  <1>2. ASSUME NEW m, Meets(m), m.q = q PROVE m.pid = 1 /\ Alive(m.q, m.pid) /\ NotMet(q) /\ Fresh(q)
    <2>1. m \in mail /\ m.pid \in Nat /\ m.pid > 0 /\ q \notin registry[Master] BY <1>2 DEF Meets
    <2>2. m.pid <= app[q].pid /\ app[q].pid = 1 /\ app[q].up BY <1>2, <2>1, ActiveMet DEF MetInv
    <2>3. m.pid = 1 BY <2>1, <2>2
    <2> QED BY <1>2, <2>1, <2>2, <2>3, ActiveMet DEF Alive
  <1> QED BY <1>1, <1>2 DEF LostStep, MetStep

MetMoves(q) ==
  /\ livepid'[q] <= app[q].pid
  /\ Active(q) /\ q \notin registry'[Master] => q \notin registry[Master] /\ \A m \in mail \ mail' : m.q # q
  /\ Active(q) /\ q \in registry'[Master] => livepid'[q] = 1
  /\ Active(q) => \A i \in Added : log'[i].type = "Deregister" => q \notin log'[i].arg

LEMMA MetMoved ==
  ASSUME TypeInv, NEW q \in Nodes, MetInv(q), MasterMove
  PROVE  MetMoves(q)
  <1>1. /\ livepid[q] \in Nat /\ app[q].pid \in Nat /\ livepid[q] <= app[q].pid
        /\ Active(q) /\ q \in registry[Master] => livepid[q] = 1
    BY RunOf DEF TypeInv, MetInv
  <1>2. ASSUME NEW dead, HealthStep(dead) PROVE MetMoves(q)
    <2>1. /\ livepid' = livepid /\ registry'[Master] = registry[Master] \ dead /\ mail' = mail
          /\ Added = {Now} /\ log'[Now].arg = dead
      BY <1>2 DEF HealthStep, Put
    <2>2. Active(q) => q \notin dead BY <1>2, ActiveStays
    <2> QED BY <1>1, <2>1, <2>2 DEF MetMoves
  <1>3. ASSUME NEW m, MetStep(m) PROVE MetMoves(q)
    <2>1. /\ registry'[Master] = registry[Master] \cup {m.q} /\ mail' = mail \ {m} /\ m \in mail
          /\ livepid'[m.q] = m.pid /\ \A x \in Nodes \ {m.q} : livepid'[x] = livepid[x]
          /\ Added = {Now, Now + 1, Now + 2}
          /\ log'[Now].type = "Register" /\ log'[Now + 1].type = "RequestWriteTo"
          /\ log'[Now + 2].type = "Register"
      BY <1>3 DEF MetStep, Meets, Put
    <2>2. Active(q) /\ m.q = q => m.pid = 1 BY <1>3, ActiveStays
    <2>3. m.q = q => m.pid <= app[q].pid BY <2>1 DEF MetInv
    <2>4. \A i \in Added : log'[i].type # "Deregister" BY <2>1
    <2>5. CASE m.q = q BY <1>1, <2>1, <2>2, <2>3, <2>4, <2>5 DEF MetMoves
    <2>6. CASE m.q # q BY <1>1, <2>1, <2>4, <2>6 DEF MetMoves
    <2> QED BY <2>5, <2>6
  <1>4. ASSUME NEW m, LostStep(m) PROVE MetMoves(q)
    <2>1. /\ registry' = registry /\ livepid' = livepid /\ mail' = mail \ {m}
          /\ Added = {Now, Now + 1, Now + 2, Now + 3}
          /\ log'[Now].type = "Register" /\ log'[Now + 1].type = "RequestWriteTo"
          /\ log'[Now + 2].type = "Register" /\ log'[Now + 3].arg = {m.q}
      BY <1>4 DEF LostStep, Meets, Put
    <2>2. Active(q) => m.q # q BY <1>4, ActiveStays
    <2>3. Active(q) => \A i \in Added : log'[i].type = "Deregister" => q \notin log'[i].arg BY <2>1, <2>2
    <2> QED BY <1>1, <2>1, <2>2, <2>3 DEF MetMoves
  <1>5. ASSUME NEW m, RefusedStep(m) PROVE MetMoves(q)
    <2>1. log' = log /\ registry' = registry /\ livepid' = livepid /\ mail' = mail \ {m} /\ m.q \in registry[Master]
      BY <1>5 DEF RefusedStep
    <2>2. Added = {} BY <2>1 DEF Added, Frames
    <2> QED BY <1>1, <2>1, <2>2 DEF MetMoves
  <1>6. ASSUME NEW i, NEW x, WriteStep(i, x) \/ ReadStep(i, x) \/ DoneStep(i, x) PROVE MetMoves(q)
    <2>1. registry' = registry /\ livepid' = livepid /\ mail' = mail
      BY <1>6 DEF WriteStep, ReadStep, DoneStep, RequestStep
    <2>2. \A k \in Added : log'[k].type # "Deregister"
      <3>1. CASE WriteStep(i, x) BY <3>1 DEF WriteStep, Put
      <3>2. CASE ReadStep(i, x) BY <3>2 DEF ReadStep, Put
      <3>3. CASE DoneStep(i, x) BY <3>3 DEF DoneStep, Put
      <3> QED BY <1>6, <3>1, <3>2, <3>3
    <2> QED BY <1>1, <2>1, <2>2 DEF MetMoves
  <1> QED BY <1>2, <1>3, <1>4, <1>5, <1>6 DEF MasterMove

LEMMA MetMaster ==
  ASSUME TypeInv, NEW q \in Nodes, MetInv(q), MasterMove
  PROVE  MetInv(q)'
  <1>1. Idle(q) /\ mail' \subseteq mail /\ app' = app BY MasterIdle
  <1>2. Active(q)' <=> Active(q) BY ActiveMaster
  <1>3. MetMoves(q) BY MetMoved
  <1>4. \A m \in mail' : m.q = q => m.pid <= app'[q].pid BY <1>1 DEF MetInv
  <1>5. (app'[q].up => app'[q].pid > 0) /\ livepid'[q] <= app'[q].pid BY <1>1, <1>3 DEF MetInv, MetMoves
  <1>6. NotMet(q)' => Fresh(q)' BY FreshMaster
  <1>7. Active(q) /\ q \notin registry'[Master] => NotMet(q)'
    <2> SUFFICES ASSUME Active(q), q \notin registry'[Master] PROVE NotMet(q)' OBVIOUS
    <2>1. NotMet(q) /\ app[q].pid = 1 /\ \A m \in mail \ mail' : m.q # q
      BY <1>3, ActiveMet DEF MetMoves
    <2> DEFINE m == [q |-> q, pid |-> 1]
    <2>2. m \in mail /\ m.q = q BY <2>1 DEF NotMet
    <2> HIDE DEF m
    <2>3. m \in mail' BY <2>1, <2>2
    <2> QED BY <1>1, <2>1, <2>3 DEF NotMet, m
  <1>8. Active(q) => \A i \in Frames' : log'[i].type = "Deregister" => q \notin log'[i].arg
    <2> SUFFICES ASSUME Active(q), NEW i \in Frames', log'[i].type = "Deregister" PROVE q \notin log'[i].arg OBVIOUS
    <2>1. CASE i \in Frames
      <3>1. log'[i] = log[i] BY <1>1, <2>1 DEF Idle, LogKept
      <3> QED BY <2>1, <3>1 DEF MetInv, Is
    <2>2. CASE i \notin Frames
      <3>1. i \in Added BY <2>2 DEF Added
      <3> QED BY <1>3, <3>1 DEF MetMoves
    <2> QED BY <2>1, <2>2
  <1> QED BY <1>1, <1>2, <1>3, <1>4, <1>5, <1>6, <1>7, <1>8 DEF MetInv, MetMoves, Is

LEMMA ActiveProc ==
  ASSUME TypeInv, NEW q \in Nodes, NEW p \in Nodes, ProcMove(p), MetInv(q)
  PROVE  /\ Active(q)' => Active(q) \/ (p = q /\ BootStep(q) /\ NotMet(q) /\ Fresh(q))
         /\ p # q => (Active(q)' <=> Active(q))
         /\ (\E i : GoodStep(p, i)) => (Active(q)' <=> Active(q))
  <1>1. p # q => app'[q] = app[q] BY ProcIdle DEF Idle
  <1>2. app[q].pid \in Nat BY RunOf
  <1>3. CASE \E i : GoodStep(q, i)
    <2>1. app[q].up /\ app'[q].up /\ app'[q].pid = app[q].pid BY <1>3 DEF GoodStep, HandleStep, Handles
    <2> QED BY <1>1, <2>1 DEF Active
  <1>4. CASE BootStep(q)
    <2>1. app'[q].pid = app[q].pid + 1 BY <1>4 DEF BootStep
    <2>2. Active(q)' => app[q].pid = 0 BY <1>2, <2>1 DEF Active
    <2>3. Active(q)' => NotMet(q) /\ Fresh(q) BY <2>2 DEF NotMet, MetInv
    <2>4. ~\E i : GoodStep(q, i) BY <1>4 DEF BootStep, GoodStep, HandleStep, Handles
    <2> QED BY <1>1, <1>4, <2>3, <2>4 DEF Active
  <1>5. CASE CrashStep(q) \/ \E i : ThrowStep(q, i)
    <2>1. ~app'[q].up BY <1>5 DEF CrashStep, ThrowStep
    <2>2. ~\E i : GoodStep(q, i) BY <2>1 DEF GoodStep
    <2> QED BY <1>1, <2>1, <2>2 DEF Active
  <1>6. CASE p # q BY <1>1, <1>6 DEF Active
  <1> QED BY <1>3, <1>4, <1>5, <1>6 DEF ProcMove

LEMMA MetProc ==
  ASSUME TypeInv, NEW q \in Nodes, MetInv(q), NEW p \in Nodes, ProcMove(p)
  PROVE  MetInv(q)'
  <1>1. /\ MasterSame /\ LogKept /\ mail \subseteq mail' /\ app'[q].pid >= app[q].pid
        /\ p # q => Idle(q) /\ \A m \in mail' \ mail : m.q # q
    <2>1. CASE p = q BY <2>1, ProcIdle
    <2>2. CASE p # q
      <3>1. app'[q] = app[q] BY <2>2, ProcIdle DEF Idle
      <3> QED BY <2>2, <3>1, ProcIdle, RunOf
    <2> QED BY <2>1, <2>2
  <1>2. app[q].pid \in Nat /\ app'[q].pid \in Int /\ livepid[q] \in Nat /\ livepid[q] <= app[q].pid
    <2>1. app'[q].pid = app[q].pid \/ app'[q].pid = app[q].pid + 1
      <3>1. CASE p # q BY <1>1, <3>1 DEF Idle
      <3>2. CASE p = q
        BY <3>2 DEF ProcMove, GoodStep, ThrowStep, HandleStep, BootStep, CrashStep
      <3> QED BY <3>1, <3>2
    <2> QED BY <2>1, RunOf DEF TypeInv, MetInv
  <1>3. \A m \in mail' : m.q = q => m.pid <= app'[q].pid
    <2> SUFFICES ASSUME NEW m \in mail', m.q = q PROVE m.pid <= app'[q].pid OBVIOUS
    <2>1. CASE m \in mail
      <3>1. m.pid <= app[q].pid BY <2>1 DEF MetInv
      <3>2. m.pid \in Nat BY <2>1, NodeNames DEF TypeInv
      <3> QED BY <1>1, <1>2, <3>1, <3>2
    <2>2. CASE m \notin mail
      <3>1. p = q BY <1>1, <2>2
      <3>2. BootStep(q) BY <2>2, <3>1 DEF ProcMove, GoodStep, ThrowStep, HandleStep, OthersSame, CrashStep
      <3>3. m = [q |-> q, pid |-> app[q].pid + 1] /\ app'[q].pid = app[q].pid + 1 BY <2>2, <3>2 DEF BootStep
      <3>4. m.pid = app[q].pid + 1 BY <3>3
      <3> QED BY <1>2, <3>3, <3>4
    <2> QED BY <2>1, <2>2
  <1>4. app'[q].up => app'[q].pid > 0
    <2>1. CASE p # q BY <1>1, <2>1 DEF Idle, MetInv
    <2>2. CASE \E i : GoodStep(q, i) \/ ThrowStep(q, i)
      BY <2>2 DEF GoodStep, ThrowStep, HandleStep, Handles, MetInv
    <2>3. CASE BootStep(q) BY <1>2, <2>3 DEF BootStep
    <2>4. CASE CrashStep(q) BY <2>4 DEF CrashStep
    <2> QED BY <2>1, <2>2, <2>3, <2>4 DEF ProcMove
  <1>5. NotMet(q)' => Fresh(q)'
    <2>1. NotMet(q)' => Fresh(q) BY NotMetAlready DEF MetInv
    <2> QED BY <2>1, FreshProc
  <1>6. Active(q)' /\ q \notin registry'[Master] => NotMet(q)'
    <2> SUFFICES ASSUME Active(q)', q \notin registry'[Master] PROVE NotMet(q)' OBVIOUS
    <2>1. app'[q].pid = 1 /\ q \notin registry[Master] BY <1>1 DEF Active, MasterSame
    <2> DEFINE m == [q |-> q, pid |-> 1]
    <2>2. CASE Active(q)
      <3>1. NotMet(q) /\ app[q].pid = 1 BY <2>1, <2>2, ActiveMet
      <3>2. m \in mail BY <3>1 DEF NotMet
      <3> QED BY <1>1, <2>1, <3>2 DEF NotMet
    <2>3. CASE p = q /\ BootStep(q)
      <3>1. mail' = mail \cup {[q |-> q, pid |-> app[q].pid + 1]} /\ app'[q].pid = app[q].pid + 1
        BY <2>3 DEF BootStep
      <3>2. app[q].pid + 1 = 1 BY <2>1, <3>1
      <3>3. m \in mail' BY <3>1, <3>2
      <3> QED BY <2>1, <3>3 DEF NotMet
    <2> QED BY <2>2, <2>3, ActiveProc
  <1>7. Active(q)' /\ q \in registry'[Master] => livepid'[q] = 1
    <2> SUFFICES ASSUME Active(q)', q \in registry'[Master] PROVE livepid'[q] = 1 OBVIOUS
    <2>1. q \in registry[Master] /\ livepid' = livepid BY <1>1 DEF MasterSame
    <2>2. Active(q) BY <2>1, ActiveProc DEF Fresh
    <2> QED BY <2>1, <2>2, ActiveMet
  <1>8. Active(q)' => \A i \in Frames' : log'[i].type = "Deregister" => q \notin log'[i].arg
    <2> SUFFICES ASSUME Active(q)', NEW i \in Frames', log'[i].type = "Deregister" PROVE q \notin log'[i].arg OBVIOUS
    <2>1. i \in Frames => q \notin log[i].arg \/ log[i].type # "Deregister"
      <3>1. CASE Active(q) BY <3>1 DEF MetInv, Is
      <3>2. CASE Fresh(q) BY <3>2 DEF Fresh, Foreign
      <3> QED BY <3>1, <3>2, ActiveProc
    <2>2. CASE i \in Frames
      <3>1. log'[i] = log[i] BY <1>1, <2>2 DEF LogKept
      <3> QED BY <2>1, <2>2, <3>1
    <2>3. CASE i \notin Frames
      <3>1. i \in Added BY <2>3 DEF Added
      <3>2. PICK k : GoodStep(p, k) \/ ThrowStep(p, k)
        <4>1. log' # log BY <2>3, <3>1 DEF Frames
        <4> QED BY <4>1 DEF ProcMove, BootStep, CrashStep
      <3>3. log'[i].type # "Deregister"
        <4>1. CASE GoodStep(p, k) BY <3>1, <4>1 DEF GoodStep, Reply, Put
        <4>2. CASE ThrowStep(p, k) BY <3>1, <4>2 DEF ThrowStep, Put
        <4> QED BY <3>2, <4>1, <4>2
      <3> QED BY <3>3
    <2> QED BY <2>2, <2>3
  <1>9. livepid'[q] <= app'[q].pid BY <1>1, <1>2 DEF MasterSame
  <1> QED BY <1>3, <1>4, <1>5, <1>6, <1>7, <1>8, <1>9 DEF MetInv, Is


LEMMA SettledMaster ==
  ASSUME TypeInv, NEW q \in Nodes, MasterMove, Settled(q)'
  PROVE  Settled(q) \/ \E m : MetStep(m) /\ m.q = q
  <1>1. app'[q] = app[q] BY MasterIdle DEF Idle
  <1>2. app'[q].up /\ q \in registry'[Master] /\ livepid'[q] = app'[q].pid BY DEF Settled
  <1>3. ASSUME q \in registry[Master], livepid'[q] = livepid[q] PROVE Settled(q) BY <1>1, <1>2, <1>3 DEF Settled
  <1>4. ASSUME NEW dead, HealthStep(dead) PROVE Settled(q) BY <1>2, <1>3, <1>4 DEF HealthStep
  <1>5. ASSUME NEW m, MetStep(m), m.q # q PROVE Settled(q) BY <1>2, <1>3, <1>5 DEF MetStep
  <1>6. ASSUME NEW m, LostStep(m) \/ RefusedStep(m) PROVE Settled(q)
    BY <1>2, <1>3, <1>6 DEF LostStep, RefusedStep
  <1>7. ASSUME NEW i, NEW x, RequestStep(i, x) PROVE Settled(q) BY <1>2, <1>3, <1>7 DEF RequestStep
  <1> QED BY <1>4, <1>5, <1>6, <1>7 DEF MasterMove, WriteStep, ReadStep, DoneStep

\* A command to a process in its first run goes to one that is registered.
LEMMA Addressed ==
  ASSUME TypeInv, NEW q \in Nodes, MetInv(q), Active(q), MasterMove, NEW i \in Added, log'[i].j = Cmd(q)
  PROVE  Settled(q) \/ \E m : MetStep(m) /\ m.q = q
  <1>1. q \in registry[Master] => Settled(q) BY ActiveMet
  <1>2. Pub # Cmd(q) /\ Cached \in Nodes /\ \A x \in Nodes : Cmd(x) = Cmd(q) => x = q
    BY JournalOf, NodeNames, JournalsDiffer
  <1>3. ASSUME NEW dead, HealthStep(dead) PROVE FALSE BY <1>2, <1>3 DEF HealthStep, Put
  <1>4. ASSUME NEW m, MetStep(m) PROVE m.q = q BY <1>2, <1>4 DEF MetStep, Meets, Put
  <1>5. ASSUME NEW m, LostStep(m) PROVE FALSE
    <2>1. m.q # q BY <1>5, ActiveStays
    <2> QED BY <1>2, <1>5, <2>1 DEF LostStep, Meets, Put
  <1>6. ASSUME NEW m, RefusedStep(m) PROVE FALSE BY <1>6 DEF RefusedStep, Added, Frames
  <1>7. ASSUME NEW k, NEW x, WriteStep(k, x) PROVE q \in registry[Master]
    BY <1>2, <1>7 DEF WriteStep, RequestStep, Put
  <1>8. ASSUME NEW k, NEW x, ReadStep(k, x) PROVE q \in registry[Master]
    BY <1>2, <1>8 DEF ReadStep, RequestStep, Put
  <1>9. ASSUME NEW k, NEW y, DoneStep(k, y) PROVE q \in registry[Master]
    BY <1>2, <1>9 DEF DoneStep, RequestStep, Put
  <1> QED BY <1>1, <1>3, <1>4, <1>5, <1>6, <1>7, <1>8, <1>9 DEF MasterMove

\* Who is registered is told so in the public journal first.
LEMMA MetDue ==
  ASSUME TypeInv, NEW q \in Nodes, NEW m, MetStep(m), m.q = q
  PROVE  \E k \in Due(q)' : k = Now /\ log'[k].j = Pub /\ Names(k, q)' /\ \A i \in Added : k <= i
  <1>1. Idle(q)
    <2>1. MasterMove BY DEF MasterMove
    <2> QED BY <2>1, MasterIdle
  <1>2. /\ Now \in Added /\ log'[Now].j = Pub /\ log'[Now].type = "Register"
        /\ log'[Now].arg = [known |-> {m.q}, live |-> {m.q}] /\ LogKept
    BY DEF MetStep, Meets, Put
  <1>3. PICK k \in Added : k = Now BY <1>2
  <1>4. k \in Due(q)' BY <1>1, <1>2, <1>3, DueKept
  <1>5. Names(k, q)' BY <1>2, <1>3 DEF Names, Is
  <1>6. \A i \in Added : k <= i BY <1>2, <1>3 DEF LogKept, Now
  <1> QED BY <1>2, <1>3, <1>4, <1>5, <1>6

LEMMA JoinMaster ==
  ASSUME TypeInv, NEW q \in Nodes, MetInv(q), JoinInv(q), MasterMove
  PROVE  JoinInv(q)'
  <1>1. Idle(q) /\ app'[q] = app[q] /\ pos'[q] = pos[q] /\ LogKept BY MasterIdle DEF Idle
  <1>2. /\ \A j \in Journals : pos'[q][j] # NotJoined => j = Pub \/ j[2] = q
        /\ app'[q].up => pos'[q][Pub] # NotJoined
        /\ pos'[q][Cmd(q)] # NotJoined => app'[q].born <= pos'[q][Cmd(q)]
    BY <1>1 DEF JoinInv
  <1>3. ASSUME NEW k \in Due(q), log[k].j = Pub, Names(k, q)
        PROVE  /\ k \in Due(q)' /\ log'[k].j = Pub /\ Names(k, q)' /\ k \in Nat
               /\ \A i \in Added : k < i
    <2>1. k \in Due(q)' /\ k \in Frames /\ k \in Nat /\ k <= Len(log) BY <1>1, DueKept, DueOf
    <2>2. log'[k] = log[k] BY <1>1, <2>1 DEF LogKept
    <2>3. \A i \in Added : k < i BY <1>1, <2>1 DEF LogKept
    <2> QED BY <1>3, <2>1, <2>2, <2>3 DEF Names, Is
  <1>4. Settled(q)' /\ pos'[q][Cmd(q)] = NotJoined => \E k \in Due(q)' : log'[k].j = Pub /\ Names(k, q)'
    <2> SUFFICES ASSUME Settled(q)', pos'[q][Cmd(q)] = NotJoined
                 PROVE  \E k \in Due(q)' : log'[k].j = Pub /\ Names(k, q)'
      OBVIOUS
    <2>1. CASE Settled(q)
      <3>1. PICK k \in Due(q) : log[k].j = Pub /\ Names(k, q) BY <1>1, <2>1 DEF JoinInv
      <3> QED BY <1>3, <3>1
    <2>2. CASE \E m : MetStep(m) /\ m.q = q BY <2>2, MetDue
    <2> QED BY <2>1, <2>2, SettledMaster
  <1>5. Active(q)' /\ pos'[q][Cmd(q)] = NotJoined =>
          \A i \in Frames' : log'[i].j = Cmd(q) =>
            \E k \in Due(q)' : k < i /\ log'[k].j = Pub /\ Names(k, q)'
    <2> SUFFICES ASSUME Active(q)', pos'[q][Cmd(q)] = NotJoined, NEW i \in Frames', log'[i].j = Cmd(q)
                 PROVE  \E k \in Due(q)' : k < i /\ log'[k].j = Pub /\ Names(k, q)'
      OBVIOUS
    <2>1. Active(q) /\ pos[q][Cmd(q)] = NotJoined BY <1>1, ActiveMaster
    <2>2. CASE i \in Frames
      <3>1. log'[i] = log[i] BY <1>1, <2>2 DEF LogKept
      <3>2. PICK k \in Due(q) : k < i /\ log[k].j = Pub /\ Names(k, q) BY <2>1, <2>2, <3>1 DEF JoinInv
      <3> QED BY <1>3, <3>2
    <2>3. CASE i \notin Frames
      <3>1. i \in Added BY <2>3 DEF Added
      <3>2. CASE Settled(q)
        <4>1. PICK k \in Due(q) : log[k].j = Pub /\ Names(k, q) BY <2>1, <3>2 DEF JoinInv
        <4> QED BY <1>3, <3>1, <4>1
      <3>3. ASSUME NEW m, MetStep(m), m.q = q PROVE \E k \in Due(q)' : k < i /\ log'[k].j = Pub /\ Names(k, q)'
        <4>1. PICK k \in Due(q)' : k = Now /\ log'[k].j = Pub /\ Names(k, q)' /\ \A x \in Added : k <= x
          BY <3>3, MetDue
        <4>2. k <= i /\ i \in Nat /\ k \in Nat BY <1>1, <3>1, <4>1 DEF LogKept, Now
        <4>3. k # i BY <4>1, JournalOf
        <4> QED BY <4>1, <4>2, <4>3
      <3> QED BY <2>1, <3>1, <3>2, <3>3, Addressed
    <2> QED BY <2>2, <2>3
  <1> QED BY <1>2, <1>4, <1>5 DEF JoinInv

LEMMA JoinIdle ==
  ASSUME TypeInv, NEW q \in Nodes, JoinInv(q), Idle(q), MasterSame, NEW p \in Nodes, ProcMove(p)
  PROVE  JoinInv(q)'
  <1>1. app'[q] = app[q] /\ pos'[q] = pos[q] /\ LogKept BY DEF Idle
  <1>2. \A i \in Added : log'[i].j # Cmd(q)
    BY ReplyJournals DEF ProcMove, BootStep, CrashStep, Added, Frames
  <1>3. \A k \in Due(q) : k \in Due(q)' /\ log'[k] = log[k] BY DueKept, DueOf DEF Idle, LogKept
  <1>4. \A k \in Due(q) : Names(k, q) => Names(k, q)' BY <1>3 DEF Names, Is
  <1>5. Settled(q)' => Settled(q) BY <1>1 DEF Settled, MasterSame
  <1>6. Active(q)' => Active(q) BY <1>1 DEF Active
  <1>7. \A i \in Frames' : log'[i].j = Cmd(q) => i \in Frames /\ log'[i] = log[i]
    BY <1>1, <1>2 DEF LogKept, Added
  <1> QED BY <1>1, <1>3, <1>4, <1>5, <1>6, <1>7 DEF JoinInv


LEMMA JoinGood ==
  ASSUME TypeInv, NEW q \in Nodes, JoinInv(q), NEW i, GoodStep(q, i)
  PROVE  JoinInv(q)'
  <1>1. /\ Handles(q, i) /\ i \in Frames /\ LogKept /\ app'[q].up /\ app[q].up
        /\ app'[q].pid = app[q].pid /\ app'[q].born = app[q].born
        /\ registry'[Master] = registry[Master] /\ livepid' = livepid
        /\ \A j \in Journals : pos'[q][j] = Cursor(q, i, j)
        /\ log[i].j = Pub \/ log[i].j[2] = q
    BY NodeNames DEF GoodStep, HandleStep, Handles, OthersSame
  <1>2. i \in Nat /\ i > 0 /\ pos[q][log[i].j] < i /\ pos[q][log[i].j] # NotJoined /\ log[i].j \in Journals
    BY <1>1, FrameOf DEF Handles
  <1>3. Pub \in Journals /\ Cmd(q) \in Journals /\ Cmd(q)[2] = q BY JournalOf
  <1>4. /\ app[q].born \in Nat /\ pos[q][Pub] \in Int /\ pos[q][Cmd(q)] \in Int
    BY <1>3, RunOf
  <1>5. /\ pos'[q][Pub] = IF log[i].j = Pub THEN i ELSE pos[q][Pub]
        /\ pos'[q][Cmd(q)] = IF log[i].j = Cmd(q) THEN i
                                   ELSE IF Names(i, q) /\ pos[q][Cmd(q)] = NotJoined THEN app[q].born
                                   ELSE pos[q][Cmd(q)]
    BY <1>1, <1>3, MasterCursors
  <1>6. ASSUME NEW j \in Journals, pos'[q][j] # NotJoined PROVE j = Pub \/ j[2] = q
    <2>1. \/ j = log[i].j
          \/ j = Cmd(q)
          \/ Is(i, "RequestReadFrom") /\ j = <<log[i].arg, q>>
          \/ pos[q][j] # NotJoined
      BY <1>1, <1>6 DEF Cursor
    <2>2. CASE j = log[i].j BY <1>1, <2>2
    <2>3. CASE j = Cmd(q) BY <1>3, <2>3
    <2>4. CASE j = <<log[i].arg, q>>
      <3> DEFINE x == log[i].arg
      <3>1. j = <<x, q>> BY <2>4
      <3> HIDE DEF x
      <3>2. j[2] = q BY <3>1
      <3> QED BY <3>2
    <2>5. CASE pos[q][j] # NotJoined BY <2>5 DEF JoinInv
    <2> QED BY <2>1, <2>2, <2>3, <2>4, <2>5
  <1>7. pos'[q][Pub] # NotJoined BY <1>1, <1>2, <1>5 DEF JoinInv, NotJoined
  <1>8. pos'[q][Cmd(q)] # NotJoined => app'[q].born <= pos'[q][Cmd(q)]
    <2>1. CASE log[i].j = Cmd(q)
      <3>1. app[q].born <= pos[q][Cmd(q)] /\ pos[q][Cmd(q)] < i BY <1>2, <2>1 DEF JoinInv
      <3> QED BY <1>1, <1>2, <1>4, <1>5, <2>1, <3>1
    <2>2. CASE log[i].j # Cmd(q) BY <1>1, <1>4, <1>5, <2>2 DEF JoinInv
    <2> QED BY <2>1, <2>2
  <1>9. pos'[q][Cmd(q)] = NotJoined => pos[q][Cmd(q)] = NotJoined /\ ~Names(i, q)
    BY <1>2, <1>4, <1>5 DEF NotJoined
  <1>10. Due(q)' = Due(q) \ {i} /\ \A k \in Due(q)' : log'[k] = log[k] BY DueRead
  <1>11. ASSUME NEW k \in Due(q), log[k].j = Pub, Names(k, q), ~Names(i, q)
         PROVE  k \in Due(q)' /\ log'[k].j = Pub /\ Names(k, q)'
    <2>1. k # i BY <1>11
    <2>2. k \in Due(q)' /\ log'[k] = log[k] BY <1>10, <2>1
    <2> QED BY <1>11, <2>2 DEF Names, Is
  <1>12. Settled(q)' <=> Settled(q) BY <1>1 DEF Settled
  <1>13. Active(q)' <=> Active(q) BY <1>1 DEF Active
  <1>14. Settled(q)' /\ pos'[q][Cmd(q)] = NotJoined => \E k \in Due(q)' : log'[k].j = Pub /\ Names(k, q)'
    <2> SUFFICES ASSUME Settled(q)', pos'[q][Cmd(q)] = NotJoined
                 PROVE  \E k \in Due(q)' : log'[k].j = Pub /\ Names(k, q)'
      OBVIOUS
    <2>1. PICK k \in Due(q) : log[k].j = Pub /\ Names(k, q) BY <1>9, <1>12 DEF JoinInv
    <2> QED BY <1>9, <1>11, <2>1
  <1>15. Active(q)' /\ pos'[q][Cmd(q)] = NotJoined =>
          \A n \in Frames' : log'[n].j = Cmd(q) =>
            \E k \in Due(q)' : k < n /\ log'[k].j = Pub /\ Names(k, q)'
    <2> SUFFICES ASSUME Active(q)', pos'[q][Cmd(q)] = NotJoined, NEW n \in Frames', log'[n].j = Cmd(q)
                 PROVE  \E k \in Due(q)' : k < n /\ log'[k].j = Pub /\ Names(k, q)'
      OBVIOUS
    <2>1. n \in Frames BY ReplyJournals DEF Added
    <2>2. log'[n] = log[n] BY <1>1, <2>1 DEF LogKept
    <2>3. PICK k \in Due(q) : k < n /\ log[k].j = Pub /\ Names(k, q)
      BY <1>9, <1>13, <2>1, <2>2 DEF JoinInv
    <2> QED BY <1>9, <1>11, <2>3
  <1> QED BY <1>6, <1>7, <1>8, <1>14, <1>15 DEF JoinInv

LEMMA JoinProc ==
  ASSUME TypeInv, NEW q \in Nodes, MetInv(q), JoinInv(q), NEW p \in Nodes, ProcMove(p)
  PROVE  JoinInv(q)'
  <1>1. MasterSame BY ProcIdle
  <1>2. CASE p # q BY <1>1, <1>2, ProcIdle, JoinIdle
  <1>3. CASE \E i : GoodStep(q, i) BY <1>3, JoinGood
  <1>4. CASE CrashStep(q) \/ \E i : ThrowStep(q, i)
    <2>1. ~app'[q].up /\ app'[q].born = app[q].born /\ pos'[q] = pos[q]
      BY <1>4 DEF CrashStep, ThrowStep, HandleStep
    <2> QED BY <2>1 DEF JoinInv, Settled, Active
  <1>5. CASE BootStep(q)
    <2>1. /\ app'[q].pid = app[q].pid + 1 /\ log' = log /\ livepid' = livepid
          /\ \A j \in Journals : pos'[q][j] = IF j = Pub THEN Len(log) ELSE NotJoined
      BY <1>5 DEF BootStep
    <2>2. Pub \in Journals /\ Cmd(q) \in Journals /\ Pub # Cmd(q) BY JournalOf
    <2>3. Len(log) # NotJoined BY DEF TypeInv, NotJoined
    <2>4. ~Settled(q)'
      <3>1. livepid[q] <= app[q].pid /\ livepid[q] \in Nat /\ app[q].pid \in Nat BY RunOf DEF MetInv, TypeInv
      <3> QED BY <2>1, <3>1 DEF Settled
    <2>5. Active(q)' => \A i \in Frames' : log'[i].j # Cmd(q)
      <3>1. ~Active(q) BY <1>5 DEF BootStep, Active
      <3>2. Active(q)' => Fresh(q) BY <1>5, <3>1, ActiveProc DEF ProcMove
      <3> QED BY <2>1, <3>2 DEF Fresh, Foreign, Frames
    <2> QED BY <2>1, <2>2, <2>3, <2>4, <2>5 DEF JoinInv
  <1> QED BY <1>2, <1>3, <1>4, <1>5 DEF ProcMove


\* What the master writes.
LEMMA MasterKinds ==
  ASSUME TypeInv, MasterMove, NEW i \in Added
  PROVE  /\ log'[i].j = Pub \/ \E x \in Nodes : log'[i].j = Cmd(x)
         /\ log'[i].type \notin {"State", "RequestCached", "RequestCachedDone"}
  <1>1. Cached \in Nodes BY NodeNames
  <1>2. ASSUME NEW dead, HealthStep(dead) PROVE log'[i].j = Pub /\ log'[i].type = "Deregister"
    BY <1>2 DEF HealthStep, Put
  <1>3. ASSUME NEW m, Meets(m)
        PROVE  /\ m.q \in Nodes
               /\ log'[Now].j = Pub /\ log'[Now].type = "Register"
               /\ log'[Now + 1].j = Cmd(m.q) /\ log'[Now + 1].type = "RequestWriteTo"
               /\ log'[Now + 2].j = Cmd(m.q) /\ log'[Now + 2].type = "Register"
    BY <1>3 DEF Meets, Put
  <1>4. ASSUME NEW m, MetStep(m)
        PROVE  /\ log'[i].j = Pub \/ log'[i].j = Cmd(m.q)
               /\ log'[i].type \in {"Register", "RequestWriteTo"} /\ m.q \in Nodes
    BY <1>3, <1>4 DEF MetStep
  <1>5. ASSUME NEW m, LostStep(m)
        PROVE  /\ log'[i].j = Pub \/ log'[i].j = Cmd(m.q)
               /\ log'[i].type \in {"Register", "RequestWriteTo", "Deregister"} /\ m.q \in Nodes
    BY <1>3, <1>5 DEF LostStep, Put
  <1>6. ASSUME NEW m, RefusedStep(m) PROVE FALSE BY <1>6 DEF RefusedStep, Added, Frames
  <1>7. ASSUME NEW k, NEW x, WriteStep(k, x)
        PROVE  /\ log'[i].j = Cmd(x) \/ log'[i].j = Cmd(Cached)
               /\ log'[i].type \in {"RequestReadFrom", "RequestWriteTo"} /\ x \in Nodes
    BY <1>7 DEF WriteStep, RequestStep, Put
  <1>8. ASSUME NEW k, NEW x, ReadStep(k, x)
        PROVE  /\ log'[i].j = Cmd(x) \/ log'[i].j = Cmd(Cached)
               /\ log'[i].type \in {"RequestReadFrom", "RequestWriteTo", "CachedReadyToRead"} /\ x \in Nodes
    BY <1>8 DEF ReadStep, RequestStep, Put
  <1>9. ASSUME NEW k, NEW y, DoneStep(k, y)
        PROVE  /\ log'[i].j = Cmd(y) /\ y \in Nodes /\ log'[i].type \in {"RequestStart", "Register"}
    BY <1>9 DEF DoneStep, Put
  <1> QED BY <1>1, <1>2, <1>4, <1>5, <1>6, <1>7, <1>8, <1>9 DEF MasterMove

\* A frame the master adds for q is found by what comes later.
LEMMA PutFound ==
  ASSUME TypeInv, NEW q \in Nodes, Idle(q), NEW k \in Added, log'[k].j = Pub \/ log'[k].j = Cmd(q), NEW x
  PROVE  /\ log'[k].type = "Register" /\ x \in log'[k].arg.known => Knows(q, x, Now)'
         /\ log'[k].type = "RequestWriteTo" /\ log'[k].arg = x =>
              Writes(q, x, Now)' /\ \A i \in Added : k < i => Writes(q, x, i)'
         /\ k \in Due(q)' /\ k < Now'
  <1>1. k \in Due(q)' BY DueKept
  <1>2. k < Now' BY DEF Idle, LogKept, Now
  <1> QED BY <1>1, <1>2 DEF Knows, Writes, Is

\* A registered process can write to the master and knows, or will, what the master does.
LEMMA Learns ==
  ASSUME TypeInv, NEW q \in Nodes, MetInv(q), JoinInv(q), LookupInv(q), MasterMove, Active(q),
         q \in registry'[Master]
  PROVE  Writes(q, Master, Now)' /\ \A x \in locations'[Master] : Knows(q, x, Now)'
  <1>1. Idle(q) /\ Keeps(q) BY MasterIdle DEF Keeps
  <1>2. ASSUME q \in registry[Master]
        PROVE  Writes(q, Master, Now)' /\ \A x \in locations[Master] : Knows(q, x, Now)'
    BY <1>1, <1>2, FoundNow DEF LookupInv
  <1>3. ASSUME NEW m, Meets(m), q \in registry[Master]
        PROVE  Writes(q, Master, Now)' /\ \A x \in locations'[Master] : Knows(q, x, Now)'
    <2>1. /\ Now \in Added /\ log'[Now].j = Pub /\ log'[Now].type = "Register"
          /\ log'[Now].arg = [known |-> {m.q}, live |-> {m.q}]
          /\ locations'[Master] = locations[Master] \cup {m.q}
      BY <1>3 DEF Meets, Put
    <2>2. Knows(q, m.q, Now)' BY <1>1, <2>1, PutFound
    <2> QED BY <1>2, <1>3, <2>1, <2>2
  <1>4. ASSUME NEW m, MetStep(m)
        PROVE  Writes(q, Master, Now)' /\ \A x \in locations'[Master] : Knows(q, x, Now)'
    <2>1. CASE q \in registry[Master] BY <1>3, <1>4, <2>1 DEF MetStep
    <2>2. CASE q \notin registry[Master]
      <3>1. m.q = q BY <1>4, <2>2 DEF MetStep
      <3>2. /\ Now + 1 \in Added /\ log'[Now + 1].j = Cmd(q) /\ log'[Now + 1].type = "RequestWriteTo"
            /\ log'[Now + 1].arg = Master
            /\ Now + 2 \in Added /\ log'[Now + 2].j = Cmd(q) /\ log'[Now + 2].type = "Register"
            /\ log'[Now + 2].arg = [known |-> locations[Master] \cup {q}, live |-> registry[Master] \cup {q}]
            /\ locations'[Master] = locations[Master] \cup {q}
        BY <1>4, <3>1 DEF MetStep, Meets, Put
      <3>3. Writes(q, Master, Now)' BY <1>1, <3>2, PutFound
      <3>4. \A x \in locations'[Master] : Knows(q, x, Now)' BY <1>1, <3>2, PutFound
      <3> QED BY <3>3, <3>4
    <2> QED BY <2>1, <2>2
  <1>5. ASSUME NEW m, LostStep(m)
        PROVE  Writes(q, Master, Now)' /\ \A x \in locations'[Master] : Knows(q, x, Now)'
    BY <1>3, <1>5 DEF LostStep
  <1>6. ASSUME locations'[Master] = locations[Master], registry'[Master] \subseteq registry[Master]
        PROVE  Writes(q, Master, Now)' /\ \A x \in locations'[Master] : Knows(q, x, Now)'
    BY <1>2, <1>6
  <1>7. ASSUME NEW dead, HealthStep(dead)
        PROVE  locations'[Master] = locations[Master] /\ registry'[Master] \subseteq registry[Master]
    BY <1>7 DEF HealthStep
  <1>8. ASSUME NEW m, RefusedStep(m)
        PROVE  locations'[Master] = locations[Master] /\ registry'[Master] \subseteq registry[Master]
    BY <1>8 DEF RefusedStep
  <1>9. ASSUME NEW i, NEW x, RequestStep(i, x)
        PROVE  locations'[Master] = locations[Master] /\ registry'[Master] \subseteq registry[Master]
    BY <1>9 DEF RequestStep
  <1> QED BY <1>4, <1>5, <1>6, <1>7, <1>8, <1>9 DEF MasterMove, WriteStep, ReadStep, DoneStep

\* The next request the master handles of process x.
LEMMA NextRequest ==
  ASSUME TypeInv, MasterInv, NEW i, NEW x, RequestStep(i, x), NEW k \in Frames, log[k].j = Req(x),
         pos[Master][Req(x)] < k
  PROVE  i <= k /\ i \in Nat /\ k \in Nat
  <1>1. x \in registry[Master] /\ x \in Nodes /\ IsNext(Master, i) /\ i \in Frames BY DEF RequestStep
  <1>2. pos[Master][Req(x)] # NotJoined BY <1>1, JournalOf DEF MasterInv
  <1>3. k \in Unread(Master) BY <1>2 DEF Unread, Frames
  <1> QED BY <1>1, <1>3, FrameOf DEF IsNext

\* The writer to cached of a process that asks to read cached.
LEMMA WriterAsked ==
  ASSUME TypeInv, MasterInv, NEW q \in Nodes, MetInv(q), LookupInv(q), Active(q), NEW i, ReadStep(i, q)
  PROVE  Writes(q, Cached, Now)
  <1>1. i \in Frames /\ Is(i, "RequestReadFrom") /\ log[i].j = Req(q) /\ RequestStep(i, q)
    BY DEF ReadStep, RequestStep
  <1>2. ASSUME NEW k \in Frames, k < i, pos[Master][Req(q)] < k, log[k].j = Req(q) PROVE FALSE
    BY <1>1, <1>2, NextRequest
  <1> QED BY <1>1, <1>2 DEF LookupInv


Served(q, i) ==
  /\ Is(i, "RequestReadFrom") => Knows(q, log[i].arg, i)
  /\ Is(i, "CachedReadyToRead") => Writes(q, Cached, i)

LEMMA ServedMaster ==
  ASSUME TypeInv, MasterInv, NEW q \in Nodes, MetInv(q), JoinInv(q), LookupInv(q), MasterMove, Active(q),
         NEW i \in Due(q)', i \notin Due(q)
  PROVE  Served(q, i)'
  <1>1. Idle(q) /\ Keeps(q) /\ LogKept BY MasterIdle DEF Keeps, Idle
  <1>2. /\ Cached \in Nodes /\ Cmd(q) # Pub
        /\ \A x \in Nodes : Cmd(x) # Pub /\ (Cmd(x) = Cmd(q) => x = q)
    BY NodeNames, JournalOf, JournalsDiffer
  <1>3. registry[Master] \subseteq locations[Master] BY DEF MasterInv
  <1>4. i \in Added /\ (log'[i].j = Pub \/ log'[i].j = Cmd(q)) BY <1>1, DueKept
  <1>5. ASSUME log'[i].type \notin {"RequestReadFrom", "CachedReadyToRead"} PROVE Served(q, i)'
    BY <1>5 DEF Served, Is
  <1>6. ASSUME NEW x \in registry[Master], q \in registry[Master], log'[i].type = "RequestReadFrom", log'[i].arg = x
        PROVE  Served(q, i)'
    <2>1. Knows(q, x, Now) BY <1>3, <1>6 DEF LookupInv
    <2>2. Knows(q, x, i)' BY <1>1, <1>4, <2>1, FoundNow
    <2> QED BY <1>6, <2>2 DEF Served, Is
  <1>7. ASSUME NEW k, NEW x, WriteStep(k, x) PROVE Served(q, i)'
    <2>1. CASE i = Now
      <3>1. log'[i].type = "RequestWriteTo" BY <1>7, <2>1 DEF WriteStep, Put
      <3> QED BY <1>5, <3>1
    <2>2. CASE i # Now
      <3>1. /\ Cached \in registry[Master] /\ x \in registry[Master]
            /\ log'[i].j = Cmd(Cached) /\ log'[i].type = "RequestReadFrom" /\ log'[i].arg = x
        BY <1>4, <1>7, <2>2 DEF WriteStep, RequestStep, Put
      <3>2. q = Cached BY <1>2, <1>4, <3>1
      <3> QED BY <1>6, <3>1, <3>2
    <2> QED BY <2>1, <2>2
  <1>8. ASSUME NEW k, NEW x, ReadStep(k, x) PROVE Served(q, i)'
    <2>1. /\ x \in registry[Master] /\ x \in Nodes
          /\ \/ Cached \notin registry[Master] /\ Added = {Now} /\ Put(Now, Cmd(x), "CachedReadyToRead", x)
             \/ /\ Cached \in registry[Master] /\ Added = {Now, Now + 1, Now + 2}
                /\ Put(Now, Cmd(Cached), "RequestWriteTo", x) /\ Put(Now + 1, Cmd(x), "RequestReadFrom", Cached)
                /\ Put(Now + 2, Cmd(x), "CachedReadyToRead", x)
      BY <1>8 DEF ReadStep, RequestStep
    <2>2. \/ log'[i].type = "RequestWriteTo"
          \/ /\ Cached \in registry[Master] /\ log'[i].j = Cmd(x)
             /\ log'[i].type = "RequestReadFrom" /\ log'[i].arg = Cached
          \/ log'[i].j = Cmd(x) /\ log'[i].type = "CachedReadyToRead"
      BY <1>4, <2>1 DEF Put
    <2>3. CASE log'[i].type = "RequestWriteTo" BY <1>5, <2>3
    <2>4. CASE /\ Cached \in registry[Master] /\ log'[i].j = Cmd(x)
               /\ log'[i].type = "RequestReadFrom" /\ log'[i].arg = Cached
      <3>1. x = q BY <1>2, <1>4, <2>1, <2>4
      <3> QED BY <1>6, <2>1, <2>4, <3>1
    <2>5. CASE log'[i].j = Cmd(x) /\ log'[i].type = "CachedReadyToRead"
      <3>1. x = q BY <1>2, <1>4, <2>1, <2>5
      <3>2. Writes(q, Cached, Now) BY <1>8, <3>1, WriterAsked
      <3>3. Writes(q, Cached, i)' BY <1>1, <1>4, <3>2, FoundNow
      <3> QED BY <2>5, <3>3 DEF Served, Is
    <2> QED BY <2>2, <2>3, <2>4, <2>5
  <1>9. ASSUME NEW k, NEW y, DoneStep(k, y) PROVE Served(q, i)'
    <2>1. log'[i].type \in {"RequestStart", "Register"} BY <1>4, <1>9 DEF DoneStep, Put
    <2> QED BY <1>5, <2>1
  <1>10. ASSUME NEW dead, HealthStep(dead) PROVE Served(q, i)'
    <2>1. log'[i].type = "Deregister" BY <1>4, <1>10 DEF HealthStep, Put
    <2> QED BY <1>5, <2>1
  <1>11. ASSUME NEW m, MetStep(m) \/ LostStep(m) PROVE Served(q, i)'
    <2>1. log'[i].type \in {"Register", "RequestWriteTo", "Deregister"}
      BY <1>4, <1>11 DEF MetStep, LostStep, Meets, Put
    <2> QED BY <1>5, <2>1
  <1>12. ASSUME NEW m, RefusedStep(m) PROVE Served(q, i)' BY <1>4, <1>12 DEF RefusedStep, Added, Frames
  <1> QED BY <1>7, <1>8, <1>9, <1>10, <1>11, <1>12 DEF MasterMove

\* The master is asked for a writer before it is asked to let read.
Asked(q, i) ==
  \/ Writes(q, Cached, Now)
  \/ \E k \in Frames : k < i /\ pos[Master][Req(q)] < k /\ log[k].j = Req(q) /\ Is(k, "RequestWriteTo")

LEMMA AskedMaster ==
  ASSUME TypeInv, MasterInv, NEW q \in Nodes, MetInv(q), JoinInv(q), MasterMove, Active(q),
         NEW i \in Frames, log[i].j = Req(q), Asked(q, i)
  PROVE  Asked(q, i)'
  <1>1. Idle(q) /\ Keeps(q) /\ LogKept BY MasterIdle DEF Keeps, Idle
  <1>2. Req(q) \in Journals /\ Req(q)[1] = q BY JournalOf
  <1>3. CASE Writes(q, Cached, Now) BY <1>1, <1>3, FoundNow DEF Asked
  <1>4. ASSUME NEW k \in Frames, k < i, pos[Master][Req(q)] < k, log[k].j = Req(q), Is(k, "RequestWriteTo")
        PROVE  Asked(q, i)'
    <2>1. k \in Frames' /\ log'[k] = log[k] BY <1>1 DEF LogKept
    <2>2. ASSUME pos'[Master][Req(q)] < k PROVE Asked(q, i)' BY <1>4, <2>1, <2>2 DEF Asked, Is
    <2>3. ASSUME NEW dead, HealthStep(dead) PROVE Asked(q, i)'
      <3>1. q \notin dead BY <2>3, ActiveStays
      <3>2. pos'[Master][Req(q)] = pos[Master][Req(q)] BY <1>2, <2>3, <3>1 DEF HealthStep
      <3> QED BY <1>4, <2>2, <3>2
    <2>4. ASSUME NEW m, MetStep(m) PROVE Asked(q, i)'
      <3>1. m.q # q
        <4>1. ~Fresh(q) BY <1>4 DEF Fresh, Foreign
        <4> QED BY <2>4, <4>1, ActiveStays
      <3>2. m.q \in Nodes BY <2>4 DEF MetStep, Meets
      <3>3. Req(m.q) # Req(q) BY <3>1, <3>2, JournalsDiffer
      <3>4. pos'[Master][Req(q)] = pos[Master][Req(q)] BY <1>2, <2>4, <3>3 DEF MetStep
      <3> QED BY <1>4, <2>2, <3>4
    <2>5. ASSUME NEW m, LostStep(m) \/ RefusedStep(m) PROVE Asked(q, i)'
      BY <1>4, <2>2, <2>5 DEF LostStep, RefusedStep
    <2>6. ASSUME NEW n, NEW x, RequestStep(n, x), x # q PROVE Asked(q, i)'
      <3>1. Req(x) # Req(q) BY <2>6, JournalsDiffer DEF RequestStep
      <3>2. pos'[Master][Req(q)] = pos[Master][Req(q)] BY <1>2, <2>6, <3>1 DEF RequestStep
      <3> QED BY <1>4, <2>2, <3>2
    <2>7. ASSUME NEW n, RequestStep(n, q), n # k PROVE Asked(q, i)'
      <3>1. n <= k /\ n \in Nat /\ k \in Nat BY <1>4, <2>7, NextRequest
      <3>2. pos'[Master][Req(q)] = n BY <1>2, <2>7 DEF RequestStep
      <3> QED BY <2>2, <2>7, <3>1, <3>2
    <2>8. ASSUME NEW n, WriteStep(n, q) PROVE Asked(q, i)'
      <3>1. /\ Now \in Added /\ log'[Now].j = Cmd(q) /\ log'[Now].type = "RequestWriteTo"
            /\ log'[Now].arg = Cached
        BY <2>8 DEF WriteStep, Put
      <3>2. Writes(q, Cached, Now)' BY <1>1, <3>1, PutFound
      <3> QED BY <3>2 DEF Asked
    <2>9. ASSUME NEW n, ReadStep(n, q) \/ DoneStep(n, q) PROVE n # k
      BY <1>4, <2>9 DEF ReadStep, DoneStep, Is
    <2>10. ASSUME NEW n, NEW x, WriteStep(n, x) PROVE Asked(q, i)' BY <2>6, <2>8, <2>10 DEF WriteStep
    <2>11. ASSUME NEW n, NEW x, ReadStep(n, x) PROVE Asked(q, i)' BY <2>6, <2>7, <2>9, <2>11 DEF ReadStep
    <2>12. ASSUME NEW n, NEW y, DoneStep(n, y) PROVE Asked(q, i)'
      <3>1. RequestStep(n, Cached) /\ Is(n, "RequestCachedDone") BY <2>12 DEF DoneStep
      <3>2. n # k BY <1>4, <3>1 DEF Is
      <3> QED BY <2>6, <2>7, <3>1, <3>2
    <2> QED BY <2>3, <2>4, <2>5, <2>10, <2>11, <2>12 DEF MasterMove
  <1> QED BY <1>3, <1>4 DEF Asked

LEMMA LookupMaster ==
  ASSUME TypeInv, MasterInv, NEW q \in Nodes, MetInv(q), JoinInv(q), LookupInv(q), MasterMove
  PROVE  LookupInv(q)'
  <1>1. Idle(q) /\ Keeps(q) /\ LogKept /\ (Active(q)' <=> Active(q)) BY MasterIdle, ActiveMaster DEF Keeps, Idle
  <1> SUFFICES ASSUME Active(q) PROVE LookupInv(q)' BY <1>1 DEF LookupInv
  <1>2. q \in registry'[Master] => Writes(q, Master, Now)' /\ \A x \in locations'[Master] : Knows(q, x, Now)'
    BY Learns
  <1>3. ASSUME NEW i \in Due(q)' PROVE Served(q, i)'
    <2>1. CASE i \in Due(q)
      <3>1. i \in Nat /\ log'[i] = log[i] BY <1>1, <2>1, DueOf DEF LogKept
      <3>2. Served(q, i) BY <2>1 DEF LookupInv, Served
      <3>3. Knows(q, log[i].arg, i) => Knows(q, log[i].arg, i)' BY <1>1, <3>1, FoundKept
      <3>4. Writes(q, Cached, i) => Writes(q, Cached, i)' BY <1>1, <3>1, FoundKept
      <3> QED BY <3>1, <3>2, <3>3, <3>4 DEF Served, Is
    <2>2. CASE i \notin Due(q) BY <2>2, ServedMaster
    <2> QED BY <2>1, <2>2
  <1>4. ASSUME NEW i \in Frames', log'[i].type = "RequestReadFrom", log'[i].j = Req(q) PROVE Asked(q, i)'
    <2>1. i \in Frames
      <3>1. \A x \in Nodes : Cmd(x) # Req(q) BY JournalsDiffer
      <3>2. Pub # Req(q) BY JournalOf
      <3> QED BY <1>4, <3>1, <3>2, MasterKinds DEF Added
    <2>2. log'[i] = log[i] BY <1>1, <2>1 DEF LogKept
    <2>3. Asked(q, i) BY <1>4, <2>1, <2>2 DEF LookupInv, Asked, Is
    <2> QED BY <1>4, <2>1, <2>2, <2>3, AskedMaster
  <1> QED BY <1>2, <1>3, <1>4 DEF LookupInv, Served, Asked, Is

\* A frame f that p writes in the handler of frame n.
Written(p, n, f) ==
  \/ /\ f.type = "RequestCachedDone" /\ p = Cached /\ f.j = Req(p)
     /\ \/ f.arg = Cached /\ Is(n, "Register")
        \/ f.arg \in Apps /\ f.arg = log[n].arg /\ Is(n, "RequestCached")
  \/ f.type \in {"RequestWriteTo", "RequestReadFrom"} /\ p \in Apps /\ f.j = Req(p) /\ f.arg = Cached
  \/ f.type = "RequestCached" /\ p \in Apps /\ f.j = <<p, Cached>> /\ f.arg = p /\ Is(n, "CachedReadyToRead")
  \/ /\ f.type = "State" /\ p = Cached /\ f.arg \in Apps /\ f.arg = log[n].arg /\ f.j = <<Cached, f.arg>>
     /\ Is(n, "RequestCached")

LEMMA WrittenBy ==
  ASSUME TypeInv, NEW p, NEW n, GoodStep(p, n) \/ ThrowStep(p, n), NEW k \in Added
  PROVE  Written(p, n, log'[k])
  <1>1. CASE Added = {} BY <1>1
  <1>2. CASE Is(n, "Register") /\ p = Cached /\ Added = {Now} /\ Put(Now, Req(p), "RequestCachedDone", p)
    BY <1>2 DEF Put, Written
  <1>3. CASE /\ p \in Apps /\ Added = {Now, Now + 1}
             /\ Put(Now, Req(p), "RequestWriteTo", Cached) /\ Put(Now + 1, Req(p), "RequestReadFrom", Cached)
    BY <1>3 DEF Put, Written
  <1>4. CASE Is(n, "CachedReadyToRead") /\ p \in Apps /\ Added = {Now} /\ Put(Now, <<p, Cached>>, "RequestCached", p)
    BY <1>4 DEF Put, Written
  <1>5. CASE /\ Is(n, "RequestCached") /\ p = Cached /\ log[n].arg \in Apps /\ Added = {Now, Now + 1}
             /\ Put(Now, <<Cached, log[n].arg>>, "State", log[n].arg)
             /\ Put(Now + 1, Req(Cached), "RequestCachedDone", log[n].arg)
    <2>1. k = Now \/ k = Now + 1 BY <1>5
    <2>2. CASE k = Now
      <3>1. log'[k].j = <<Cached, log[n].arg>> /\ log'[k].type = "State" /\ log'[k].arg = log[n].arg
        BY <1>5, <2>2 DEF Put
      <3> QED BY <1>5, <3>1 DEF Written
    <2>3. CASE k = Now + 1
      <3>1. log'[k].j = Req(Cached) /\ log'[k].type = "RequestCachedDone" /\ log'[k].arg = log[n].arg
        BY <1>5, <2>3 DEF Put
      <3> QED BY <1>5, <3>1 DEF Written
    <2> QED BY <2>1, <2>2, <2>3
  <1>6. CASE /\ Is(n, "RequestCached") /\ p = Cached /\ log[n].arg \in Apps /\ Added = {Now}
             /\ Put(Now, <<Cached, log[n].arg>>, "State", log[n].arg)
    <2>1. log'[k].j = <<Cached, log[n].arg>> /\ log'[k].type = "State" /\ log'[k].arg = log[n].arg
      BY <1>6 DEF Put
    <2> QED BY <1>6, <2>1 DEF Written
  <1>7. CASE GoodStep(p, n)
    <2>1. Reply(p, n) BY <1>7 DEF GoodStep
    <2> QED BY <1>1, <1>2, <1>3, <1>4, <1>5, <2>1 DEF Reply
  <1>8. CASE ThrowStep(p, n) BY <1>1, <1>6, <1>8 DEF ThrowStep
  <1> QED BY <1>7, <1>8

\* The steps of a process keep what the others find.
LEMMA LookupIdle ==
  ASSUME TypeInv, NEW q \in Nodes, JoinInv(q), LookupInv(q), Idle(q), MasterSame,
         NEW p \in Nodes \ {q}, ProcMove(p)
  PROVE  LookupInv(q)'
  <1>1. Keeps(q) /\ LogKept /\ (Active(q)' <=> Active(q)) BY DEF Keeps, Idle, Active
  <1> SUFFICES ASSUME Active(q) PROVE LookupInv(q)' BY <1>1 DEF LookupInv
  <1>2. \A i \in Added : log'[i].j # Pub /\ log'[i].j # Cmd(q) /\ log'[i].j # Req(q)
    <2>1. ASSUME NEW i \in Added PROVE log'[i].j # Req(q)
      <3>1. PICK n : GoodStep(p, n) \/ ThrowStep(p, n)
        <4>1. CASE BootStep(p) \/ CrashStep(p) BY <2>1, <4>1 DEF BootStep, CrashStep, Added, Frames
        <4> QED BY <4>1 DEF ProcMove
      <3>2. Written(p, n, log'[i]) BY <2>1, <3>1, WrittenBy
      <3>3. \A x \in Nodes : <<x, Cached>> # Req(q) /\ <<Cached, x>> # Req(q)
        BY NodeNames, JournalsDiffer
      <3>4. Req(p) # Req(q) BY JournalsDiffer
      <3> QED BY <3>2, <3>3, <3>4, NodeNames DEF Written
    <2>2. \A i \in Added : log'[i].j # Pub /\ log'[i].j # Cmd(q)
      BY ReplyJournals DEF ProcMove, BootStep, CrashStep, Added, Frames
    <2> QED BY <2>1, <2>2
  <1>3. q \in registry'[Master] => Writes(q, Master, Now)' /\ \A x \in locations'[Master] : Knows(q, x, Now)'
    BY <1>1, FoundNow DEF LookupInv, MasterSame
  <1>4. ASSUME NEW i \in Due(q)' PROVE Served(q, i)'
    <2>1. i \in Due(q) BY <1>2, DueKept
    <2>2. i \in Nat /\ log'[i] = log[i] BY <1>1, <2>1, DueOf DEF LogKept
    <2>3. Served(q, i) BY <2>1 DEF LookupInv, Served
    <2>4. Knows(q, log[i].arg, i) => Knows(q, log[i].arg, i)' BY <1>1, <2>2, FoundKept
    <2>5. Writes(q, Cached, i) => Writes(q, Cached, i)' BY <1>1, <2>2, FoundKept
    <2> QED BY <2>2, <2>3, <2>4, <2>5 DEF Served, Is
  <1>5. ASSUME NEW i \in Frames', log'[i].type = "RequestReadFrom", log'[i].j = Req(q) PROVE Asked(q, i)'
    <2>1. i \in Frames /\ log'[i] = log[i] BY <1>1, <1>2, <1>5 DEF Added, LogKept
    <2>2. Asked(q, i) BY <1>5, <2>1 DEF LookupInv, Asked, Is
    <2>3. Writes(q, Cached, Now) => Writes(q, Cached, Now)' BY <1>1, FoundNow
    <2>4. \A k \in Frames : k \in Frames' /\ log'[k] = log[k] BY <1>1 DEF LogKept
    <2> QED BY <2>2, <2>3, <2>4 DEF Asked, MasterSame, Is
  <1> QED BY <1>3, <1>4, <1>5 DEF LookupInv, Served, Asked, Is

LEMMA LookupGood ==
  ASSUME TypeInv, NEW q \in Nodes, JoinInv(q), LookupInv(q), NEW n, GoodStep(q, n)
  PROVE  LookupInv(q)'
  <1>1. Keeps(q) /\ LogKept /\ MasterSame /\ (Active(q)' <=> Active(q))
    <2>1. ProcMove(q) BY DEF ProcMove
    <2>2. app[q].up /\ app'[q].up /\ app'[q].pid = app[q].pid BY DEF GoodStep, HandleStep, Handles
    <2> QED BY <2>1, <2>2, ProcIdle DEF Keeps, Active
  <1> SUFFICES ASSUME Active(q) PROVE LookupInv(q)' BY <1>1 DEF LookupInv
  <1>2. q \in registry'[Master] => Writes(q, Master, Now)' /\ \A x \in locations'[Master] : Knows(q, x, Now)'
    BY <1>1, FoundNow DEF LookupInv, MasterSame
  <1>3. ASSUME NEW i \in Due(q)' PROVE Served(q, i)'
    <2>1. i \in Due(q) /\ log'[i] = log[i] BY DueRead
    <2>2. i \in Nat BY <2>1, DueOf
    <2>3. Served(q, i) BY <2>1 DEF LookupInv, Served
    <2>4. Knows(q, log[i].arg, i) => Knows(q, log[i].arg, i)' BY <1>1, <2>1, <2>2, FoundKept
    <2>5. Writes(q, Cached, i) => Writes(q, Cached, i)' BY <1>1, <2>2, FoundKept
    <2> QED BY <2>1, <2>3, <2>4, <2>5 DEF Served, Is
  <1>4. ASSUME NEW i \in Frames', log'[i].type = "RequestReadFrom", log'[i].j = Req(q) PROVE Asked(q, i)'
    <2>1. CASE i \in Frames
      <3>1. log'[i] = log[i] BY <1>1, <2>1 DEF LogKept
      <3>2. Asked(q, i) BY <1>4, <2>1, <3>1 DEF LookupInv, Asked, Is
      <3>3. Writes(q, Cached, Now) => Writes(q, Cached, Now)' BY <1>1, FoundNow
      <3>4. \A k \in Frames : k \in Frames' /\ log'[k] = log[k] BY <1>1 DEF LogKept
      <3> QED BY <1>1, <3>2, <3>3, <3>4 DEF Asked, MasterSame, Is
    <2>2. CASE i \notin Frames
      <3>1. i \in Added BY <2>2 DEF Added
      <3>2. Reply(q, n) BY DEF GoodStep
      <3>3. /\ Added = {Now, Now + 1} /\ log'[Now].j = Req(q) /\ log'[Now].type = "RequestWriteTo"
            /\ i = Now + 1
        BY <1>4, <3>1, <3>2 DEF Reply, Put
      <3>4. pos[Master][Req(q)] <= Len(log) /\ pos[Master][Req(q)] \in Int /\ Len(log) \in Nat
        BY JournalOf, NodeNames, PosType
      <3>5. PICK k \in Added : k = Now BY <3>3
      <3>6. k \in Frames' /\ k < i /\ pos[Master][Req(q)] < k BY <3>3, <3>4, <3>5 DEF Added, Now
      <3>7. log'[k].j = Req(q) /\ log'[k].type = "RequestWriteTo" BY <3>3, <3>5
      <3> QED BY <1>1, <3>6, <3>7 DEF Asked, MasterSame, Is
    <2> QED BY <2>1, <2>2
  <1> QED BY <1>2, <1>3, <1>4 DEF LookupInv, Served, Asked, Is

LEMMA BootFresh ==
  ASSUME TypeInv, NEW q \in Nodes, MetInv(q), BootStep(q)
  PROVE  /\ Due(q)' = {} /\ (Active(q)' => NotMet(q) /\ Fresh(q) /\ app[q].pid = 0) /\ ~Settled(q)'
         /\ log' = log /\ Frames' = Frames /\ MasterSame
  <1>1. ProcMove(q) BY DEF ProcMove
  <1>2. ~Active(q) BY DEF BootStep, Active
  <1>3. Active(q)' => NotMet(q) /\ Fresh(q) BY <1>1, <1>2, ActiveProc
  <1>4. /\ app'[q].pid = app[q].pid + 1 /\ log' = log /\ app'[q].born = Len(log) /\ livepid' = livepid
        /\ \A j \in Journals : pos'[q][j] = IF j = Pub THEN Len(log) ELSE NotJoined
    BY DEF BootStep
  <1>5. app[q].pid \in Nat /\ livepid[q] <= app[q].pid /\ livepid[q] \in Nat BY RunOf DEF MetInv, TypeInv
  <1>6. Active(q)' => app[q].pid = 0 BY <1>4, <1>5 DEF Active
  <1>7. ~Settled(q)' BY <1>4, <1>5 DEF Settled
  <1>8. Due(q)' = {}
    <2> SUFFICES ASSUME NEW k \in Due(q)' PROVE FALSE OBVIOUS
    <2>1. k \in Frames BY <1>4 DEF Due, Frames
    <2>2. k \in Nat /\ k <= Len(log) /\ Len(log) \in Nat BY <2>1, FrameOf, RunOf
    <2>3. pos'[q][Pub] = Len(log) BY <1>4, JournalOf
    <2>4. Len(log) < k BY <1>4, <2>3 DEF Due
    <2> QED BY <2>2, <2>4
  <1> QED BY <1>1, <1>3, <1>4, <1>6, <1>7, <1>8, ProcIdle DEF Frames

LEMMA LookupProc ==
  ASSUME TypeInv, NEW q \in Nodes, MetInv(q), JoinInv(q), LookupInv(q), NEW p \in Nodes, ProcMove(p)
  PROVE  LookupInv(q)'
  <1>1. CASE p # q BY <1>1, ProcIdle, LookupIdle
  <1>2. CASE \E i : GoodStep(q, i) BY <1>2, LookupGood
  <1>3. CASE CrashStep(q) \/ \E i : ThrowStep(q, i)
    <2>1. ~app'[q].up BY <1>3 DEF CrashStep, ThrowStep
    <2> QED BY <2>1 DEF LookupInv, Active
  <1>4. CASE BootStep(q)
    <2>1. Due(q)' = {} /\ (Active(q)' => Fresh(q)) /\ log' = log /\ Frames' = Frames /\ MasterSame
      BY <1>4, BootFresh
    <2>2. Active(q)' => q \notin registry'[Master] BY <2>1 DEF Fresh, MasterSame
    <2>3. Active(q)' => \A i \in Frames' : log'[i].j # Req(q) BY <2>1 DEF Fresh, Foreign
    <2> QED BY <2>1, <2>2, <2>3 DEF LookupInv
  <1> QED BY <1>1, <1>2, <1>3, <1>4 DEF ProcMove


-----------------------------------------------------------------------------
(* what cached is asked for, it can answer *)

Answered(i) == Writes(Cached, Master, i) /\ Writes(Cached, log[i].arg, i)

\* The frames after which cached is, or will be, asked.
Asking(i) == log[i].type \in {"CachedReadyToRead", "RequestCached"}

LEMMA AnsweredKept ==
  ASSUME TypeInv, JoinInv(Cached), Keeps(Cached), LogKept, NEW i \in Frames, Answered(i)
  PROVE  Answered(i)'
  <1>1. i \in Nat /\ log'[i] = log[i] BY FrameOf DEF LogKept
  <1>2. Cached \in Nodes BY NodeNames
  <1>3. Writes(Cached, Master, i)' /\ Writes(Cached, log[i].arg, i)' BY <1>1, <1>2, FoundKept DEF Answered
  <1> QED BY <1>1, <1>3 DEF Answered

LEMMA AnswerMaster ==
  ASSUME TypeInv, MasterInv, MetInv(Cached), JoinInv(Cached), LookupInv(Cached), AnswerInv, MasterMove
  PROVE  AnswerInv'
  <1>1. /\ Cached \in Nodes /\ Idle(Cached) /\ Keeps(Cached) /\ LogKept /\ (Active(Cached)' <=> Active(Cached))
    BY NodeNames, MasterIdle, ActiveMaster DEF Keeps, Idle
  <1> SUFFICES ASSUME Active(Cached), NEW i \in Frames', Asking(i)' PROVE Answered(i)'
    BY <1>1 DEF AnswerInv, Asking, Answered
  <1>2. CASE i \in Frames
    <2>1. log'[i] = log[i] BY <1>1, <1>2 DEF LogKept
    <2>2. Answered(i) BY <1>2, <2>1 DEF AnswerInv, Answered, Asking
    <2> QED BY <1>1, <1>2, <2>2, AnsweredKept
  <1>3. ASSUME i \in Added, NEW k, NEW x, ReadStep(k, x) PROVE Answered(i)'
    <2>1. RequestStep(k, x) /\ Is(k, "RequestReadFrom") /\ k \in Frames BY <1>3 DEF ReadStep, RequestStep
    <2>2. Cached \in registry[Master] BY <1>1, <2>1, ActiveMet DEF Fresh, Foreign, Is
    <2>3. /\ Added = {Now, Now + 1, Now + 2}
          /\ Put(Now, Cmd(Cached), "RequestWriteTo", x) /\ Put(Now + 1, Cmd(x), "RequestReadFrom", Cached)
          /\ Put(Now + 2, Cmd(x), "CachedReadyToRead", x)
      BY <1>3, <2>2 DEF ReadStep
    <2>4. i = Now + 2 /\ log'[i].arg = x /\ Now \in Nat
      <3>1. Now \in Nat BY RunOf, <1>1 DEF Now
      <3> QED BY <1>3, <2>3, <3>1 DEF Asking, Put
    <2>5. Writes(Cached, Master, i)' BY <1>1, <1>3, <2>2, FoundNow DEF LookupInv
    <2>6. PICK n \in Added : n = Now BY <2>3
    <2>7. n < i /\ log'[n].j = Cmd(Cached) /\ log'[n].type = "RequestWriteTo" /\ log'[n].arg = x
      BY <2>3, <2>4, <2>6 DEF Put
    <2>8. Writes(Cached, x, i)' BY <1>1, <1>3, <2>7, PutFound
    <2> QED BY <2>4, <2>5, <2>8 DEF Answered
  <1>4. ASSUME i \in Added, NEW m, MetStep(m) \/ LostStep(m) \/ RefusedStep(m) PROVE FALSE
    <2>1. log'[i].type \in {"Register", "RequestWriteTo", "Deregister"}
      BY <1>4 DEF MetStep, LostStep, RefusedStep, Meets, Put, Added, Frames
    <2> QED BY <2>1 DEF Asking
  <1>5. ASSUME i \in Added, NEW dead, HealthStep(dead) PROVE FALSE BY <1>5 DEF HealthStep, Put, Asking
  <1>6. ASSUME i \in Added, NEW k, NEW x, WriteStep(k, x) \/ DoneStep(k, x) PROVE FALSE
    <2>1. log'[i].type \in {"RequestWriteTo", "RequestReadFrom", "RequestStart", "Register"}
      BY <1>6 DEF WriteStep, DoneStep, Put
    <2> QED BY <2>1 DEF Asking
  <1>7. i \in Frames \/ i \in Added BY DEF Added
  <1> QED BY <1>2, <1>3, <1>4, <1>5, <1>6, <1>7 DEF MasterMove

LEMMA AnswerProc ==
  ASSUME TypeInv, MetInv(Cached), JoinInv(Cached), AnswerInv, NEW p \in Nodes, ProcMove(p)
  PROVE  AnswerInv'
  <1>1. Cached \in Nodes BY NodeNames
  <1>2. CASE p = Cached /\ BootStep(p)
    <2>1. (Active(Cached)' => Fresh(Cached)) /\ log' = log /\ Frames' = Frames BY <1>1, <1>2, BootFresh
    <2> QED BY <2>1 DEF AnswerInv, Fresh, Foreign
  <1>3. CASE p = Cached /\ (CrashStep(p) \/ \E n : ThrowStep(p, n))
    <2>1. ~app'[Cached].up BY <1>3 DEF CrashStep, ThrowStep
    <2> QED BY <2>1 DEF AnswerInv, Active
  <1>4. ASSUME p # Cached \/ \E n : GoodStep(p, n) PROVE AnswerInv'
    <2>1. Keeps(Cached) /\ LogKept /\ (Active(Cached)' <=> Active(Cached))
      BY <1>1, <1>4, ProcIdle, ActiveProc DEF Keeps
    <2> SUFFICES ASSUME Active(Cached), NEW i \in Frames', Asking(i)' PROVE Answered(i)'
      BY <2>1 DEF AnswerInv, Asking, Answered
    <2>2. CASE i \in Frames
      <3>1. log'[i] = log[i] BY <2>1, <2>2 DEF LogKept
      <3>2. Answered(i) BY <2>2, <3>1 DEF AnswerInv, Answered, Asking
      <3> QED BY <2>1, <2>2, <3>2, AnsweredKept
    <2>3. CASE i \in Added
      <3>1. PICK n : GoodStep(p, n) \/ ThrowStep(p, n)
        <4>1. ~(BootStep(p) \/ CrashStep(p)) BY <2>3 DEF BootStep, CrashStep, Added, Frames
        <4> QED BY <4>1 DEF ProcMove
      <3>2. Written(p, n, log'[i]) BY <2>3, <3>1, WrittenBy
      <3>3. log'[i].arg = p /\ Is(n, "CachedReadyToRead") BY <3>2 DEF Written, Asking
      <3>4. Handles(p, n) BY <3>1 DEF GoodStep, ThrowStep, HandleStep
      <3>5. n \in Frames /\ n \in Nat /\ log[n].arg = p /\ n <= Len(log) BY <3>3, <3>4, HandledKinds, FrameOf
      <3>6. Writes(Cached, Master, n) /\ Writes(Cached, p, n) BY <3>3, <3>5 DEF AnswerInv, Is
      <3>7. i \in Nat /\ n <= i /\ Len(log) \in Nat BY <2>1, <2>3, <3>5 DEF LogKept
      <3>8. Writes(Cached, Master, i)' /\ Writes(Cached, p, i)'
        BY <1>1, <2>1, <3>5, <3>6, <3>7, FoundLater
      <3> QED BY <3>3, <3>8 DEF Answered
    <2> QED BY <2>2, <2>3 DEF Added
  <1> QED BY <1>2, <1>3, <1>4 DEF ProcMove


-----------------------------------------------------------------------------
(* no lookup of a process in its first run throws *)

\* What a process in its first run finds when it comes to a frame is there when it handles it.
LEMMA FoundThere ==
  ASSUME TypeInv, NEW q \in Nodes, JoinInv(q), Active(q), NEW i, Handles(q, i), NEW x
  PROVE  /\ Knows(q, x, i) => x \in locations[q]
         /\ Writes(q, x, i) => x \in writers[q]
  <1>1. \A k \in Due(q) : i <= k /\ k \in Nat BY NextDue, DueOf
  <1>2. i \in Nat BY HandledKinds
  <1>3. \A k \in Due(q) : ~(k < i) BY <1>1, <1>2
  <1> QED BY <1>3 DEF Knows, Writes

LEMMA NoThrow ==
  ASSUME TypeInv, NEW q \in Nodes, JoinInv(q), LookupInv(q), AnswerInv, Active(q), NEW i, ThrowStep(q, i)
  PROVE  FALSE
  <1>1. Handles(q, i) /\ i \in Frames BY DEF ThrowStep, HandleStep, Handles
  <1>2. CASE Is(i, "RequestReadFrom") /\ log[i].arg \notin locations[q] /\ log[i].j = Cmd(q)
    <2>1. i \in Due(q) BY <1>1, <1>2, DueHandled
    <2>2. Knows(q, log[i].arg, i) BY <1>2, <2>1 DEF LookupInv
    <2> QED BY <1>1, <1>2, <2>2, FoundThere
  <1>3. CASE Is(i, "CachedReadyToRead") /\ Cached \notin writers[q] /\ log[i].j = Cmd(q)
    <2>1. i \in Due(q) BY <1>1, <1>3, DueHandled
    <2>2. Writes(q, Cached, i) BY <1>3, <2>1 DEF LookupInv
    <2> QED BY <1>1, <1>3, <2>2, FoundThere
  <1>4. CASE Is(i, "RequestCached") /\ q = Cached /\ ~({log[i].arg, Master} \subseteq writers[q])
    <2>1. Writes(q, Master, i) /\ Writes(q, log[i].arg, i) BY <1>1, <1>4 DEF AnswerInv, Is
    <2> QED BY <1>1, <1>4, <2>1, FoundThere
  <1> QED BY <1>2, <1>3, <1>4 DEF ThrowStep

LEMMA BrokenMaster ==
  ASSUME TypeInv, BrokenInv, MasterMove
  PROVE  BrokenInv'
  <1>1. broken' = broken /\ app' = app BY NodeNames, MasterIdle
  <1> QED BY <1>1 DEF BrokenInv

LEMMA BrokenProc ==
  ASSUME TypeInv, NEW p \in Nodes, MetInv(p), JoinInv(p), LookupInv(p), AnswerInv, BrokenInv, ProcMove(p)
  PROVE  BrokenInv'
  <1>1. \A q \in Nodes : app[q].pid \in Nat BY RunOf
  <1>2. \A q \in Nodes : q # p => app'[q] = app[q] BY ProcIdle DEF Idle
  <1>3. CASE broken' = broken
    <2>1. app'[p].pid \in {app[p].pid, app[p].pid + 1}
      BY DEF ProcMove, GoodStep, ThrowStep, HandleStep, BootStep, CrashStep
    <2>2. broken \subseteq Nodes BY DEF TypeInv
    <2>3. \A q \in broken : app'[q].pid >= 2
      <3> TAKE q \in broken
      <3>1. app[q].pid >= 2 /\ app[q].pid \in Nat BY <1>1, <2>2 DEF BrokenInv
      <3>2. CASE q # p BY <1>2, <2>2, <3>1, <3>2
      <3>3. CASE q = p BY <2>1, <3>1, <3>3
      <3> QED BY <3>2, <3>3
    <2> QED BY <1>3, <2>3 DEF BrokenInv
  <1>4. ASSUME NEW i, ThrowStep(p, i) PROVE BrokenInv'
    <2>1. ~Active(p) BY <1>4, NoThrow
    <2>2. app[p].up /\ app'[p].pid = app[p].pid /\ broken' = broken \cup {p}
      BY <1>4 DEF ThrowStep, HandleStep, Handles
    <2>3. app[p].pid >= 2 BY <1>1, <2>1, <2>2 DEF Active, MetInv
    <2>4. broken \subseteq Nodes BY DEF TypeInv
    <2>5. \A q \in broken' : app'[q].pid >= 2
      <3> TAKE q \in broken'
      <3>1. CASE q = p BY <2>2, <2>3, <3>1
      <3>2. CASE q # p
        <4>1. q \in broken BY <2>2, <3>2
        <4> QED BY <1>2, <2>4, <3>2, <4>1 DEF BrokenInv
      <3> QED BY <3>1, <3>2
    <2> QED BY <2>5 DEF BrokenInv
  <1> QED BY <1>3, <1>4 DEF ProcMove, GoodStep, BootStep, CrashStep


-----------------------------------------------------------------------------
(* what a process will take for live is what the master does *)

LEMMA DueIdle ==
  ASSUME TypeInv, NEW q \in Nodes, Idle(q)
  PROVE  /\ LogKept /\ \A k \in Due(q) : k \in Due(q)' /\ log'[k] = log[k] /\ k \in Nat /\ k <= Len(log)
         /\ \A k \in Due(q)' : k \in Due(q) \/ k \in Added
         /\ \A k \in Added : k \in Nat /\ k > Len(log) /\ Len(log) \in Nat
  <1>1. LogKept BY DEF Idle
  <1>2. \A k \in Due(q) : k \in Frames /\ k \in Nat /\ k <= Len(log) BY DueOf
  <1> QED BY <1>1, <1>2, DueKept DEF LogKept

\* Nothing makes q take x for live but what did, or a frame that is added.
LEMMA BelievesBack ==
  ASSUME TypeInv, NEW q \in Nodes, Idle(q), NEW x, Believes(q, x)'
  PROVE  Believes(q, x) \/ \E k \in Added : k \in Due(q)' /\ Names(k, x)'
  <1>1. CASE x \in registry'[q] /\ \A d \in Due(q)' : ~Drops(d, q, x)'
    <2>1. \A d \in Due(q) : ~Drops(d, q, x) BY <1>1, DueIdle DEF Drops, Is
    <2> QED BY <1>1, <2>1 DEF Believes, Idle
  <1>2. ASSUME NEW k \in Due(q)', Names(k, x)', \A d \in Due(q)' : k < d => ~Drops(d, q, x)'
        PROVE  Believes(q, x) \/ k \in Added
    <2>1. CASE k \in Due(q)
      <3>1. Names(k, x) BY <1>2, <2>1, DueIdle DEF Names, Is
      <3>2. \A d \in Due(q) : k < d => ~Drops(d, q, x) BY <1>2, DueIdle DEF Drops, Is
      <3> QED BY <2>1, <3>1, <3>2 DEF Believes
    <2> QED BY <2>1, DueIdle
  <1> QED BY <1>1, <1>2 DEF Believes

\* A Deregister of x that is added, and no Register of x after it.
LEMMA BelievesNot ==
  ASSUME TypeInv, NEW q \in Nodes, Idle(q), NEW x, NEW d \in Added, log'[d].j = Pub, Drops(d, q, x)',
         \A k \in Added : Names(k, x)' => k < d
  PROVE  ~Believes(q, x)'
  <1>1. d \in Due(q)' BY DueKept
  <1>2. \A k \in Due(q)' : Names(k, x)' => k < d BY DueIdle
  <1> QED BY <1>1, <1>2 DEF Believes

LEMMA BelievesOn ==
  ASSUME TypeInv, NEW q \in Nodes, Idle(q), NEW x, Believes(q, x), \A d \in Added : ~Drops(d, q, x)'
  PROVE  Believes(q, x)'
  <1>1. ASSUME x \in registry[q], \A d \in Due(q) : ~Drops(d, q, x) PROVE Believes(q, x)'
    <2>1. \A d \in Due(q)' : ~Drops(d, q, x)' BY <1>1, DueIdle DEF Drops, Is
    <2> QED BY <1>1, <2>1 DEF Believes, Idle
  <1>2. ASSUME NEW k \in Due(q), Names(k, x), \A d \in Due(q) : k < d => ~Drops(d, q, x) PROVE Believes(q, x)'
    <2>1. k \in Due(q)' /\ Names(k, x)' BY <1>2, DueIdle DEF Names, Is
    <2>2. \A d \in Due(q)' : k < d => ~Drops(d, q, x)' BY <1>2, DueIdle DEF Drops, Is
    <2> QED BY <2>1, <2>2 DEF Believes
  <1> QED BY <1>1, <1>2 DEF Believes

LEMMA BelievesNew ==
  ASSUME TypeInv, NEW q \in Nodes, Idle(q), NEW x, NEW k \in Added, log'[k].j = Pub \/ log'[k].j = Cmd(q),
         Names(k, x)', \A d \in Added : ~Drops(d, q, x)'
  PROVE  Believes(q, x)'
  <1>1. k \in Due(q)' BY DueKept
  <1>2. \A d \in Due(q)' : k < d => ~Drops(d, q, x)'
    <2> TAKE d \in Due(q)'
    <2>1. CASE d \in Added BY <2>1
    <2>2. CASE d \in Due(q) BY <2>2, DueIdle
    <2> QED BY <2>1, <2>2, DueIdle
  <1> QED BY <1>1, <1>2 DEF Believes


\* The Registers and Deregisters a step of the master adds, for a process q in its first run.
LEMMA LearntFirst ==
  ASSUME TypeInv, NEW q \in Nodes, MetInv(q), Active(q), MasterMove, NEW x \in Nodes \ {q},
         Believes(q, x)', Believes(q, x) => x \in registry[Master]
  PROVE  x \in registry'[Master]
  <1>1. Idle(q) /\ LogKept BY MasterIdle DEF Idle
  <1> DEFINE New == \E k \in Added : k \in Due(q)' /\ Names(k, x)'
  <1>2. x \in registry[Master] \/ New BY <1>1, BelievesBack
  <1>3. ASSUME NEW k \in Added, k \in Due(q)', Names(k, x)'
        PROVE  log'[k].type = "Register" /\ x \in log'[k].arg.live /\ (log'[k].j = Pub \/ log'[k].j = Cmd(q))
    BY <1>3 DEF Names, Is, Due
  <1> HIDE DEF New
  <1>4. ASSUME NEW dead, HealthStep(dead) PROVE x \in registry'[Master]
    <2>1. Added = {Now} /\ log'[Now].j = Pub /\ log'[Now].type = "Deregister" /\ log'[Now].arg = dead
      BY <1>4 DEF HealthStep, Put
    <2>2. registry'[Master] = registry[Master] \ dead BY <1>4 DEF HealthStep
    <2>3. ~New BY <1>3, <2>1 DEF New
    <2>4. x \notin dead
      <3> SUFFICES ASSUME x \in dead PROVE FALSE OBVIOUS
      <3>1. PICK d \in Added : d = Now BY <2>1
      <3>2. log'[d].j = Pub /\ Drops(d, q, x)' /\ \A k \in Added : ~Names(k, x)'
        BY <2>1, <3>1 DEF Drops, Names, Is
      <3> QED BY <1>1, <3>2, BelievesNot
    <2> QED BY <1>2, <2>2, <2>3, <2>4
  <1>5. ASSUME NEW m, MetStep(m) PROVE x \in registry'[Master]
    <2>1. /\ Added = {Now, Now + 1, Now + 2} /\ registry'[Master] = registry[Master] \cup {m.q}
          /\ m.q \in Nodes
          /\ Put(Now, Pub, "Register", [known |-> {m.q}, live |-> {m.q}])
          /\ Put(Now + 1, Cmd(m.q), "RequestWriteTo", Master)
          /\ Put(Now + 2, Cmd(m.q), "Register",
                 [known |-> locations[Master] \cup {m.q}, live |-> registry[Master] \cup {m.q}])
      BY <1>5 DEF MetStep, Meets
    <2>2. \A k \in Added : log'[k].type = "Register" => log'[k].arg.live \subseteq registry[Master] \cup {m.q}
      BY <2>1 DEF Put
    <2>3. New => x \in registry[Master] \cup {m.q} BY <1>3, <2>2 DEF New
    <2> QED BY <1>2, <2>1, <2>3
  <1>6. ASSUME NEW m, LostStep(m) PROVE x \in registry'[Master]
    <2>1. /\ Added = {Now, Now + 1, Now + 2, Now + 3} /\ registry'[Master] = registry[Master]
          /\ m.q \in Nodes
          /\ Put(Now, Pub, "Register", [known |-> {m.q}, live |-> {m.q}])
          /\ Put(Now + 1, Cmd(m.q), "RequestWriteTo", Master)
          /\ Put(Now + 2, Cmd(m.q), "Register",
                 [known |-> locations[Master] \cup {m.q}, live |-> registry[Master] \cup {m.q}])
          /\ Put(Now + 3, Pub, "Deregister", {m.q})
      BY <1>6 DEF LostStep, Meets
    <2>2. m.q # q BY <1>6, ActiveStays
    <2>3. Now \in Nat BY RunOf DEF Now
    <2>4. x # m.q
      <3> SUFFICES ASSUME x = m.q PROVE FALSE OBVIOUS
      <3>1. PICK d \in Added : d = Now + 3 BY <2>1
      <3>2. log'[d].j = Pub /\ Drops(d, q, x)' BY <2>1, <2>2, <3>1 DEF Drops, Is, Put
      <3>3. \A k \in Added : Names(k, x)' => k # d BY <2>1, <3>1 DEF Names, Is, Put
      <3>4. \A k \in Added : k <= d BY <2>1, <2>3, <3>1
      <3>5. \A k \in Added : k \in Nat BY <1>1 DEF LogKept
      <3>6. \A k \in Added : Names(k, x)' => k < d BY <3>3, <3>4, <3>5
      <3> QED BY <1>1, <3>2, <3>6, BelievesNot
    <2>5. Cmd(m.q) # Cmd(q) /\ Cmd(m.q) # Pub BY <2>1, <2>2, JournalsDiffer
    <2>6. \A k \in Added : log'[k].type = "Register" /\ (log'[k].j = Pub \/ log'[k].j = Cmd(q)) =>
                             log'[k].arg.live = {m.q}
      BY <2>1, <2>5 DEF Put
    <2>7. ~New BY <1>3, <2>4, <2>6 DEF New
    <2> QED BY <1>2, <2>1, <2>7
  <1>7. ASSUME NEW m, RefusedStep(m) PROVE x \in registry'[Master]
    <2>1. Added = {} /\ registry' = registry BY <1>7 DEF RefusedStep, Added, Frames
    <2> QED BY <1>2, <2>1 DEF New
  <1>8. ASSUME NEW n, NEW y, WriteStep(n, y) \/ ReadStep(n, y) \/ DoneStep(n, y) PROVE x \in registry'[Master]
    <2>1. registry' = registry BY <1>8 DEF WriteStep, ReadStep, DoneStep, RequestStep
    <2>2. ASSUME WriteStep(n, y) \/ ReadStep(n, y) PROVE \A k \in Added : log'[k].type # "Register"
      BY <2>2 DEF WriteStep, ReadStep, Put
    <2>3. ASSUME DoneStep(n, y)
          PROVE  \A k \in Added : log'[k].type = "Register" => log'[k].arg.live = registry[Master]
      BY <2>3 DEF DoneStep, Put
    <2>4. New => x \in registry[Master] BY <1>3, <1>8, <2>2, <2>3 DEF New
    <2> QED BY <1>2, <2>1, <2>4
  <1> QED BY <1>4, <1>5, <1>6, <1>7, <1>8 DEF MasterMove

\* A registered process takes for live, or will, whom the master registers.
LEMMA LearntLive ==
  ASSUME TypeInv, NEW q \in Nodes, MasterMove, Settled(q)', NEW x \in registry'[Master],
         Settled(q) /\ x \in registry[Master] => Believes(q, x)
  PROVE  Believes(q, x)'
  <1>1. Idle(q) /\ LogKept BY MasterIdle DEF Idle
  <1>3. ASSUME NEW m, MetStep(m) PROVE Believes(q, x)'
    <2>1. /\ Added = {Now, Now + 1, Now + 2} /\ registry'[Master] = registry[Master] \cup {m.q}
          /\ Put(Now, Pub, "Register", [known |-> {m.q}, live |-> {m.q}])
          /\ Put(Now + 1, Cmd(m.q), "RequestWriteTo", Master)
          /\ Put(Now + 2, Cmd(m.q), "Register",
                 [known |-> locations[Master] \cup {m.q}, live |-> registry[Master] \cup {m.q}])
      BY <1>3 DEF MetStep, Meets
    <2>2. \A d \in Added : ~Drops(d, q, x)' BY <2>1 DEF Put, Drops, Is
    <2>3. CASE m.q = q
      <3>1. PICK k \in Added : k = Now + 2 BY <2>1
      <3>2. log'[k].j = Cmd(q) /\ Names(k, x)' BY <2>1, <2>3, <3>1 DEF Put, Names, Is
      <3> QED BY <1>1, <2>2, <3>2, BelievesNew
    <2>4. CASE x = m.q
      <3>1. PICK k \in Added : k = Now BY <2>1
      <3>2. log'[k].j = Pub /\ Names(k, x)' BY <2>1, <2>4, <3>1 DEF Put, Names, Is
      <3> QED BY <1>1, <2>2, <3>2, BelievesNew
    <2>5. CASE m.q # q /\ x # m.q
      <3>1. x \in registry[Master] BY <2>1, <2>5
      <3>2. Settled(q)
        <4>1. livepid'[q] = livepid[q] BY <1>3, <2>5 DEF MetStep
        <4>2. q \in registry[Master] BY <2>1, <2>5 DEF Settled
        <4> QED BY <1>1, <4>1, <4>2 DEF Settled, Idle
      <3> QED BY <1>1, <2>2, <3>1, <3>2, BelievesOn
    <2> QED BY <2>3, <2>4, <2>5
  <1>4. ASSUME \A m : ~MetStep(m), \A d \in Added : ~Drops(d, q, x)', x \in registry[Master] PROVE Believes(q, x)'
    <2>1. Settled(q) BY <1>4, SettledMaster
    <2> QED BY <1>1, <1>4, <2>1, BelievesOn
  <1>5. ASSUME NEW dead, HealthStep(dead), \A m : ~MetStep(m) PROVE Believes(q, x)'
    <2>1. x \in registry[Master] /\ x \notin dead BY <1>5 DEF HealthStep
    <2>2. \A d \in Added : ~Drops(d, q, x)' BY <1>5, <2>1 DEF HealthStep, Put, Drops, Is
    <2> QED BY <1>4, <1>5, <2>1, <2>2
  <1>6. ASSUME NEW m, LostStep(m), \A t : ~MetStep(t) PROVE Believes(q, x)'
    <2>1. x \in registry[Master] /\ x # m.q BY <1>6 DEF LostStep, Meets
    <2>2. \A d \in Added : log'[d].type = "Deregister" => log'[d].arg = {m.q}
      BY <1>6 DEF LostStep, Meets, Put
    <2>3. \A d \in Added : ~Drops(d, q, x)' BY <2>1, <2>2 DEF Drops, Is
    <2> QED BY <1>4, <1>6, <2>1, <2>3
  <1>7. ASSUME NEW m, RefusedStep(m), \A t : ~MetStep(t) PROVE Believes(q, x)'
    <2>1. Added = {} /\ registry' = registry BY <1>7 DEF RefusedStep, Added, Frames
    <2> QED BY <1>4, <1>7, <2>1
  <1>8. ASSUME NEW n, NEW y, WriteStep(n, y) \/ ReadStep(n, y) \/ DoneStep(n, y), \A m : ~MetStep(m)
        PROVE  Believes(q, x)'
    <2>1. registry' = registry BY <1>8 DEF WriteStep, ReadStep, DoneStep, RequestStep
    <2>2. \A d \in Added : log'[d].type # "Deregister" BY <1>8 DEF WriteStep, ReadStep, DoneStep, Put
    <2>3. \A d \in Added : ~Drops(d, q, x)' BY <2>2 DEF Drops, Is
    <2> QED BY <1>4, <1>8, <2>1, <2>3
  <1> QED BY <1>3, <1>5, <1>6, <1>7, <1>8 DEF MasterMove

LEMMA BeliefMaster ==
  ASSUME TypeInv, NEW q \in Nodes, MetInv(q), BeliefInv(q), MasterMove
  PROVE  BeliefInv(q)'
  <1>1. Active(q)' <=> Active(q) BY ActiveMaster
  <1>2. ASSUME Active(q)', NEW x \in Nodes \ {q}, Believes(q, x)' PROVE x \in registry'[Master]
    BY <1>1, <1>2, LearntFirst DEF BeliefInv
  <1>3. ASSUME Settled(q)', NEW x \in registry'[Master] PROVE Believes(q, x)'
    BY <1>3, LearntLive DEF BeliefInv
  <1> QED BY <1>2, <1>3 DEF BeliefInv


\* A Deregister that q has not read comes after the frame it handles.
LEMMA DropLater ==
  ASSUME TypeInv, NEW q \in Nodes, JoinInv(q), NEW i, Handles(q, i), NEW x, NEW d \in Due(q), Drops(d, q, x)
  PROVE  i <= d /\ i \in Nat /\ d \in Nat
  <1>1. d \in Frames /\ d \in Nat /\ d <= Len(log) BY DueOf
  <1>2. log[d].j = Pub BY <1>1, FrameOf DEF Drops, Is, Shape
  <1>3. pos[q][Pub] # NotJoined BY DEF JoinInv, Handles
  <1>4. pos[q][Pub] < d
    <2>1. Pub # Cmd(q) BY JournalOf
    <2> QED BY <1>2, <2>1 DEF Due
  <1>5. d \in Unread(q) BY <1>1, <1>2, <1>3, <1>4 DEF Unread, Frames
  <1> QED BY <1>1, <1>5, HandledKinds DEF Handles, IsNext

LEMMA BeliefGood ==
  ASSUME TypeInv, NEW q \in Nodes, JoinInv(q), BeliefInv(q), NEW i, GoodStep(q, i)
  PROVE  BeliefInv(q)'
  <1>1. /\ Due(q)' = Due(q) \ {i} /\ \A k \in Due(q)' : log'[k] = log[k]
    BY DueRead
  <1>2. /\ Handles(q, i) /\ registry'[Master] = registry[Master] /\ livepid' = livepid
        /\ app'[q].pid = app[q].pid /\ app[q].up
    BY ProcIdle DEF ProcMove, MasterSame, GoodStep, HandleStep, Handles
  <1>3. registry'[q] = IF Is(i, "Register") THEN registry[q] \cup log[i].arg.live
                       ELSE IF Is(i, "Deregister") THEN registry[q] \ (log[i].arg \ {q}) ELSE registry[q]
    BY DEF GoodStep
  <1>4. Is(i, "Register") \/ Is(i, "Deregister") => i \in Due(q) BY <1>2, HandledKinds, DueHandled
  <1>5. ~(Is(i, "Register") /\ Is(i, "Deregister")) BY DEF Is
  <1>6. \A k \in Due(q)', x \in Nodes : (Drops(k, q, x)' <=> Drops(k, q, x)) /\ (Names(k, x)' <=> Names(k, x))
    BY <1>1 DEF Drops, Names, Is
  <1>7. ASSUME Active(q), NEW x \in Nodes \ {q}, Believes(q, x)' PROVE x \in registry[Master]
    <2>1. CASE x \in registry'[q] /\ \A d \in Due(q)' : ~Drops(d, q, x)'
      <3>1. \A d \in Due(q) \ {i} : ~Drops(d, q, x) BY <1>1, <1>6, <2>1
      <3>2. ~Drops(i, q, x) BY <1>3, <1>5, <2>1 DEF Drops
      <3>3. x \in registry[q] \/ Names(i, x) BY <1>3, <2>1 DEF Names
      <3>4. Believes(q, x) BY <1>4, <3>1, <3>2, <3>3 DEF Believes, Names
      <3> QED BY <1>7, <3>4 DEF BeliefInv
    <2>2. ASSUME NEW k \in Due(q)', Names(k, x)', \A d \in Due(q)' : k < d => ~Drops(d, q, x)'
          PROVE  x \in registry[Master]
      <3>1. k \in Due(q) /\ Names(k, x) BY <1>1, <1>6, <2>2
      <3>2. i <= k /\ i \in Nat /\ k \in Nat BY <1>2, <1>7, <3>1, NextDue, DueOf, HandledKinds
      <3>3. \A d \in Due(q) : k < d => ~Drops(d, q, x)
        <4> TAKE d \in Due(q)
        <4>1. CASE d = i BY <3>2, <4>1
        <4>2. CASE d # i BY <1>1, <1>6, <2>2, <4>2
        <4> QED BY <4>1, <4>2
      <3>4. Believes(q, x) BY <3>1, <3>3 DEF Believes
      <3> QED BY <1>7, <3>4 DEF BeliefInv
    <2> QED BY <1>7, <2>1, <2>2 DEF Believes
  <1>8. ASSUME Settled(q), NEW x \in registry[Master] PROVE Believes(q, x)'
    <2>1. x \in Nodes BY NodeNames DEF TypeInv
    <2>2. Believes(q, x) BY <1>8 DEF BeliefInv
    <2>3. CASE x \in registry[q] /\ \A d \in Due(q) : ~Drops(d, q, x)
      <3>1. \A d \in Due(q)' : ~Drops(d, q, x)' BY <1>1, <1>6, <2>1, <2>3
      <3>2. x \in registry'[q] BY <1>3, <1>4, <2>3 DEF Drops
      <3> QED BY <3>1, <3>2 DEF Believes
    <2>4. ASSUME NEW k \in Due(q), Names(k, x), \A d \in Due(q) : k < d => ~Drops(d, q, x), k # i
          PROVE  Believes(q, x)'
      <3>1. k \in Due(q)' /\ Names(k, x)' BY <1>1, <1>6, <2>1, <2>4
      <3>2. \A d \in Due(q)' : k < d => ~Drops(d, q, x)' BY <1>1, <1>6, <2>1, <2>4
      <3> QED BY <3>1, <3>2 DEF Believes
    <2>5. ASSUME Names(i, x), i \in Due(q), \A d \in Due(q) : i < d => ~Drops(d, q, x) PROVE Believes(q, x)'
      <3>1. x \in registry'[q] BY <1>3, <2>5 DEF Names
      <3>2. \A d \in Due(q)' : ~Drops(d, q, x)'
        <4> SUFFICES ASSUME NEW d \in Due(q)', Drops(d, q, x)' PROVE FALSE OBVIOUS
        <4>1. d \in Due(q) /\ d # i /\ Drops(d, q, x) BY <1>1, <1>6, <2>1
        <4>2. i <= d /\ i \in Nat /\ d \in Nat BY <1>2, <4>1, DropLater
        <4> QED BY <2>5, <4>1, <4>2
      <3> QED BY <3>1, <3>2 DEF Believes
    <2> QED BY <2>2, <2>3, <2>4, <2>5 DEF Believes
  <1>9. (Active(q)' => Active(q)) /\ (Settled(q)' => Settled(q)) BY <1>2 DEF Active, Settled
  <1>10. ASSUME Active(q)', NEW x \in Nodes \ {q}, Believes(q, x)' PROVE x \in registry'[Master]
    BY <1>2, <1>7, <1>9, <1>10
  <1>11. ASSUME Settled(q)', NEW x \in registry'[Master] PROVE Believes(q, x)' BY <1>2, <1>8, <1>9, <1>11
  <1> QED BY <1>10, <1>11 DEF BeliefInv

LEMMA BeliefIdle ==
  ASSUME TypeInv, NEW q \in Nodes, BeliefInv(q), Idle(q), MasterSame, NEW p \in Nodes \ {q}, ProcMove(p)
  PROVE  BeliefInv(q)'
  <1>1. \A k \in Added : log'[k].type \notin {"Register", "Deregister"}
    <2> SUFFICES ASSUME NEW k \in Added PROVE log'[k].type \notin {"Register", "Deregister"} OBVIOUS
    <2>1. PICK n : GoodStep(p, n) \/ ThrowStep(p, n)
      <3>1. ~(BootStep(p) \/ CrashStep(p)) BY DEF BootStep, CrashStep, Added, Frames
      <3> QED BY <3>1 DEF ProcMove
    <2>2. Written(p, n, log'[k]) BY <2>1, WrittenBy
    <2> QED BY <2>2 DEF Written
  <1>2. ASSUME NEW x, Believes(q, x)' PROVE Believes(q, x) BY <1>1, <1>2, BelievesBack DEF Names, Is
  <1>3. ASSUME NEW x, Believes(q, x) PROVE Believes(q, x)'
    <2>1. \A d \in Added : ~Drops(d, q, x)' BY <1>1 DEF Drops, Is
    <2> QED BY <1>3, <2>1, BelievesOn
  <1>4. (Active(q)' => Active(q)) /\ (Settled(q)' => Settled(q)) BY DEF Active, Settled, Idle, MasterSame
  <1>5. ASSUME Active(q)', NEW x \in Nodes \ {q}, Believes(q, x)' PROVE x \in registry'[Master]
    BY <1>2, <1>4, <1>5 DEF BeliefInv, MasterSame
  <1>6. ASSUME Settled(q)', NEW x \in registry'[Master] PROVE Believes(q, x)'
    BY <1>3, <1>4, <1>6 DEF BeliefInv, MasterSame
  <1> QED BY <1>5, <1>6 DEF BeliefInv

LEMMA BeliefProc ==
  ASSUME TypeInv, NEW q \in Nodes, MetInv(q), JoinInv(q), BeliefInv(q), NEW p \in Nodes, ProcMove(p)
  PROVE  BeliefInv(q)'
  <1>1. CASE p # q BY <1>1, ProcIdle, BeliefIdle
  <1>2. CASE \E i : GoodStep(q, i) BY <1>2, BeliefGood
  <1>3. CASE CrashStep(q) \/ \E i : ThrowStep(q, i)
    <2>1. ~app'[q].up BY <1>3 DEF CrashStep, ThrowStep
    <2> QED BY <2>1 DEF BeliefInv, Active, Settled
  <1>4. CASE BootStep(q)
    <2>1. Due(q)' = {} /\ ~Settled(q)' BY <1>4, BootFresh
    <2>2. registry'[q] = {} BY <1>4 DEF BootStep
    <2>3. \A x : ~Believes(q, x)' BY <2>1, <2>2 DEF Believes
    <2> QED BY <2>1, <2>3 DEF BeliefInv
  <1> QED BY <1>1, <1>2, <1>3, <1>4 DEF ProcMove


-----------------------------------------------------------------------------
(* one process killed *)

LEMMA LoneMaster ==
  ASSUME TypeInv, LoneInv, MasterMove
  PROVE  LoneInv'
  <1>1. crashes' = crashes /\ app' = app BY NodeNames, MasterIdle
  <1> QED BY <1>1 DEF LoneInv, Active

LEMMA LoneProc ==
  ASSUME TypeInv, NEW p \in Nodes, MetInv(p), JoinInv(p), LookupInv(p), AnswerInv, LoneInv, ProcMove(p)
  PROVE  LoneInv'
  <1> DEFINE First(q) == app[q].pid = 0 \/ Active(q)
  <1>1. app[p].pid \in Nat /\ app[p].up \in BOOLEAN /\ crashes \in Nat BY RunOf DEF TypeInv
  <1>2. \A q \in Nodes \ {p} : app'[q] = app[q] BY ProcIdle DEF Idle
  <1>3. \A q \in Nodes \ {p} : First(q)' <=> First(q) BY <1>2 DEF Active
  <1>4. (crashes = 0 => \A q \in Nodes : First(q))
        /\ (crashes = 1 => \E y \in Nodes : \A q \in Nodes \ {y} : First(q))
    BY DEF LoneInv
  <1>5. CASE crashes' = crashes /\ (First(p) => First(p)')
    <2>1. crashes = 0 => \A q \in Nodes : First(q)' BY <1>3, <1>4, <1>5
    <2>2. crashes = 1 => \E y \in Nodes : \A q \in Nodes \ {y} : First(q)' BY <1>3, <1>4, <1>5
    <2> QED BY <1>5, <2>1, <2>2 DEF LoneInv
  <1>6. ASSUME NEW i, GoodStep(p, i) PROVE crashes' = crashes /\ (First(p) => First(p)')
    BY <1>6 DEF GoodStep, HandleStep, OthersSame, Handles, Active
  <1>7. ASSUME NEW i, ThrowStep(p, i) PROVE crashes' = crashes /\ ~First(p)
    <2>1. ~Active(p) BY <1>7, NoThrow
    <2>2. app[p].up /\ crashes' = crashes BY <1>7 DEF ThrowStep, HandleStep, OthersSame, Handles
    <2> QED BY <1>1, <2>1, <2>2 DEF MetInv
  <1>8. ASSUME BootStep(p) PROVE crashes' = crashes /\ (First(p) => First(p)')
    <2>1. ~app[p].up /\ app'[p].up /\ app'[p].pid = app[p].pid + 1 /\ crashes' = crashes BY <1>8 DEF BootStep
    <2>2. First(p) => app[p].pid = 0 BY <2>1 DEF Active
    <2>3. app[p].pid = 0 => app'[p].pid = 1 BY <2>1
    <2> QED BY <2>1, <2>2, <2>3 DEF Active
  <1>9. ASSUME CrashStep(p) PROVE LoneInv'
    <2>1. crashes' = crashes + 1 BY <1>9 DEF CrashStep
    <2>2. crashes' # 0 /\ (crashes' = 1 => crashes = 0) BY <1>1, <2>1
    <2>3. crashes = 0 => \A q \in Nodes \ {p} : First(q)' BY <1>3, <1>4
    <2> QED BY <2>2, <2>3 DEF LoneInv
  <1> QED BY <1>5, <1>6, <1>7, <1>8, <1>9 DEF ProcMove

-----------------------------------------------------------------------------
(* the state stands before the start *)

LEMMA FeedOf ==
  ASSUME NEW q \in Apps
  PROVE  /\ Feed(q) \in Journals /\ q \in Nodes /\ q # Cached /\ Feed(q)[1] = Cached /\ Cached \in Nodes
         /\ Feed(q) # Pub /\ Feed(q) # Cmd(q) /\ \A x : Feed(q) = <<x, q>> <=> x = Cached
  <1>1. q \in Nodes /\ q # Cached /\ Cached \in Nodes BY NodeNames
  <1>2. Feed(q) \in Journals BY <1>1, JournalOf DEF Feed
  <1>3. Feed(q) # Pub /\ Feed(q) # Cmd(q) BY <1>1, JournalsDiffer DEF Feed
  <1>4. Feed(q)[1] = Cached /\ \A x : Feed(q) = <<x, q>> <=> x = Cached BY DEF Feed
  <1> QED BY <1>1, <1>2, <1>3, <1>4

LEMMA FeedCursor ==
  ASSUME TypeInv, NEW q \in Apps, NEW i, Handles(q, i)
  PROVE  Cursor(q, i, Feed(q)) =
           IF log[i].j = Feed(q) THEN i
           ELSE IF Is(i, "RequestReadFrom") /\ log[i].arg = Cached /\ pos[q][Feed(q)] = NotJoined
           THEN log[i].from
           ELSE IF Is(i, "Deregister") /\ Cached \in log[i].arg THEN NotJoined ELSE pos[q][Feed(q)]
  <1>1. /\ Feed(q) \in Journals /\ q # Cached /\ Feed(q)[1] = Cached
        /\ Feed(q) # Cmd(q) /\ \A x : Feed(q) = <<x, q>> <=> x = Cached
    BY FeedOf
  <1> DEFINE F == Feed(q)
  <1>2. /\ F # Cmd(q) /\ F[1] = Cached /\ q # Cached /\ (F = <<log[i].arg, q>> <=> log[i].arg = Cached)
    BY <1>1
  <1> HIDE DEF F
  <1>3. Cursor(q, i, F) =
           IF log[i].j = F THEN i
           ELSE IF Is(i, "RequestReadFrom") /\ log[i].arg = Cached /\ pos[q][F] = NotJoined
           THEN log[i].from
           ELSE IF Is(i, "Deregister") /\ Cached \in log[i].arg THEN NotJoined ELSE pos[q][F]
    BY <1>2 DEF Cursor, Is
  <1> QED BY <1>3 DEF F

\* The steps of others, and of the master, leave open what is.
LEMMA ReadsIdle ==
  ASSUME TypeInv, NEW q \in Nodes, Idle(q), NEW k \in Frames
  PROVE  /\ Opens(q, Now) => Opens(q, Now)'
         /\ \A n : Opens(q, n) => Opens(q, n)'
         /\ Fed(q, k) => Fed(q, k)' /\ k \in Frames'
  <1>1. \A r \in Due(q) : r \in Due(q)' /\ log'[r] = log[r] /\ r < Now'
    <2>1. LogKept BY DEF Idle
    <2> QED BY <2>1, DueIdle DEF LogKept, Now
  <1>2. Opens(q, Now) => Opens(q, Now)' BY <1>1 DEF Opens, Is
  <1>3. \A n : Opens(q, n) => Opens(q, n)' BY <1>1 DEF Opens, Is
  <1>4. k \in Frames' /\ log'[k] = log[k] BY DEF Idle, LogKept
  <1>5. Reads(q, k) => Reads(q, k)' BY <1>3 DEF Reads, Idle
  <1> QED BY <1>2, <1>3, <1>4, <1>5 DEF Fed, Is

LEMMA StateMaster ==
  ASSUME TypeInv, NEW q \in Apps, MetInv(Cached), StateInv(q), MasterMove
  PROVE  StateInv(q)'
  <1>1. q \in Nodes /\ Cached \in Nodes BY NodeNames
  <1>2. Idle(q) /\ LogKept /\ app' = app BY <1>1, MasterIdle DEF Idle
  <1>3. (Active(q)' <=> Active(q)) /\ (Active(Cached)' <=> Active(Cached)) BY <1>2 DEF Active
  <1>4. ASSUME Active(q), Active(Cached), NEW i \in Frames', Asking(i)', log'[i].arg = q
        PROVE  pos'[q][Feed(q)] # NotJoined \/ Opens(q, Now)'
    <2>1. CASE i \in Frames
      <3>1. log'[i] = log[i] BY <1>2, <2>1 DEF LogKept
      <3>2. pos[q][Feed(q)] # NotJoined \/ Opens(q, Now) BY <1>4, <2>1, <3>1 DEF StateInv, Asking
      <3> QED BY <1>1, <1>2, <2>1, <3>2, ReadsIdle DEF Idle
    <2>2. ASSUME i \in Added, NEW n, NEW x, ReadStep(n, x) PROVE Opens(q, Now)'
      <3>1. RequestStep(n, x) /\ Is(n, "RequestReadFrom") /\ n \in Frames BY <2>2 DEF ReadStep, RequestStep
      <3>2. Cached \in registry[Master] BY <1>1, <1>4, <3>1, ActiveMet DEF Fresh, Foreign, Is
      <3>3. /\ Added = {Now, Now + 1, Now + 2}
            /\ Put(Now, Cmd(Cached), "RequestWriteTo", x) /\ Put(Now + 1, Cmd(x), "RequestReadFrom", Cached)
            /\ Put(Now + 2, Cmd(x), "CachedReadyToRead", x)
        BY <2>2, <3>2 DEF ReadStep
      <3>4. x = q BY <1>4, <2>2, <3>3 DEF Put, Asking
      <3>5. PICK r \in Added : r = Now + 1 BY <3>3
      <3>6. log'[r].j = Cmd(q) /\ log'[r].type = "RequestReadFrom" /\ log'[r].arg = Cached
        BY <3>3, <3>4, <3>5 DEF Put
      <3>7. r \in Due(q)' /\ r < Now' BY <1>1, <1>2, <3>6, PutFound
      <3> QED BY <3>6, <3>7 DEF Opens, Is
    <2>3. ASSUME i \in Added, \A n, x : ~ReadStep(n, x) PROVE FALSE
      <3>1. ASSUME NEW dead, HealthStep(dead) PROVE log'[i].type = "Deregister" BY <2>3, <3>1 DEF HealthStep, Put
      <3>2. ASSUME NEW m, MetStep(m) \/ LostStep(m) \/ RefusedStep(m)
            PROVE  log'[i].type \in {"Register", "RequestWriteTo", "Deregister"}
        BY <2>3, <3>2 DEF MetStep, LostStep, RefusedStep, Meets, Put, Added, Frames
      <3>3. ASSUME NEW n, NEW x, WriteStep(n, x) \/ DoneStep(n, x)
            PROVE  log'[i].type \in {"RequestWriteTo", "RequestReadFrom", "RequestStart", "Register"}
        BY <2>3, <3>3 DEF WriteStep, DoneStep, Put
      <3> QED BY <1>4, <2>3, <3>1, <3>2, <3>3 DEF MasterMove, Asking
    <2> QED BY <2>1, <2>2, <2>3 DEF Added
  <1>5. ASSUME Active(q), app[Cached].pid <= 1, NEW i \in Frames,
               log[i].type \in {"RequestCachedDone", "RequestStart"}, log[i].arg = q
        PROVE  app[q].fed \/ \E k \in Frames' : k < i /\ Fed(q, k)'
    BY <1>1, <1>2, <1>5, ReadsIdle DEF StateInv
  <1>6. ASSUME Active(q), app[Cached].pid <= 1, NEW i \in Added,
               log'[i].type \in {"RequestCachedDone", "RequestStart"}, log'[i].arg = q
        PROVE  app[q].fed \/ \E k \in Frames' : k < i /\ Fed(q, k)'
    <2>1. log'[i].type = "RequestStart" BY <1>6, MasterKinds
    <2>2. PICK n, y : DoneStep(n, y)
      <3>1. ASSUME NEW dead, HealthStep(dead) PROVE FALSE BY <1>6, <2>1, <3>1 DEF HealthStep, Put
      <3>2. ASSUME NEW m, MetStep(m) \/ LostStep(m) \/ RefusedStep(m) PROVE FALSE
        BY <1>6, <2>1, <3>2 DEF MetStep, LostStep, RefusedStep, Meets, Put, Added, Frames
      <3>3. ASSUME NEW n, NEW x, WriteStep(n, x) \/ ReadStep(n, x) PROVE FALSE
        BY <1>6, <2>1, <3>3 DEF WriteStep, ReadStep, Put
      <3> QED BY <3>1, <3>2, <3>3 DEF MasterMove
    <2>3. y = q BY <1>6, <2>1, <2>2 DEF DoneStep, Put
    <2>4. n \in Frames /\ log[n].type = "RequestCachedDone" /\ log[n].arg = q
      BY <2>2, <2>3 DEF DoneStep, RequestStep, Is
    <2>5. n < i
      <3>1. n \in Nat /\ n <= Len(log) BY <2>4, FrameOf
      <3> QED BY <1>2, <1>6, <3>1 DEF LogKept
    <2>6. app[q].fed \/ \E k \in Frames' : k < n /\ Fed(q, k)' BY <1>5, <1>6, <2>4
    <2>7. \A k \in Frames' : k < n => k < i
      <3>1. n \in Nat /\ i \in Nat /\ \A k \in Frames' : k \in Int
        BY <1>2, <1>6, <2>4, FrameOf DEF LogKept, Frames
      <3> QED BY <2>5, <3>1
    <2> QED BY <2>6, <2>7
  <1>7. ASSUME Active(q), app[Cached].pid <= 1, NEW i \in Frames',
               log'[i].type \in {"RequestCachedDone", "RequestStart"}, log'[i].arg = q
        PROVE  app[q].fed \/ \E k \in Frames' : k < i /\ Fed(q, k)'
    <2>1. i \in Frames => log'[i] = log[i] BY <1>2 DEF LogKept
    <2> QED BY <1>5, <1>6, <1>7, <2>1 DEF Added
  <1>8. app[q].pid = 1 /\ app[Cached].pid <= 1 /\ app[q].started => app[q].fed BY DEF StateInv
  <1> QED BY <1>2, <1>3, <1>4, <1>7, <1>8 DEF StateInv, Asking


\* Cached answers with the state before it tells the master that it is done.
LEMMA FedBefore ==
  ASSUME TypeInv, NEW q \in Apps, MetInv(Cached), JoinInv(Cached), LookupInv(Cached), AnswerInv, StateInv(q),
         NEW n, GoodStep(Cached, n) \/ ThrowStep(Cached, n), Active(q), app[Cached].pid <= 1,
         NEW i \in Added, log'[i].type = "RequestCachedDone", log'[i].arg = q
  PROVE  \E k \in Frames' : k < i /\ Fed(q, k)'
  <1>1. q \in Nodes /\ Cached \in Nodes /\ q # Cached BY NodeNames
  <1>2. Active(Cached)
    <2>1. app[Cached].up BY DEF GoodStep, ThrowStep, HandleStep, Handles
    <2>2. app[Cached].pid \in Nat BY <1>1, RunOf
    <2> QED BY <2>1, <2>2 DEF MetInv, Active
  <1>3. GoodStep(Cached, n) BY <1>1, <1>2, NoThrow
  <1>4. Idle(q) /\ LogKept BY <1>1, <1>3, ProcIdle DEF ProcMove
  <1>5. Written(Cached, n, log'[i]) BY <1>3, WrittenBy
  <1>6. Is(n, "RequestCached") /\ log[n].arg = q BY <1>1, <1>5 DEF Written
  <1>7. Reply(Cached, n) BY <1>3 DEF GoodStep
  <1>8. Added = {Now, Now + 1} /\ Put(Now, <<Cached, log[n].arg>>, "State", log[n].arg)
    BY <1>6, <1>7 DEF Reply, Is
  <1>9. log'[Now].type = "State" /\ log'[Now].arg = q BY <1>6, <1>8 DEF Put
  <1>10. i = Now + 1 BY <1>8, <1>9
  <1>11. PICK k \in Added : k = Now BY <1>8
  <1>12. n \in Frames BY <1>3 DEF GoodStep, HandleStep, Handles
  <1>13. pos[q][Feed(q)] # NotJoined \/ Opens(q, Now) BY <1>2, <1>6, <1>12 DEF StateInv, Is
  <1>14. pos[q][Feed(q)] # NotJoined \/ Opens(q, k)' BY <1>1, <1>4, <1>11, <1>12, <1>13, ReadsIdle
  <1>15. pos[q][Feed(q)] \in Int /\ pos[q][Feed(q)] <= Len(log) /\ Len(log) \in Nat BY <1>1, FeedOf, RunOf
  <1>16. pos[q][Feed(q)] < k /\ k < i BY <1>10, <1>11, <1>15 DEF Now
  <1>17. Reads(q, k)' BY <1>4, <1>14, <1>16 DEF Reads, Idle
  <1>18. Fed(q, k)' BY <1>9, <1>11, <1>17 DEF Fed, Is
  <1> QED BY <1>16, <1>18 DEF Added

LEMMA StateIdle ==
  ASSUME TypeInv, NEW q \in Apps, MetInv(Cached), JoinInv(Cached), LookupInv(Cached), AnswerInv, StateInv(q),
         NEW p \in Nodes \ {q}, ProcMove(p)
  PROVE  StateInv(q)'
  <1>1. q \in Nodes /\ Cached \in Nodes /\ q # Cached BY NodeNames
  <1>2. Idle(q) /\ LogKept BY <1>1, ProcIdle
  <1>3. Active(q)' <=> Active(q) BY <1>2 DEF Active, Idle
  <1>4. app'[Cached].pid <= 1 => app[Cached].pid <= 1
    <2>1. app'[Cached].pid = app[Cached].pid \/ app'[Cached].pid = app[Cached].pid + 1
      <3>1. CASE p # Cached BY <1>1, <3>1, ProcIdle DEF Idle
      <3>2. CASE p = Cached BY <3>2 DEF ProcMove, GoodStep, ThrowStep, HandleStep, BootStep, CrashStep
      <3> QED BY <3>1, <3>2
    <2>2. app[Cached].pid \in Nat BY <1>1, RunOf
    <2> QED BY <2>1, <2>2
  <1>5. \A i \in Added : \E n : (GoodStep(p, n) \/ ThrowStep(p, n)) /\ Written(p, n, log'[i])
    <2> TAKE i \in Added
    <2>1. PICK n : GoodStep(p, n) \/ ThrowStep(p, n)
      <3>1. ~(BootStep(p) \/ CrashStep(p)) BY DEF BootStep, CrashStep, Added, Frames
      <3> QED BY <3>1 DEF ProcMove
    <2> QED BY <2>1, WrittenBy
  <1>6. ASSUME Active(q), Active(Cached)', NEW i \in Frames', Asking(i)', log'[i].arg = q
        PROVE  pos'[q][Feed(q)] # NotJoined \/ Opens(q, Now)'
    <2>1. i \in Frames
      <3> SUFFICES ASSUME i \in Added PROVE FALSE BY DEF Added
      <3>1. PICK n : Written(p, n, log'[i]) BY <1>5
      <3> QED BY <1>6, <3>1 DEF Written, Asking
    <2>2. log'[i] = log[i] BY <1>2, <2>1 DEF LogKept
    <2>3. Active(Cached)
      <3>1. ~Fresh(Cached) BY <1>6, <2>1, <2>2 DEF Fresh, Foreign, Asking
      <3> QED BY <1>1, <1>6, <3>1, ActiveProc
    <2>4. pos[q][Feed(q)] # NotJoined \/ Opens(q, Now) BY <1>6, <2>1, <2>2, <2>3 DEF StateInv, Asking
    <2> QED BY <1>1, <1>2, <2>1, <2>4, ReadsIdle DEF Idle
  <1>7. ASSUME Active(q), app[Cached].pid <= 1, NEW i \in Frames',
               log'[i].type \in {"RequestCachedDone", "RequestStart"}, log'[i].arg = q
        PROVE  app[q].fed \/ \E k \in Frames' : k < i /\ Fed(q, k)'
    <2>1. CASE i \in Frames
      <3>1. log'[i] = log[i] BY <1>2, <2>1 DEF LogKept
      <3>2. app[q].fed \/ \E k \in Frames : k < i /\ Fed(q, k) BY <1>7, <2>1, <3>1 DEF StateInv
      <3> QED BY <1>1, <1>2, <3>2, ReadsIdle
    <2>2. CASE i \in Added
      <3>1. PICK n : (GoodStep(p, n) \/ ThrowStep(p, n)) /\ Written(p, n, log'[i]) BY <1>5, <2>2
      <3>2. log'[i].type = "RequestCachedDone" /\ p = Cached BY <1>7, <3>1 DEF Written
      <3> QED BY <1>7, <2>2, <3>1, <3>2, FedBefore
    <2> QED BY <2>1, <2>2 DEF Added
  <1>8. app'[q] = app[q] BY <1>2 DEF Idle
  <1>9. app[q].pid = 1 /\ app[Cached].pid <= 1 /\ app[q].started => app[q].fed BY DEF StateInv
  <1>10. Active(q)' /\ Active(Cached)' =>
           \A i \in Frames' : Asking(i)' /\ log'[i].arg = q => pos'[q][Feed(q)] # NotJoined \/ Opens(q, Now)'
    BY <1>3, <1>6
  <1>11. Active(q)' /\ app'[Cached].pid <= 1 =>
           \A i \in Frames' : log'[i].type \in {"RequestCachedDone", "RequestStart"} /\ log'[i].arg = q =>
             app'[q].fed \/ \E k \in Frames' : k < i /\ Fed(q, k)'
    BY <1>3, <1>4, <1>7, <1>8
  <1>12. app'[q].pid = 1 /\ app'[Cached].pid <= 1 /\ app'[q].started => app'[q].fed BY <1>4, <1>8, <1>9
  <1> QED BY <1>10, <1>11, <1>12 DEF StateInv, Asking


\* What q reads of cached's journal stays open when q handles frame i.
LEMMA OpenGood ==
  ASSUME TypeInv, NEW q \in Apps, JoinInv(q), MetInv(Cached), Active(Cached), NEW i, GoodStep(q, i),
         pos[q][Feed(q)] # NotJoined \/ Opens(q, Now)
  PROVE  pos'[q][Feed(q)] # NotJoined \/ Opens(q, Now)'
  <1>1. /\ q \in Nodes /\ Feed(q) \in Journals /\ Handles(q, i) /\ i \in Frames /\ LogKept
        /\ pos'[q][Feed(q)] = Cursor(q, i, Feed(q))
    BY FeedOf DEF GoodStep, HandleStep, Handles
  <1>2. i \in Nat /\ i > 0 /\ log[i].from \in Nat BY <1>1, FrameOf
  <1>3. ~(Is(i, "Deregister") /\ Cached \in log[i].arg) BY <1>1 DEF MetInv
  <1>4. CASE pos[q][Feed(q)] # NotJoined
    <2>1. Cursor(q, i, Feed(q)) # NotJoined BY <1>1, <1>2, <1>3, <1>4, FeedCursor DEF NotJoined
    <2> QED BY <1>1, <2>1
  <1>5. ASSUME NEW r \in Due(q), Is(r, "RequestReadFrom"), log[r].arg = Cached
        PROVE  pos'[q][Feed(q)] # NotJoined \/ Opens(q, Now)'
    <2>1. CASE r = i
      <3>1. Cursor(q, i, Feed(q)) # NotJoined BY <1>1, <1>2, <1>3, <1>5, <2>1, FeedCursor DEF NotJoined
      <3> QED BY <1>1, <3>1
    <2>2. CASE r # i
      <3>1. r \in Due(q)' /\ log'[r] = log[r] BY <1>1, <2>2, DueRead
      <3>2. r < Now'
        <4>1. r \in Nat /\ r <= Len(log) BY <1>1, DueOf
        <4> QED BY <1>1, <4>1 DEF LogKept, Now
      <3> QED BY <1>5, <3>1, <3>2 DEF Opens, Is
    <2> QED BY <2>1, <2>2
  <1> QED BY <1>4, <1>5 DEF Opens

\* q comes to the state it will read, in a cursor that is set already.
LEMMA FedJoined ==
  ASSUME TypeInv, NEW q \in Apps, GoneInv, StateInv(q), Active(q), app[Cached].pid <= 1, NEW i, GoodStep(q, i),
         NEW k \in Frames, Fed(q, k), pos[q][Feed(q)] # NotJoined
  PROVE  app'[q].fed \/ Fed(q, k)'
  <1>1. /\ q \in Nodes /\ Feed(q) \in Journals /\ Handles(q, i) /\ i \in Frames /\ LogKept
        /\ pos'[q][Feed(q)] = Cursor(q, i, Feed(q))
    BY FeedOf DEF GoodStep, HandleStep, Handles
  <1>2. i \in Nat /\ k \in Nat /\ k <= Len(log) /\ log[k].j = Feed(q)
    BY <1>1, FrameOf DEF Fed, Is, Shape, Feed
  <1>3. pos[q][Feed(q)] < k /\ Is(k, "State") BY DEF Fed, Reads
  <1>4. k \in Unread(q) BY <1>2, <1>3 DEF Unread, Frames
  <1>5. i <= k BY <1>1, <1>4 DEF Handles, IsNext
  <1>6. log'[k] = log[k] BY <1>1 DEF LogKept
  <1>7. CASE i = k
    <2>1. app'[q].fed = (app[q].fed \/ ~app[q].started) BY <1>3, <1>7 DEF GoodStep
    <2>2. app[q].started => app[q].fed BY DEF StateInv, Active
    <2> QED BY <2>1, <2>2
  <1>8. CASE i # k
    <2>1. i < k BY <1>2, <1>5, <1>8
    <2>2. ~(Is(i, "Deregister") /\ Cached \in log[i].arg)
      <3> SUFFICES ASSUME Is(i, "Deregister"), Cached \in log[i].arg PROVE FALSE OBVIOUS
      <3>1. k < i BY <1>1, <1>3 DEF GoneInv
      <3> QED BY <1>2, <2>1, <3>1
    <2>3. Cursor(q, i, Feed(q)) \in {i, pos[q][Feed(q)]} BY <1>1, <2>2, FeedCursor
    <2>4. pos'[q][Feed(q)] < k /\ pos'[q][Feed(q)] # NotJoined
      <3>1. i > 0 BY <1>1, FrameOf
      <3> QED BY <1>1, <1>2, <1>3, <2>1, <2>3, <3>1 DEF NotJoined
    <2>5. Reads(q, k)' BY <2>4 DEF Reads
    <2> QED BY <1>6, <2>5 DEF Fed, Is
  <1> QED BY <1>7, <1>8

\* The same where it will join the journal first.
LEMMA FedOpens ==
  ASSUME TypeInv, NEW q \in Apps, JoinInv(q), Active(q), NEW i, GoodStep(q, i),
         NEW k \in Frames, Fed(q, k), pos[q][Feed(q)] = NotJoined
  PROVE  Fed(q, k)'
  <1>1. /\ q \in Nodes /\ Feed(q) \in Journals /\ Handles(q, i) /\ i \in Frames /\ LogKept
        /\ pos'[q][Feed(q)] = Cursor(q, i, Feed(q))
    BY FeedOf DEF GoodStep, HandleStep, Handles
  <1>2. i \in Nat /\ k \in Nat /\ log[i].from \in Nat /\ log[i].from < i /\ log'[k] = log[k]
    BY <1>1, FrameOf DEF LogKept
  <1>3. PICK r \in Due(q) : r < k /\ Is(r, "RequestReadFrom") /\ log[r].arg = Cached
    BY DEF Fed, Reads, Opens
  <1>4. i <= r /\ r \in Nat BY <1>1, NextDue, DueOf
  <1>5. log[i].j # Feed(q) BY <1>1 DEF Handles
  <1>6. CASE Is(i, "RequestReadFrom") /\ log[i].arg = Cached
    <2>1. pos'[q][Feed(q)] = log[i].from BY <1>1, <1>5, <1>6, FeedCursor
    <2>2. log[i].from < k /\ log[i].from # NotJoined BY <1>2, <1>3, <1>4 DEF NotJoined
    <2>3. Reads(q, k)' BY <2>1, <2>2 DEF Reads
    <2> QED BY <1>2, <2>3 DEF Fed, Is
  <1>7. CASE ~(Is(i, "RequestReadFrom") /\ log[i].arg = Cached)
    <2>1. pos'[q][Feed(q)] = NotJoined BY <1>1, <1>5, <1>7, FeedCursor
    <2>2. r # i BY <1>3, <1>7
    <2>3. r \in Due(q)' /\ log'[r] = log[r] BY <1>1, <2>2, DueRead
    <2>4. Opens(q, k)' BY <1>3, <2>3 DEF Opens, Is
    <2>5. Reads(q, k)' BY <2>1, <2>4 DEF Reads
    <2> QED BY <1>2, <2>5 DEF Fed, Is
  <1> QED BY <1>6, <1>7

\* When q is told to start, no state is left to be read.
LEMMA FedAtStart ==
  ASSUME TypeInv, NEW q \in Apps, JoinInv(q), StateInv(q), Active(q), app[Cached].pid <= 1,
         NEW i, Handles(q, i), Is(i, "RequestStart")
  PROVE  app[q].fed
  <1>1. q \in Nodes /\ i \in Frames /\ log[i].arg = q /\ i \in Nat BY NodeNames, HandledKinds DEF Handles
  <1> SUFFICES ASSUME ~app[q].fed PROVE FALSE OBVIOUS
  <1>2. PICK k \in Frames : k < i /\ Fed(q, k) BY <1>1 DEF StateInv, Is
  <1>3. k \in Nat /\ k <= Len(log) /\ log[k].j = Feed(q) BY <1>2, FrameOf DEF Fed, Is, Shape, Feed
  <1>4. CASE pos[q][Feed(q)] # NotJoined
    <2>1. pos[q][Feed(q)] < k BY <1>2, <1>4 DEF Fed, Reads
    <2>2. k \in Unread(q) BY <1>3, <1>4, <2>1 DEF Unread, Frames
    <2>3. i <= k BY <2>2 DEF Handles, IsNext
    <2> QED BY <1>1, <1>2, <1>3, <2>3
  <1>5. CASE pos[q][Feed(q)] = NotJoined
    <2>1. PICK r \in Due(q) : r < k BY <1>2, <1>5 DEF Fed, Reads, Opens
    <2>2. i <= r /\ r \in Nat BY <1>1, NextDue, DueOf
    <2> QED BY <1>1, <1>2, <1>3, <2>1, <2>2
  <1> QED BY <1>4, <1>5

LEMMA StateGood ==
  ASSUME TypeInv, NEW q \in Apps, JoinInv(q), MetInv(Cached), GoneInv, StateInv(q), NEW i, GoodStep(q, i)
  PROVE  StateInv(q)'
  <1>1. q \in Nodes /\ Cached \in Nodes /\ q # Cached BY NodeNames
  <1>2. /\ Handles(q, i) /\ i \in Frames /\ LogKept /\ app[q].up /\ app'[q].up /\ app'[q].pid = app[q].pid
        /\ app'[q].started = (app[q].started \/ Is(i, "RequestStart"))
        /\ app'[q].fed = (app[q].fed \/ (Is(i, "State") /\ ~app[q].started))
        /\ app'[Cached] = app[Cached]
    BY <1>1 DEF GoodStep, HandleStep, Handles, OthersSame
  <1>3. (Active(q)' <=> Active(q)) /\ (Active(Cached)' <=> Active(Cached)) BY <1>2 DEF Active
  <1>4. \A k \in Added : Written(q, i, log'[k]) BY WrittenBy
  <1>5. ASSUME Active(q), Active(Cached), NEW k \in Frames', Asking(k)', log'[k].arg = q
        PROVE  pos'[q][Feed(q)] # NotJoined \/ Opens(q, Now)'
    <2>1. pos[q][Feed(q)] # NotJoined \/ Opens(q, Now)
      <3>1. CASE k \in Frames
        <4>1. log'[k] = log[k] BY <1>2, <3>1 DEF LogKept
        <4> QED BY <1>5, <3>1, <4>1 DEF StateInv, Asking
      <3>2. CASE k \in Added
        <4>1. Is(i, "CachedReadyToRead") BY <1>1, <1>4, <1>5, <3>2 DEF Written, Asking
        <4>2. log[i].arg = q BY <1>2, <4>1, HandledKinds
        <4> QED BY <1>2, <1>5, <4>1, <4>2 DEF StateInv, Is
      <3> QED BY <3>1, <3>2 DEF Added
    <2> QED BY <1>5, <2>1, OpenGood
  <1>6. ASSUME Active(q), app[Cached].pid <= 1, NEW n \in Frames',
               log'[n].type \in {"RequestCachedDone", "RequestStart"}, log'[n].arg = q
        PROVE  app'[q].fed \/ \E k \in Frames' : k < n /\ Fed(q, k)'
    <2>1. n \in Frames
      <3> SUFFICES ASSUME n \in Added PROVE FALSE BY DEF Added
      <3> QED BY <1>1, <1>4, <1>6 DEF Written
    <2>2. log'[n] = log[n] BY <1>2, <2>1 DEF LogKept
    <2>3. app[q].fed \/ \E k \in Frames : k < n /\ Fed(q, k) BY <1>6, <2>1, <2>2 DEF StateInv
    <2>4. CASE app[q].fed BY <1>2, <2>4
    <2>5. ASSUME NEW k \in Frames, k < n, Fed(q, k) PROVE app'[q].fed \/ Fed(q, k)'
      BY <1>1, <1>6, <2>5, FedJoined, FedOpens
    <2>6. \A k \in Frames : k \in Frames' BY <1>2 DEF LogKept
    <2> QED BY <2>3, <2>4, <2>5, <2>6
  <1>7. ASSUME app'[q].pid = 1, app[Cached].pid <= 1, app'[q].started PROVE app'[q].fed
    <2>1. Active(q) BY <1>2, <1>7 DEF Active
    <2>2. CASE app[q].started BY <1>2, <1>7, <2>2 DEF StateInv
    <2>3. CASE Is(i, "RequestStart")
      <3>1. app[q].fed BY <1>1, <1>2, <1>7, <2>1, <2>3, FedAtStart
      <3> QED BY <1>2, <3>1
    <2> QED BY <1>2, <1>7, <2>2, <2>3
  <1>8. Active(q)' /\ Active(Cached)' =>
           \A k \in Frames' : Asking(k)' /\ log'[k].arg = q => pos'[q][Feed(q)] # NotJoined \/ Opens(q, Now)'
    BY <1>3, <1>5
  <1>9. Active(q)' /\ app'[Cached].pid <= 1 =>
           \A n \in Frames' : log'[n].type \in {"RequestCachedDone", "RequestStart"} /\ log'[n].arg = q =>
             app'[q].fed \/ \E k \in Frames' : k < n /\ Fed(q, k)'
    BY <1>2, <1>3, <1>6
  <1> QED BY <1>2, <1>7, <1>8, <1>9 DEF StateInv, Asking


LEMMA StateBoot ==
  ASSUME TypeInv, NEW q \in Apps, MetInv(q), BootStep(q)
  PROVE  StateInv(q)'
  <1>1. q \in Nodes BY NodeNames
  <1>2. (Active(q)' => Fresh(q)) /\ log' = log /\ Frames' = Frames BY <1>1, BootFresh
  <1>3. ~app'[q].started BY DEF BootStep
  <1>4. ASSUME Fresh(q), NEW i \in Frames, log[i].arg = q PROVE log[i].type \notin {"CachedReadyToRead",
          "RequestCached", "RequestCachedDone", "RequestStart"}
    <2>1. Foreign(log[i], q) BY <1>4 DEF Fresh
    <2>2. Shape(log[i]) BY FrameOf
    <2> QED BY <1>4, <2>1, <2>2 DEF Foreign, Shape
  <1> QED BY <1>2, <1>3, <1>4 DEF StateInv

LEMMA StateProc ==
  ASSUME TypeInv, NEW q \in Apps, MetInv(q), JoinInv(q), MetInv(Cached), JoinInv(Cached), LookupInv(Cached),
         AnswerInv, GoneInv, StateInv(q), NEW p \in Nodes, ProcMove(p)
  PROVE  StateInv(q)'
  <1>1. q \in Nodes /\ Cached \in Nodes /\ q # Cached BY NodeNames
  <1>2. CASE p # q BY <1>2, StateIdle
  <1>3. CASE \E i : GoodStep(q, i) BY <1>3, StateGood
  <1>4. CASE BootStep(q) BY <1>4, StateBoot
  <1>5. CASE CrashStep(q) \/ \E i : ThrowStep(q, i)
    <2>1. /\ ~app'[q].up /\ app'[q].pid = app[q].pid
          /\ app'[q].started = app[q].started /\ app'[q].fed = app[q].fed
          /\ app'[Cached] = app[Cached]
      BY <1>1, <1>5 DEF CrashStep, ThrowStep, HandleStep, OthersSame
    <2> QED BY <2>1 DEF StateInv, Active
  <1> QED BY <1>2, <1>3, <1>4, <1>5 DEF ProcMove

LEMMA GoneMaster ==
  ASSUME TypeInv, GoneInv, MasterMove
  PROVE  GoneInv'
  <1>1. Cached \in Nodes BY NodeNames
  <1>2. LogKept /\ app' = app BY <1>1, MasterIdle DEF Idle
  <1>3. ASSUME app[Cached].pid <= 1, NEW d \in Frames', NEW k \in Frames', log'[d].type = "Deregister",
               Cached \in log'[d].arg, log'[k].type = "State"
        PROVE  k < d
    <2>1. k \in Frames BY <1>3, MasterKinds DEF Added
    <2>2. CASE d \in Frames
      <3>1. log'[d] = log[d] /\ log'[k] = log[k] BY <1>2, <2>1, <2>2 DEF LogKept
      <3> QED BY <1>3, <2>1, <2>2, <3>1 DEF GoneInv, Is
    <2>3. CASE d \in Added
      <3>1. k \in Nat /\ k <= Len(log) BY <2>1, FrameOf
      <3> QED BY <1>2, <2>3, <3>1 DEF LogKept
    <2> QED BY <2>2, <2>3 DEF Added
  <1> QED BY <1>2, <1>3 DEF GoneInv, Is

LEMMA GoneProc ==
  ASSUME TypeInv, MetInv(Cached), GoneInv, NEW p \in Nodes, ProcMove(p)
  PROVE  GoneInv'
  <1>1. Cached \in Nodes BY NodeNames
  <1>2. LogKept BY ProcIdle
  <1>3. app'[Cached].pid <= 1 => app[Cached].pid <= 1
    <2>1. app'[Cached].pid = app[Cached].pid \/ app'[Cached].pid = app[Cached].pid + 1
      <3>1. CASE p # Cached BY <1>1, <3>1, ProcIdle DEF Idle
      <3>2. CASE p = Cached BY <3>2 DEF ProcMove, GoodStep, ThrowStep, HandleStep, BootStep, CrashStep
      <3> QED BY <3>1, <3>2
    <2>2. app[Cached].pid \in Nat BY <1>1, RunOf
    <2> QED BY <2>1, <2>2
  <1>4. ASSUME app[Cached].pid <= 1, NEW d \in Frames', NEW k \in Frames', log'[d].type = "Deregister",
               Cached \in log'[d].arg, log'[k].type = "State"
        PROVE  k < d
    <2>1. \A i \in Added : \E n : (GoodStep(p, n) \/ ThrowStep(p, n)) /\ Written(p, n, log'[i])
      <3> TAKE i \in Added
      <3>1. PICK n : GoodStep(p, n) \/ ThrowStep(p, n)
        <4>1. ~(BootStep(p) \/ CrashStep(p)) BY DEF BootStep, CrashStep, Added, Frames
        <4> QED BY <4>1 DEF ProcMove
      <3> QED BY <3>1, WrittenBy
    <2>2. d \in Frames
      <3> SUFFICES ASSUME d \in Added PROVE FALSE BY DEF Added
      <3>1. PICK n : Written(p, n, log'[d]) BY <2>1
      <3> QED BY <1>4, <3>1 DEF Written
    <2>3. log'[d] = log[d] BY <1>2, <2>2 DEF LogKept
    <2>4. CASE k \in Frames
      <3>1. log'[k] = log[k] BY <1>2, <2>4 DEF LogKept
      <3> QED BY <1>4, <2>2, <2>3, <2>4, <3>1 DEF GoneInv, Is
    <2>5. CASE k \in Added
      <3>1. PICK n : (GoodStep(p, n) \/ ThrowStep(p, n)) /\ Written(p, n, log'[k]) BY <2>1, <2>5
      <3>2. p = Cached BY <1>4, <3>1 DEF Written
      <3>3. app[Cached].up BY <3>1, <3>2 DEF GoodStep, ThrowStep, HandleStep, Handles
      <3>4. app[Cached].pid \in Nat BY <1>1, RunOf
      <3>5. Active(Cached) BY <1>4, <3>3, <3>4 DEF MetInv, Active
      <3> QED BY <1>4, <2>2, <2>3, <3>5 DEF MetInv, Is
    <2> QED BY <2>4, <2>5 DEF Added
  <1> QED BY <1>3, <1>4 DEF GoneInv, Is

-----------------------------------------------------------------------------
(* the invariant *)

LEMMA PracticeMaster ==
  ASSUME PracticeInv, TypeInv', MasterMove
  PROVE  PracticeInv'
  <1>1. /\ TypeInv /\ MasterInv /\ AnswerInv /\ BrokenInv /\ GoneInv /\ LoneInv /\ Cached \in Nodes
        /\ \A q \in Nodes : MetInv(q) /\ JoinInv(q) /\ LookupInv(q) /\ BeliefInv(q)
        /\ \A q \in Apps : StateInv(q)
    BY NodeNames DEF PracticeInv
  <1>2. MasterInv' /\ AnswerInv' /\ BrokenInv' /\ GoneInv' /\ LoneInv'
    BY <1>1, MasterKept, AnswerMaster, BrokenMaster, GoneMaster, LoneMaster
  <1>3. \A q \in Nodes : MetInv(q)' /\ JoinInv(q)' /\ LookupInv(q)' /\ BeliefInv(q)'
    BY <1>1, MetMaster, JoinMaster, LookupMaster, BeliefMaster
  <1>4. \A q \in Apps : StateInv(q)' BY <1>1, StateMaster
  <1> QED BY <1>2, <1>3, <1>4 DEF PracticeInv

LEMMA PracticeProc ==
  ASSUME PracticeInv, TypeInv', NEW p \in Nodes, ProcMove(p)
  PROVE  PracticeInv'
  <1>1. /\ TypeInv /\ MasterInv /\ AnswerInv /\ BrokenInv /\ GoneInv /\ LoneInv /\ Cached \in Nodes
        /\ Apps \subseteq Nodes
        /\ \A q \in Nodes : MetInv(q) /\ JoinInv(q) /\ LookupInv(q) /\ BeliefInv(q)
        /\ \A q \in Apps : StateInv(q)
    BY NodeNames DEF PracticeInv
  <1>2. MasterInv' /\ AnswerInv' /\ BrokenInv' /\ GoneInv' /\ LoneInv'
    BY <1>1, MasterKept, AnswerProc, BrokenProc, GoneProc, LoneProc
  <1>3. \A q \in Nodes : MetInv(q)' /\ JoinInv(q)' /\ LookupInv(q)' /\ BeliefInv(q)'
    BY <1>1, MetProc, JoinProc, LookupProc, BeliefProc
  <1>4. \A q \in Apps : StateInv(q)' BY <1>1, StateProc
  <1> QED BY <1>2, <1>3, <1>4 DEF PracticeInv

LEMMA PracticeSame ==
  ASSUME PracticeInv, UNCHANGED vars
  PROVE  PracticeInv'
  <1>1. TypeInv' /\ MasterInv' /\ AnswerInv' /\ BrokenInv' /\ GoneInv' /\ LoneInv'
    BY DEF PracticeInv, vars, TypeInv, LogInv, Frames, MasterInv, AnswerInv, BrokenInv, GoneInv, LoneInv,
           Active, Writes, Due, Is
  <1>2. ASSUME NEW q \in Nodes PROVE MetInv(q)' /\ JoinInv(q)'
    BY DEF PracticeInv, vars, MetInv, JoinInv, Active, NotMet, Fresh, Settled, Due, Frames, Names, Is
  <1>3. ASSUME NEW q \in Nodes PROVE LookupInv(q)'
    BY DEF PracticeInv, vars, LookupInv, Active, Now, Knows, Writes, Due, Frames, Is
  <1>4. ASSUME NEW q \in Nodes PROVE BeliefInv(q)'
    BY DEF PracticeInv, vars, BeliefInv, Active, Settled, Believes, Drops, Names, Due, Frames, Is
  <1>5. ASSUME NEW q \in Apps PROVE StateInv(q)'
    BY DEF PracticeInv, vars, StateInv, Active, Opens, Reads, Fed, Now, Due, Frames, Is
  <1> QED BY <1>1, <1>2, <1>3, <1>4, <1>5 DEF PracticeInv

LEMMA PracticeStep ==
  ASSUME PracticeInv, [Next]_vars
  PROVE  PracticeInv'
  <1>1. TypeInv /\ MasterInv /\ \A q \in Nodes : JoinInv(q) BY DEF PracticeInv
  <1>2. CASE CheckIn
    <2>1. TypeInv' /\ MasterMove BY <1>1, <1>2, CheckInEffect DEF MasterMove
    <2> QED BY <2>1, PracticeMaster
  <1>3. CASE HealthCheck
    <2>1. TypeInv' /\ MasterMove BY <1>1, <1>3, HealthEffect DEF MasterMove
    <2> QED BY <2>1, PracticeMaster
  <1>4. CASE MasterFrame
    <2>1. TypeInv' /\ MasterMove BY <1>1, <1>4, RequestEffect DEF MasterMove
    <2> QED BY <2>1, PracticeMaster
  <1>5. ASSUME NEW q \in Nodes, Boot(q) \/ Crash(q) \/ Frame(q) PROVE PracticeInv'
    <2>1. TypeInv' /\ ProcMove(q) BY <1>1, <1>5, BootEffect, CrashEffect, FrameEffect DEF ProcMove
    <2> QED BY <2>1, PracticeProc
  <1>6. CASE UNCHANGED vars BY <1>6, PracticeSame
  <1> QED BY <1>2, <1>3, <1>4, <1>5, <1>6 DEF Next

LEMMA PracticeStarts ==
  ASSUME Init
  PROVE  PracticeInv
  <1>1. /\ log = << >> /\ Len(log) = 0 /\ Frames = {}
    BY DEF Init, Frames
  <1>2. /\ mail = {} /\ crashes = 0 /\ broken = {} /\ \A q \in Nodes : app[q] = Down /\ livepid[q] = 0
        /\ \A q \in Procs : writers[q] = {} /\ locations[q] = {} /\ registry[q] = {}
        /\ \A q \in Procs, j \in Journals : pos[q][j] = NotJoined
    BY DEF Init
  <1>3. /\ ~Down.up /\ Down.pid = 0 /\ Down.born = 0 /\ ~Down.fed /\ ~Down.started BY DEF Down
  <1>4. TypeInv
    <2>1. log \in Seq(LogFrames) /\ LogInv BY <1>1 DEF LogInv
    <2>2. app \in [Nodes -> Runs]
      <3>1. Down \in Runs BY DEF Down, Runs
      <3> QED BY <3>1 DEF Init
    <2>3. pos \in [Procs -> [Journals -> Int]] /\ livepid \in [Nodes -> Nat] BY DEF Init, NotJoined
    <2>4. writers \in [Procs -> SUBSET Procs] /\ locations \in [Procs -> SUBSET Nodes]
          /\ registry \in [Procs -> SUBSET Nodes]
      BY DEF Init
    <2>5. \A q \in Nodes : app[q].pid <= MaxCrash + 1 /\ app[q].born <= Len(log)
      BY <1>1, <1>2, <1>3, NodeNames
    <2>6. \A q \in Procs, j \in Journals : pos[q][j] \in NotJoined .. Len(log) BY <1>1, <1>2 DEF NotJoined
    <2> QED BY <1>2, <2>1, <2>2, <2>3, <2>4, <2>5, <2>6 DEF TypeInv
  <1>5. \A q \in Nodes : ~Active(q) /\ ~Settled(q) /\ app[q].pid = 0 /\ ~app[q].up BY <1>2, <1>3 DEF Active, Settled
  <1>6. MasterInv /\ AnswerInv /\ BrokenInv /\ GoneInv /\ LoneInv
    BY <1>1, <1>2, <1>5, NodeNames DEF MasterInv, AnswerInv, BrokenInv, GoneInv, LoneInv
  <1>7. ASSUME NEW q \in Nodes PROVE MetInv(q) /\ JoinInv(q) /\ LookupInv(q) /\ BeliefInv(q)
    <2>1. Fresh(q) BY <1>1, <1>2, NodeNames DEF Fresh
    <2>2. MetInv(q) BY <1>1, <1>2, <1>5, <2>1 DEF MetInv
    <2>3. JoinInv(q)
      <3>1. \A j \in Journals : pos[q][j] = NotJoined BY <1>2, NodeNames
      <3> QED BY <1>5, <3>1, JournalOf DEF JoinInv
    <2>4. LookupInv(q) /\ BeliefInv(q) BY <1>5 DEF LookupInv, BeliefInv
    <2> QED BY <2>2, <2>3, <2>4
  <1>8. ASSUME NEW q \in Apps PROVE StateInv(q) BY <1>2, <1>3, <1>5, NodeNames DEF StateInv
  <1> QED BY <1>4, <1>6, <1>7, <1>8 DEF PracticeInv


LEMMA PracticeInvariant == Spec => []PracticeInv
  <1>1. Init => PracticeInv BY PracticeStarts
  <1>2. PracticeInv /\ [Next]_vars => PracticeInv' BY PracticeStep
  <1> QED BY <1>1, <1>2, PTL DEF Spec

LEMMA TypesHold ==
  ASSUME PracticeInv
  PROVE  TypeOK
  <1>1. TypeInv BY DEF PracticeInv
  <1>2. ASSUME NEW i \in 1 .. Len(log) PROVE log[i].j \in Journals /\ log[i].from \in 0 .. i - 1
    BY <1>1, FrameOf DEF Frames
  <1>3. ASSUME NEW q \in Nodes PROVE app[q].pid \in 0 .. MaxCrash + 1 /\ app[q].born \in 0 .. Len(log)
    BY <1>1, RunOf, NodeNames
  <1>4. mail \subseteq [q : Nodes, pid : 1 .. MaxCrash + 1] /\ broken \subseteq Nodes BY <1>1 DEF TypeInv
  <1>5. \A q \in Procs, j \in Journals : pos[q][j] \in NotJoined .. Len(log) BY <1>1 DEF TypeInv
  <1>6. \A q \in Procs : writers[q] \subseteq Procs /\ locations[q] \cup registry[q] \subseteq Nodes
    BY <1>1 DEF TypeInv
  <1> QED BY <1>2, <1>3, <1>4, <1>5, <1>6 DEF TypeOK

LEMMA LookupsHold ==
  ASSUME PracticeInv
  PROVE  NoMissingLookup
  BY DEF PracticeInv, BrokenInv, NoMissingLookup, FirstRun

LEMMA StartsHold ==
  ASSUME PracticeInv
  PROVE  FirstStartsFed
  BY DEF PracticeInv, StateInv, FirstStartsFed, FirstRun

\* A registered process that has read everything has nothing due.
LEMMA NothingDue ==
  ASSUME TypeInv, NEW q \in Nodes, JoinInv(q), Settled(q), Unread(q) = {}
  PROVE  Due(q) = {}
  <1>1. pos[q][Pub] # NotJoined BY DEF JoinInv, Settled
  <1>2. ASSUME NEW k \in Due(q), log[k].j = Pub PROVE FALSE
    <2>1. k \in 1 .. Len(log) BY <1>2, DueOf DEF Frames
    <2>2. pos[q][Pub] < k
      <3>1. Pub # Cmd(q) BY JournalOf
      <3> QED BY <1>2, <3>1 DEF Due
    <2>3. k \in Unread(q) BY <1>1, <1>2, <2>1, <2>2 DEF Unread
    <2> QED BY <2>3
  <1>3. pos[q][Cmd(q)] # NotJoined BY <1>2 DEF JoinInv
  <1>4. ASSUME NEW k \in Due(q), log[k].j = Cmd(q) PROVE FALSE
    <2>1. k \in 1 .. Len(log) BY <1>4, DueOf DEF Frames
    <2>2. pos[q][Cmd(q)] < k
      <3>1. Pub # Cmd(q) BY JournalOf
      <3> QED BY <1>4, <3>1 DEF Due
    <2>3. k \in Unread(q) BY <1>3, <1>4, <2>1, <2>2 DEF Unread
    <2> QED BY <2>3
  <1> QED BY <1>2, <1>4, DueOf

LEMMA AgreementHolds ==
  ASSUME PracticeInv
  PROVE  RegistryAgrees
  <1> SUFFICES ASSUME NEW q \in Nodes, FirstRun(q) \/ crashes <= 1, q \in registry[Master],
                      Alive(q, livepid[q]), Unread(q) = {}
               PROVE  registry[q] = registry[Master]
    BY DEF RegistryAgrees
  <1>1. TypeInv /\ MetInv(q) /\ JoinInv(q) /\ BeliefInv(q) BY DEF PracticeInv
  <1>2. Settled(q) /\ app[q].up /\ app[q].pid > 0 BY <1>1 DEF Settled, Alive, MetInv
  <1>3. Due(q) = {} BY <1>1, <1>2, NothingDue
  <1>4. \A x : Believes(q, x) <=> x \in registry[q] BY <1>3 DEF Believes
  <1>5. registry[q] \subseteq Nodes BY <1>1, RunOf
  <1>6. registry[Master] \subseteq registry[q] BY <1>1, <1>2, <1>4 DEF BeliefInv
  <1>7. ASSUME NEW x \in registry[q], x # q PROVE x \in registry[Master]
    <2>1. x \in Nodes BY <1>5
    <2>2. CASE Active(q) BY <1>1, <1>4, <1>7, <2>1, <2>2 DEF BeliefInv
    <2>3. CASE ~Active(q)
      <3>1. crashes <= 1 /\ crashes \in Nat /\ app[q].pid \in Nat BY <1>1, <1>2, <2>3, RunOf DEF Active, FirstRun, TypeInv
      <3>2. ~(app[q].pid = 0 \/ Active(q)) BY <1>2, <2>3
      <3>3. crashes = 1
        <4>1. crashes # 0 BY <3>2 DEF PracticeInv, LoneInv
        <4> QED BY <3>1, <4>1
      <3>4. app[x].pid = 0 \/ Active(x) BY <1>7, <2>1, <3>2, <3>3 DEF PracticeInv, LoneInv
      <3>5. MetInv(x) BY <2>1 DEF PracticeInv
      <3>6. ~Fresh(x) BY <1>7 DEF Fresh
      <3> QED BY <3>4, <3>5, <3>6 DEF MetInv, NotMet
    <2> QED BY <2>2, <2>3
  <1> QED BY <1>6, <1>7

\* Whatever the processes do, whoever is killed and started again, every frame is in a
\* journal of the protocol and no process has read past the present.
THEOREM PracticeTypes == Spec => []TypeOK
  BY PracticeInvariant, TypesHold, PTL

\* get_writer and get_location find what they look up in every process that runs for the
\* first time: of all who are told to use a writer or a location, each was told of it in an
\* earlier frame of the journals it merges.
THEOREM LookupsFound == Spec => []NoMissingLookup
  BY PracticeInvariant, LookupsHold, PTL

\* A process that runs for the first time has its stored state when RequestStart makes it
\* start (feed_state_data before expect_start), as long as cached was started once.
THEOREM StartsFed == Spec => []FirstStartsFed
  BY PracticeInvariant, StartsHold, PTL

\* A registered process that has read its journals takes for live exactly the processes the
\* master does, in its first run and as long as one process was killed at most.
THEOREM RegistriesAgree == Spec => []RegistryAgrees
  BY PracticeInvariant, AgreementHolds, PTL
=============================================================================
