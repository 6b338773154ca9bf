------------------------------ MODULE Practice ------------------------------
(***************************************************************************)
(* The start-up protocol of the processes.  An apprentice checks in with   *)
(* the master over nng, is registered, gets its journals, asks cached for  *)
(* its stored state and is told to start.  Everything but the check-in     *)
(* travels through journals, which outlive the processes; a process merges *)
(* the journals it has joined by gen_time (module MergeReader).            *)
(*                                                                         *)
(* Processes crash and are started again; the master notices a dead        *)
(* process only at its next health check.  The master itself stays up.     *)
(*                                                                         *)
(* log holds the frames of all journals in the order of their gen_time,    *)
(* the host-wide clock every live process adopts: a frame's index is its   *)
(* gen_time, and Len(log) is the present.  Frames of one kind that a       *)
(* handler writes in a row to one journal are one frame here, which        *)
(* carries the set of what they name.                                      *)
(***************************************************************************)
EXTENDS Integers, Sequences, FiniteSets

CONSTANTS Apps,       \* apprentices other than cached
          MaxCrash    \* bound: processes killed, and how often one is started again

Master == "master"
Cached == "cached"
Public == "public"

ASSUME PracticeAssumption == Apps \cap {Master, Cached, Public} = {} /\ MaxCrash \in Nat

Nodes == Apps \cup {Cached}
Procs == Nodes \cup {Master}

\* the journals <<source, dest>> of the protocol: the master's public journal, its
\* commands to a process, a process's requests, and the two ways to and from cached
Pub      == <<Master, Public>>
Cmd(q)   == <<Master, q>>
Req(q)   == <<q, Master>>
Journals == {Pub} \cup (Nodes \X {Master}) \cup ({Master} \X Nodes)
              \cup (Apps \X {Cached}) \cup ({Cached} \X Apps)

NotJoined == -1

VARIABLES
  log,        \* every journal's frames, in gen_time order
  mail,       \* check-ins on their way to the master
  app,        \* app[q]: the process of apprentice q
  pos,        \* reader_ of a process: per journal the gen_time it has read up to
  writers,    \* writers_: destinations a process can write to
  locations,  \* locations_: apprentices a process has been told of
  registry,   \* registry_: apprentices a process takes for live
  livepid,    \* master: the pid in the registered apprentice's Register
  crashes,    \* processes killed so far
  broken      \* processes that died of a lookup that threw

vars == <<log, mail, app, pos, writers, locations, registry, livepid, crashes, broken>>

Down == [up |-> FALSE, pid |-> 0, born |-> 0, asked |-> FALSE, fed |-> FALSE, started |-> FALSE]

Init ==
  /\ log = << >>
  /\ mail = {}
  /\ app = [q \in Nodes |-> Down]
  /\ pos = [q \in Procs |-> [j \in Journals |-> NotJoined]]
  /\ writers = [q \in Procs |-> {}]
  /\ locations = [q \in Procs |-> {}]
  /\ registry = [q \in Procs |-> {}]
  /\ livepid = [q \in Nodes |-> 0]
  /\ crashes = 0
  /\ broken = {}

----------------------------------------------------------------------------
(* frames and the merging reader *)

Msg(j, type, arg) == [j |-> j, type |-> type, arg |-> arg, from |-> 0]

ReadFromMsg(j, source, from) == [j |-> j, type |-> "RequestReadFrom", arg |-> source, from |-> from]

\* reader::join on cursors p: a journal that is joined already stays where it is
JoinFrom(p, j, t) == IF p[j] = NotJoined THEN [p EXCEPT ![j] = t] ELSE p

\* reader::disjoin: every journal whose source is in S
DropFrom(p, S) == [j \in Journals |-> IF j[1] \in S THEN NotJoined ELSE p[j]]

Unread(q) == {i \in 1 .. Len(log) : pos[q][log[i].j] # NotJoined /\ pos[q][log[i].j] < i}

\* frame i is the next one process q is handed
IsNext(q, i) == i \in Unread(q) /\ \A x \in Unread(q) : i <= x

\* what reader::next leaves the cursors of q at, once it has handled frame i
Stepped(q, i) == [pos[q] EXCEPT ![log[i].j] = i]

Alive(q, p) == app[q].up /\ app[q].pid = p

----------------------------------------------------------------------------
(* master *)

\* write_locations and write_registries: the locations known, then the ones that are live
Announce(j, known, live) == Msg(j, "Register", [known |-> known, live |-> live])

\* mutant: an app is told of itself only
RegisteredSelf(q) == {q}

\* registry_ when register_app comes to write_registries
Registered(q) == registry[Master] \cup {q}

\* register_app for a location that is not live.  master_app::on_register then drops
\* it again if its process is gone
Register(m) ==
  /\ m.q \notin registry[Master]
  /\ log' = log \o <<Announce(Pub, {m.q}, {m.q}),
                     Msg(Cmd(m.q), "RequestWriteTo", Master),
                     Announce(Cmd(m.q), locations[Master] \cup {m.q}, Registered(m.q))>>
                \o IF Alive(m.q, m.pid) THEN << >> ELSE <<Msg(Pub, "Deregister", {m.q})>>
  /\ locations' = [locations EXCEPT ![Master] = @ \cup {m.q}]
  /\ IF Alive(m.q, m.pid)
     THEN /\ registry' = [registry EXCEPT ![Master] = @ \cup {m.q}]
          /\ writers' = [writers EXCEPT ![Master] = @ \cup {m.q}]
          /\ pos' = [pos EXCEPT ![Master] = JoinFrom(@, Req(m.q), Len(log))]
          /\ livepid' = [livepid EXCEPT ![m.q] = m.pid]
     ELSE UNCHANGED <<registry, writers, pos, livepid>>

\* "location has already been registered live"
Refuse(m) ==
  /\ m.q \in registry[Master]
  /\ UNCHANGED <<log, locations, registry, writers, pos, livepid>>

\* a Register notice arrives over nng
CheckIn ==
  \E m \in mail :
    /\ mail' = mail \ {m}
    /\ Register(m) \/ Refuse(m)
    /\ UNCHANGED <<app, crashes, broken>>

\* health_check, with deregister_app for every location whose process is gone
HealthCheck ==
  LET dead == {q \in registry[Master] : ~Alive(q, livepid[q])}
  IN  /\ dead # {}
      /\ log' = Append(log, Msg(Pub, "Deregister", dead))
      /\ registry' = [registry EXCEPT ![Master] = @ \ dead]
      /\ writers' = [writers EXCEPT ![Master] = @ \ dead]
      /\ pos' = [pos EXCEPT ![Master] = DropFrom(@, dead)]
      /\ UNCHANGED <<mail, app, locations, livepid, crashes, broken>>

\* mutant: dest is not told to read from x
WriteToOneWay(x, dest, t) ==
  IF x \in registry[Master] THEN <<Msg(Cmd(x), "RequestWriteTo", dest)>> ELSE << >>

\* on_request_write_to: x wants to write to dest, asked at time t
WriteToFrames(x, dest, t) ==
  IF x \notin registry[Master] THEN << >>
  ELSE <<Msg(Cmd(x), "RequestWriteTo", dest)>>
       \o IF dest \in registry[Master] \cap writers[Master]
          THEN <<ReadFromMsg(Cmd(dest), x, t)>>
          ELSE << >>

\* mutant: the source is not told to write to x
ReadFromOneWay(x, source, from) ==
  IF {x, source} \subseteq registry[Master] THEN <<ReadFromMsg(Cmd(x), source, from)>> ELSE << >>

\* mutant: x is not told to read
ReadFromNoReply(x, source, from) ==
  IF {x, source} \subseteq registry[Master] THEN <<Msg(Cmd(source), "RequestWriteTo", x)>> ELSE << >>

\* on_request_read_from: x wants to read source
ReadFromFrames(x, source, from) ==
  IF {x, source} \subseteq registry[Master]
  THEN <<Msg(Cmd(source), "RequestWriteTo", x), ReadFromMsg(Cmd(x), source, from)>>
  ELSE << >>

\* check_cached_ready_to_read
ReadyFrames(x, source) ==
  IF source = Cached /\ x \in writers[Master] THEN <<Msg(Cmd(x), "CachedReadyToRead", x)>> ELSE << >>

\* the two handlers of RequestReadFrom, in the order react() subscribes them
OnReadFrom(f) ==
  ReadFromFrames(f.j[1], f.arg, f.from) \o ReadyFrames(f.j[1], f.arg)

\* on_request_cached_done: x is told to start, then who is there
DoneFrames(x) ==
  IF x \notin writers[Master] THEN << >>
  ELSE <<Msg(Cmd(x), "RequestStart", x), Announce(Cmd(x), locations[Master], registry[Master])>>

\* the master handles the next frame of the requests it has joined
MasterFrame ==
  \E i \in Unread(Master) :
    LET f == log[i] IN
    /\ IsNext(Master, i)
    /\ pos' = [pos EXCEPT ![Master] = Stepped(Master, i)]
    /\ \/ f.type = "RequestWriteTo" /\ log' = log \o WriteToFrames(f.j[1], f.arg, i)
       \/ f.type = "RequestReadFrom" /\ log' = log \o OnReadFrom(f)
       \/ f.type = "RequestCachedDone" /\ log' = log \o DoneFrames(f.arg)
    /\ UNCHANGED <<mail, app, writers, locations, registry, livepid, crashes, broken>>

----------------------------------------------------------------------------
(* apprentice and cached: the handlers of react(), one per frame type *)

\* the process of q is started: react() joins the master's public journal and checks in
Boot(q) ==
  /\ ~app[q].up
  /\ app[q].pid <= MaxCrash
  /\ app' = [app EXCEPT ![q] = [Down EXCEPT !.up = TRUE, !.pid = app[q].pid + 1, !.born = Len(log)]]
  /\ mail' = mail \cup {[q |-> q, pid |-> app[q].pid + 1]}
  /\ pos' = [pos EXCEPT ![q] = [j \in Journals |-> IF j = Pub THEN Len(log) ELSE NotJoined]]
  /\ writers' = [writers EXCEPT ![q] = {}]
  /\ locations' = [locations EXCEPT ![q] = {q, Cached}]
  /\ registry' = [registry EXCEPT ![q] = {}]
  /\ UNCHANGED <<log, livepid, crashes, broken>>

\* bound: processes are killed once cached is up
MayKill == crashes < MaxCrash /\ app[Cached].started

\* the process of q is killed
Crash(q) ==
  /\ app[q].up
  /\ MayKill
  /\ crashes' = crashes + 1
  /\ app' = [app EXCEPT ![q].up = FALSE]
  /\ UNCHANGED <<log, mail, pos, writers, locations, registry, livepid, broken>>

\* a handler of q throws: produce() ends the event loop
Throw(q) ==
  /\ broken' = broken \cup {q}
  /\ app' = [app EXCEPT ![q].up = FALSE]
  /\ UNCHANGED <<writers, locations, registry>>

\* cached_register_event: the first Register of cached once there is a writer to the master
Asks(q, live) == Cached \in live /\ ~app[q].asked /\ Master \in writers[q]

\* mutant: from_time in another unit than gen_time
AskFramesUnit(q, from) ==
  IF q = Cached THEN <<Msg(Req(q), "RequestCachedDone", q)>>
  ELSE <<Msg(Req(q), "RequestWriteTo", Cached), ReadFromMsg(Req(q), Cached, 1000 * from)>>

\* request_cached_reader_writer; cached itself has nothing to restore.  now() is at least
\* the gen_time of the frame being handled
AskFrames(q, from) ==
  IF q = Cached THEN <<Msg(Req(q), "RequestCachedDone", q)>>
  ELSE <<Msg(Req(q), "RequestWriteTo", Cached), ReadFromMsg(Req(q), Cached, from)>>

\* add_location, then on_register, self_register_event and cached_register_event
OnRegister(q, i) ==
  LET new == log[i].arg IN
  /\ locations' = [locations EXCEPT ![q] = @ \cup new.known]
  /\ registry' = [registry EXCEPT ![q] = @ \cup new.live]
  /\ pos' = [pos EXCEPT ![q] = IF q \in new.live THEN JoinFrom(Stepped(q, i), Cmd(q), app[q].born)
                                                 ELSE Stepped(q, i)]
  /\ IF Asks(q, new.live)
     THEN /\ app' = [app EXCEPT ![q].asked = TRUE]
          /\ \E from \in {i, Len(log)} : log' = log \o AskFrames(q, from)
     ELSE UNCHANGED <<app, log>>
  /\ UNCHANGED <<writers, broken>>

\* on_deregister
OnDeregister(q, i) ==
  LET gone == log[i].arg \ {q} IN
  /\ pos' = [pos EXCEPT ![q] = DropFrom(Stepped(q, i), gone)]
  /\ registry' = [registry EXCEPT ![q] = @ \ gone]
  /\ UNCHANGED <<log, app, writers, locations, broken>>

\* on_read_from, where get_location throws if the source is unknown
OnReadFromReply(q, i) ==
  /\ UNCHANGED log
  /\ IF log[i].arg \in locations[q]
     THEN /\ pos' = [pos EXCEPT ![q] = JoinFrom(Stepped(q, i), <<log[i].arg, q>>, log[i].from)]
          /\ UNCHANGED <<app, writers, locations, registry, broken>>
     ELSE Throw(q) /\ UNCHANGED pos

\* on_write_to
OnWriteTo(q, i) ==
  /\ writers' = [writers EXCEPT ![q] = @ \cup {log[i].arg}]
  /\ pos' = [pos EXCEPT ![q] = Stepped(q, i)]
  /\ UNCHANGED <<log, app, locations, registry, broken>>

\* on_cached_ready_to_read, where get_writer throws if there is none to cached
OnCachedReady(q, i) ==
  IF Cached \in writers[q]
  THEN /\ log' = Append(log, Msg(<<q, Cached>>, "RequestCached", q))
       /\ pos' = [pos EXCEPT ![q] = Stepped(q, i)]
       /\ UNCHANGED <<app, writers, locations, registry, broken>>
  ELSE Throw(q) /\ UNCHANGED <<log, pos>>

\* RequestStart: expect_start
OnStart(q, i) ==
  /\ app' = [app EXCEPT ![q].started = TRUE]
  /\ pos' = [pos EXCEPT ![q] = Stepped(q, i)]
  /\ UNCHANGED <<log, writers, locations, registry, broken>>

\* feed_state_data, which listens until RequestStart
OnState(q, i) ==
  /\ app' = [app EXCEPT ![q].fed = @ \/ ~app[q].started]
  /\ pos' = [pos EXCEPT ![q] = Stepped(q, i)]
  /\ UNCHANGED <<log, writers, locations, registry, broken>>

\* cached answers RequestCached: the stored state, then RequestCachedDone to the master
OnRequestCached(q, i) ==
  LET x     == log[i].j[1]
      state == <<Msg(<<q, x>>, "State", x)>>
      done  == <<Msg(Req(q), "RequestCachedDone", x)>>
  IN  IF x \notin locations[q]
      THEN /\ pos' = [pos EXCEPT ![q] = Stepped(q, i)]
           /\ UNCHANGED <<log, app, writers, locations, registry, broken>>
      ELSE IF {x, Master} \subseteq writers[q]
      THEN /\ log' = log \o state \o done
           /\ pos' = [pos EXCEPT ![q] = Stepped(q, i)]
           /\ UNCHANGED <<app, writers, locations, registry, broken>>
      ELSE /\ log' = IF x \in writers[q] THEN log \o state ELSE log
           /\ Throw(q)
           /\ UNCHANGED pos

\* process q handles the next frame of the journals it has joined
Frame(q) ==
  \E i \in Unread(q) :
    LET Is(type) == log[i].type = type IN
    /\ app[q].up
    /\ IsNext(q, i)
    /\ \/ Is("Register") /\ OnRegister(q, i)
       \/ Is("Deregister") /\ OnDeregister(q, i)
       \/ Is("RequestReadFrom") /\ OnReadFromReply(q, i)
       \/ Is("RequestWriteTo") /\ OnWriteTo(q, i)
       \/ Is("CachedReadyToRead") /\ OnCachedReady(q, i)
       \/ Is("RequestStart") /\ OnStart(q, i)
       \/ Is("State") /\ OnState(q, i)
       \/ Is("RequestCached") /\ OnRequestCached(q, i)
    /\ UNCHANGED <<mail, livepid, crashes>>

----------------------------------------------------------------------------

Next ==
  \/ CheckIn
  \/ HealthCheck
  \/ MasterFrame
  \/ \E q \in Nodes : Boot(q) \/ Crash(q) \/ Frame(q)

Spec == Init /\ [][Next]_vars

\* every process is started, and every event loop runs; nng delivers check-ins to a
\* master that is up; nobody has to be restarted
Fairness ==
  /\ WF_vars(CheckIn)
  /\ WF_vars(HealthCheck)
  /\ WF_vars(MasterFrame)
  /\ \A q \in Nodes : WF_vars(app[q].pid = 0 /\ Boot(q)) /\ WF_vars(Frame(q))

FairSpec == Spec /\ Fairness

----------------------------------------------------------------------------

\* every frame is in a journal of the protocol, and no process has read past the present
TypeOK ==
  /\ \A i \in 1 .. Len(log) : log[i].j \in Journals /\ log[i].from \in 0 .. i - 1
  /\ mail \subseteq [q : Nodes, pid : 1 .. MaxCrash + 1]
  /\ \A q \in Nodes : app[q].pid \in 0 .. MaxCrash + 1 /\ app[q].born \in 0 .. Len(log)
  /\ \A q \in Procs, j \in Journals : pos[q][j] \in NotJoined .. Len(log)
  /\ \A q \in Procs : writers[q] \subseteq Procs /\ locations[q] \cup registry[q] \subseteq Nodes
  /\ broken \subseteq Nodes

FirstRun(q) == app[q].pid = 1

\* get_writer and get_location find what they look up: the master tells a process to open
\* a writer, or of a location, before anybody makes it use them, in the merged order of
\* several journals.  Only a process started again can meet leftovers of its last run
NoMissingLookup == \A q \in broken : ~FirstRun(q)

\* a process is told to start only when the stored state it asked cached for is there,
\* though the state comes through cached's journal and RequestStart through the master's,
\* as long as neither the process nor cached has been started twice
FirstStartsFed == FirstRun(Cached) => \A q \in Apps : FirstRun(q) /\ app[q].started => app[q].fed

\* a registered process that has read all its journals takes for live exactly the
\* processes the master does, however its public and command journals interleaved.  Once
\* two processes were killed, one that is started again may read in its command journal,
\* which it joins from its own start, a Register meant for its last run, after the
\* Deregister of the other one
RegistryAgrees ==
  \A q \in Nodes :
    /\ FirstRun(q) \/ crashes <= 1
    /\ q \in registry[Master]
    /\ Alive(q, livepid[q])
    /\ Unread(q) = {}
    => registry[q] = registry[Master]

\* if no process is killed, every process is told to start, whoever boots first: no
\* Register, no request and no answer is missed while journals are being joined
AllStart == <>(crashes > 0 \/ \A q \in Nodes : app[q].started)
=============================================================================
