-------------------------- MODULE CtpOrdersProofs ---------------------------
(***************************************************************************)
(* Proofs about CtpOrders, for any number of orders, cancels, sessions and *)
(* restarts: a report names the order it is about, a cancel ends the order *)
(* it names, and the strategy hears the end of the orders of this session. *)
(***************************************************************************)
EXTENDS CtpOrders, FiniteSetTheorems, TLAPS

Statuses == {"Unknown", "NoTradeQueueing", "PartTradedQueueing", "AllTraded", "Canceled"}

Order == [id : Nat \ {0}, ref : Nat, session : Nat, status : Statuses, left : Int]

\* Notifications about an order; the others are about the session.
OrderNews == {"order", "trade", "insert_rejected", "qry_order"}

Notes == [on : OrderNews \cup {"disconnected", "login", "settled", "action_rejected"},
          x : Nat, ref : Nat, status : Statuses]

Info == [ref : Nat, source : BOOLEAN]

Reports == [x : Nat, id : Int, final : BOOLEAN, told : BOOLEAN]

Types ==
    /\ book \in Seq(Order) /\ flow \in Seq(Notes) /\ tasks \in Seq(Notes)
    /\ front \in Nat /\ session \in Nat /\ counter \in Nat /\ sent \in Nat /\ crashes \in Nat
    /\ line \in BOOLEAN
    /\ DOMAIN ref_to_order_id \subseteq Nat /\ \A ref \in DOMAIN ref_to_order_id : ref_to_order_id[ref] \in Int
    /\ DOMAIN order_id_to_ref_info \subseteq Int
    /\ \A id \in DOMAIN order_id_to_ref_info : order_id_to_ref_info[id] \in Info
    /\ DOMAIN journal \subseteq Int /\ \A id \in DOMAIN journal : journal[id] \in Nat
    /\ reports \subseteq Reports /\ hits \subseteq [id : Int, x : Nat]

Places == 1 .. Len(book)

\* The exchange's orders: ids are never used twice, refs only after a restart.
BookInv ==
    /\ \A x \in Places : book[x].id \in 1 .. sent /\ book[x].session \in 1 .. front
    /\ \A x, y \in Places : book[x].id = book[y].id => x = y
    /\ crashes = 0 => /\ \A x \in Places : book[x].ref <= counter
                      /\ \A x, y \in Places : book[x].ref = book[y].ref => x = y

\* A notification carries the ref of the order it is about.
About(note) == note.on \in OrderNews => note.x \in Places /\ note.ref = book[note.x].ref

NotesInv ==
    /\ \A i \in 1 .. Len(tasks) : About(tasks[i])
    /\ \A i \in 1 .. Len(flow) : About(flow[i]) /\ flow[i].on \in OrderNews

\* A login to a session waits at place i of the tasks.
LoginAt(i) == tasks[i].on = "login"

\* Sessions are numbered upwards, and the trader learns of a session before it hears of
\* an order of that session.
LoginInv ==
    /\ \A i \in 1 .. Len(tasks) : LoginAt(i) => session < tasks[i].x /\ tasks[i].x <= front
    /\ \A i, j \in 1 .. Len(tasks) : i < j /\ LoginAt(i) /\ LoginAt(j) => tasks[i].x < tasks[j].x
    /\ session <= front
    /\ line => session = front \/ \E i \in 1 .. Len(tasks) : LoginAt(i) /\ tasks[i].x = front
    /\ line => front > 0
    /\ \A i \in 1 .. Len(tasks) : tasks[i].on \in OrderNews =>
          \/ book[tasks[i].x].session <= session
          \/ \E j \in 1 .. i - 1 : LoginAt(j) /\ book[tasks[i].x].session <= tasks[j].x

\* The ids an order may be reported under.
Names(id, y) == id = book[y].id \/ id = SysId(y) \/ id = RefHash(y)

\* id names an order with this ref.
Owns(id, ref) == \E y \in Places : Names(id, y) /\ book[y].ref = ref

\* Whatever is mapped, in memory or through the journal, is an id with its own ref.
MapInv ==
    /\ \A ref \in DOMAIN ref_to_order_id : Owns(ref_to_order_id[ref], ref)
    /\ \A id \in DOMAIN order_id_to_ref_info : Owns(id, order_id_to_ref_info[id].ref)
    /\ \A id \in DOMAIN journal : Owns(id, journal[id])

\* Every report and every hit is about an order of the book.
HistoryInv == \A r \in reports \cup hits : r.x \in Places

\* The trader is, or will be, in the session of order x.
Current(x) ==
    \/ book[x].session = session
    \/ \E i \in 1 .. Len(tasks) : LoginAt(i) /\ tasks[i].x = book[x].session

Mapped(x) ==
    /\ book[x].ref \in DOMAIN ref_to_order_id /\ ref_to_order_id[book[x].ref] = book[x].id
    /\ book[x].id \in DOMAIN order_id_to_ref_info
    /\ order_id_to_ref_info[book[x].id] = [ref |-> book[x].ref, source |-> TRUE]

\* The notification of the end of order x.
EndNote(note, x) ==
    /\ note.x = x
    /\ \/ note.on = "insert_rejected"
       \/ note.on = "order" /\ note.status \in {"AllTraded", "Canceled"}

EndIn(q, x) == \E i \in 1 .. Len(q) : EndNote(q[i], x)

Heard(x) == \E r \in reports : r.x = x /\ r.id = book[x].id /\ r.told /\ r.final

\* Until the strategy has heard of its end, an order of this session is mapped, and its
\* end is either to come or on its way.
Tracked ==
    \A x \in Places : Current(x) /\ ~Reused(x) =>
        \/ Heard(x)
        \/ Mapped(x) /\ (Open(book[x]) \/ EndIn(tasks, x) \/ EndIn(flow, x))

OrdersInv ==
    Types /\ BookInv /\ NotesInv /\ LoginInv /\ MapInv /\ HistoryInv /\ Attributed /\ Tracked

-----------------------------------------------------------------------------
(* Queues.                                                                  *)

LEMMA Concat ==
    ASSUME NEW q \in Seq(Notes), NEW r \in Seq(Notes)
    PROVE  /\ q \o r \in Seq(Notes) /\ Len(q) \in Nat /\ Len(r) \in Nat
           /\ Len(q \o r) = Len(q) + Len(r)
           /\ \A i \in 1 .. Len(q) : i \in 1 .. Len(q \o r) /\ (q \o r)[i] = q[i]
           /\ \A i \in 1 .. Len(r) : Len(q) + i \in 1 .. Len(q \o r) /\ (q \o r)[Len(q) + i] = r[i]
           /\ \A i \in 1 .. Len(q \o r) :
                \/ i \in 1 .. Len(q) /\ (q \o r)[i] = q[i]
                \/ i - Len(q) \in 1 .. Len(r) /\ (q \o r)[i] = r[i - Len(q)] /\ Len(q) < i
  OBVIOUS

LEMMA AppendIsConcat ==
    ASSUME NEW q \in Seq(Notes), NEW note \in Notes
    PROVE  /\ <<note>> \in Seq(Notes) /\ Append(q, note) = q \o <<note>>
           /\ Len(<<note>>) = 1 /\ \A i \in 1 .. Len(<<note>>) : <<note>>[i] = note
  OBVIOUS

LEMMA TailFacts ==
    ASSUME NEW q \in Seq(Notes), q # <<>>
    PROVE  /\ Tail(q) \in Seq(Notes) /\ Head(q) \in Notes /\ Head(q) = q[1] /\ 1 \in 1 .. Len(q)
           /\ \A i \in 1 .. Len(Tail(q)) : i \in Nat /\ i + 1 \in 1 .. Len(q) /\ Tail(q)[i] = q[i + 1]
           /\ \A i \in 1 .. Len(q) : i = 1 \/ (i - 1 \in 1 .. Len(Tail(q)) /\ Tail(q)[i - 1] = q[i])
  OBVIOUS

LEMMA EndConcat ==
    ASSUME NEW q \in Seq(Notes), NEW r \in Seq(Notes), NEW x
    PROVE  EndIn(q \o r, x) <=> EndIn(q, x) \/ EndIn(r, x)
<1>1. ASSUME EndIn(q, x) PROVE EndIn(q \o r, x)
  BY <1>1, Concat DEF EndIn
<1>2. ASSUME EndIn(r, x) PROVE EndIn(q \o r, x)
  BY <1>2, Concat, SMTT(30) DEF EndIn
<1>3. ASSUME EndIn(q \o r, x) PROVE EndIn(q, x) \/ EndIn(r, x)
  BY <1>3, Concat DEF EndIn
<1>4. QED
  BY <1>1, <1>2, <1>3

-----------------------------------------------------------------------------
(* The book.                                                                *)

\* A step that changes at most the status of orders.
SameOrders ==
    /\ book' \in Seq(Order) /\ Len(book') = Len(book)
    /\ \A x \in Places : /\ book'[x].id = book[x].id /\ book'[x].ref = book[x].ref
                         /\ book'[x].session = book[x].session

LEMMA OrderFields ==
    ASSUME Types, NEW x \in Places
    PROVE  /\ x \in Nat \ {0} /\ x \in DOMAIN book /\ book[x] \in Order
           /\ book[x].id \in Nat \ {0} /\ book[x].ref \in Nat /\ book[x].session \in Nat
           /\ book[x].status \in Statuses
<1>1. x \in Nat \ {0} /\ x \in DOMAIN book /\ book[x] \in Order
  BY DEF Types, Places
<1>2. QED
  BY <1>1 DEF Order

LEMMA DomainPlaces == ASSUME Types PROVE DOMAIN book = Places
  BY DEF Types, Places

LEMMA UnchangedOrders == ASSUME Types, UNCHANGED book PROVE SameOrders
  BY DEF Types, SameOrders, Places

LEMMA OwnsSame ==
    ASSUME SameOrders, NEW id, NEW ref
    PROVE  Owns(id, ref)' <=> Owns(id, ref)
  BY DEF SameOrders, Owns, Names, Places

LEMMA ReusedSame ==
    ASSUME Types, SameOrders, UNCHANGED crashes, NEW x \in Places
    PROVE  Reused(x)' <=> Reused(x)
<1>1. DOMAIN book = Places /\ DOMAIN book' = Places
  BY DomainPlaces DEF SameOrders, Places
<1>2. QED
  BY <1>1 DEF SameOrders, Reused

\* Two orders with one ref: the ref was used again after a restart.
LEMMA SharedRef ==
    ASSUME Types, BookInv, NEW x \in Places, NEW y \in Places, x # y, book[x].ref = book[y].ref
    PROVE  Reused(x) /\ Reused(y)
<1>1. crashes \in Nat /\ crashes # 0
  BY DEF Types, BookInv
<1>2. QED
  BY <1>1, DomainPlaces DEF Reused

LEMMA BookSame ==
    ASSUME Types, BookInv, SameOrders, UNCHANGED <<sent, crashes>>,
           counter' \in Nat, counter <= counter', front' \in Nat, front <= front'
    PROVE  BookInv'
<1>1. Places' = Places
  BY DEF SameOrders, Places
<1>2. \A x \in Places : /\ book'[x].id = book[x].id /\ book'[x].ref = book[x].ref /\ book[x].ref \in Nat
                        /\ book'[x].session = book[x].session /\ book[x].session \in Nat
  BY OrderFields DEF SameOrders
<1>3. \A x \in Places : book'[x].id \in 1 .. sent' /\ book'[x].session \in 1 .. front'
  BY <1>2, SMTT(30) DEF BookInv, Types
<1>4. crashes' = 0 => \A x \in Places : book'[x].ref <= counter'
  BY <1>2, SMTT(30) DEF BookInv, Types
<1>5. QED
  BY <1>1, <1>2, <1>3, <1>4 DEF BookInv

\* An id that names two orders names one.
LEMMA NamesOne ==
    ASSUME Types, BookInv, NEW x \in Places, NEW y \in Places, NEW id, Names(id, x), Names(id, y)
    PROVE  x = y
  BY OrderFields DEF Names, SysId, RefHash, BookInv

\* An id of kungfu that stands for order x but is not its own shows a ref used again.
LEMMA Mismatch ==
    ASSUME Types, BookInv, NEW x \in Places, NEW id \in Int, Owns(id, book[x].ref),
           id > 0, id # book[x].id
    PROVE  Reused(x)
<1>1. PICK y \in Places : Names(id, y) /\ book[y].ref = book[x].ref
  BY DEF Owns
<1>2. id = book[y].id
  BY <1>1, OrderFields DEF Names, SysId, RefHash
<1>3. QED
  BY <1>1, <1>2, SharedRef

LEMMA Resolves ==
    ASSUME Types, MapInv, NEW x \in Places, NEW status
    PROVE  /\ resolve_order_id(x, book[x].ref, status) \in Int
           /\ Owns(resolve_order_id(x, book[x].ref, status), book[x].ref)
           /\ trade_order_id(x, book[x].ref) \in Int
           /\ Owns(trade_order_id(x, book[x].ref), book[x].ref)
<1>1. x \in Nat
  BY OrderFields
<1>2. SysId(x) \in Int /\ RefHash(x) \in Int
  BY <1>1 DEF SysId, RefHash
<1>3. Owns(SysId(x), book[x].ref) /\ Owns(RefHash(x), book[x].ref)
  BY DEF Owns, Names
<1>4. ASSUME book[x].ref \in DOMAIN ref_to_order_id
      PROVE  /\ ref_to_order_id[book[x].ref] \in Int
             /\ Owns(ref_to_order_id[book[x].ref], book[x].ref)
  BY <1>4 DEF Types, MapInv
<1>5. QED
  BY <1>2, <1>3, <1>4 DEF resolve_order_id, trade_order_id

-----------------------------------------------------------------------------
(* What a step does to the queue.                                           *)

\* Notes are added to the tasks: about orders only while the line is up.
LEMMA TasksGrow ==
    ASSUME Types, BookInv, NotesInv, LoginInv, SameOrders, NEW notes \in Seq(Notes),
           tasks' = tasks \o notes, UNCHANGED <<front, session>>, line' => line,
           \A i \in 1 .. Len(notes) : /\ About(notes[i]) /\ notes[i].on # "login"
                                      /\ notes[i].on \in OrderNews => line
    PROVE  /\ tasks' \in Seq(Notes) /\ LoginInv'
           /\ \A i \in 1 .. Len(tasks') : About(tasks[i])'
           /\ \A x \in Places : Current(x)' => Current(x)
<1>1. tasks \in Seq(Notes) /\ session \in Nat /\ front \in Nat
  BY DEF Types
<1>2. /\ tasks' \in Seq(Notes) /\ Len(tasks) \in Nat
      /\ \A i \in 1 .. Len(tasks) : i \in 1 .. Len(tasks') /\ tasks'[i] = tasks[i]
      /\ \A i \in 1 .. Len(tasks') :
           \/ i \in 1 .. Len(tasks) /\ tasks'[i] = tasks[i]
           \/ i - Len(tasks) \in 1 .. Len(notes) /\ tasks'[i] = notes[i - Len(tasks)] /\ Len(tasks) < i
  BY <1>1, Concat
<1>3. \A i \in 1 .. Len(tasks') : tasks'[i].on = "login" => i \in 1 .. Len(tasks) /\ tasks'[i] = tasks[i]
  BY <1>2
<1>4. \A note : About(note) => About(note)'
  BY DEF About, SameOrders, Places
<1>5. \A i \in 1 .. Len(tasks') : About(tasks'[i]) /\ About(tasks[i])'
  <2>1. \A i \in 1 .. Len(tasks') : About(tasks'[i])
    BY <1>2 DEF NotesInv
  <2>2. QED
    BY <1>4, <2>1
<1>6. \A x \in Places : book'[x].session = book[x].session
  BY DEF SameOrders
<1>7. /\ \A i \in 1 .. Len(tasks') : LoginAt(i)' => session' < tasks'[i].x /\ tasks'[i].x <= front'
      /\ \A i, j \in 1 .. Len(tasks') : i < j /\ LoginAt(i)' /\ LoginAt(j)' => tasks'[i].x < tasks'[j].x
  BY <1>3 DEF LoginInv, LoginAt
<1>8. /\ session' <= front'
      /\ line' => session' = front' \/ \E i \in 1 .. Len(tasks') : LoginAt(i)' /\ tasks'[i].x = front'
      /\ line' => front' > 0
  BY <1>2 DEF LoginInv, LoginAt
<1>9. ASSUME NEW i \in 1 .. Len(tasks'), tasks'[i].on \in OrderNews
      PROVE  \/ book'[tasks'[i].x].session <= session'
             \/ \E j \in 1 .. i - 1 : LoginAt(j)' /\ book'[tasks'[i].x].session <= tasks'[j].x
  <2>1. tasks'[i].x \in Places /\ book'[tasks'[i].x].session = book[tasks'[i].x].session
    BY <1>5, <1>6, <1>9 DEF About
  <2>2. CASE i \in 1 .. Len(tasks) /\ tasks'[i] = tasks[i]
    <3>1. \A j \in 1 .. i - 1 : j \in 1 .. Len(tasks)
      BY <1>2, <2>2
    <3>2. \A j \in 1 .. i - 1 : tasks'[j] = tasks[j]
      BY <1>2, <3>1
    <3>3. QED
      BY <1>9, <2>1, <2>2, <3>2 DEF LoginInv, LoginAt
  <2>3. CASE i - Len(tasks) \in 1 .. Len(notes) /\ tasks'[i] = notes[i - Len(tasks)] /\ Len(tasks) < i
    <3>1. line
      BY <1>9, <2>3
    <3>2. book[tasks'[i].x].session <= front /\ book[tasks'[i].x].session \in Nat
      BY <2>1, OrderFields DEF BookInv
    <3>3. CASE session = front
      BY <2>1, <3>2, <3>3
    <3>4. CASE \E j \in 1 .. Len(tasks) : LoginAt(j) /\ tasks[j].x = front
      <4>1. PICK j \in 1 .. Len(tasks) : LoginAt(j) /\ tasks[j].x = front
        BY <3>4
      <4>2. j \in 1 .. i - 1 /\ tasks'[j] = tasks[j]
        BY <1>2, <2>3
      <4>3. QED
        BY <2>1, <3>2, <4>1, <4>2 DEF LoginAt
    <3>5. QED
      BY <3>1, <3>3, <3>4 DEF LoginInv
  <2>4. QED
    BY <1>2, <2>2, <2>3
<1>10. LoginInv'
  BY <1>7, <1>8, <1>9 DEF LoginInv
<1>11. ASSUME NEW x \in Places, Current(x)' PROVE Current(x)
  BY <1>3, <1>6, <1>11 DEF Current, LoginAt
<1>12. QED
  BY <1>2, <1>5, <1>10, <1>11

\* The first task is taken; a login moves the trader to its session.
LEMMA TasksShrink ==
    ASSUME Types, BookInv, NotesInv, LoginInv, tasks # <<>>, tasks' = Tail(tasks),
           UNCHANGED <<book, flow, front, line>>,
           session' = IF Head(tasks).on = "login" THEN Head(tasks).x ELSE session
    PROVE  /\ tasks' \in Seq(Notes) /\ session' \in Nat /\ LoginInv' /\ NotesInv'
           /\ About(Head(tasks)) /\ Head(tasks) \in Notes
           /\ \A x \in Places : Current(x)' => Current(x)
           /\ \A x : EndIn(tasks, x) => EndIn(tasks', x) \/ EndNote(Head(tasks), x)
           /\ Head(tasks).on \in OrderNews => book[Head(tasks).x].session <= session
<1>1. tasks \in Seq(Notes) /\ session \in Nat /\ front \in Nat
  BY DEF Types
<1>2. /\ tasks' \in Seq(Notes) /\ Head(tasks) \in Notes /\ Head(tasks) = tasks[1] /\ 1 \in 1 .. Len(tasks)
      /\ \A i \in 1 .. Len(tasks') : i \in Nat /\ i + 1 \in 1 .. Len(tasks) /\ tasks'[i] = tasks[i + 1]
      /\ \A i \in 1 .. Len(tasks) : i = 1 \/ (i - 1 \in 1 .. Len(tasks') /\ tasks'[i - 1] = tasks[i])
  BY <1>1, TailFacts
<1>3. Head(tasks).x \in Nat
  BY <1>2 DEF Notes
<1>4. About(Head(tasks)) /\ NotesInv'
  <2>1. \A note : About(note)' <=> About(note)
    BY DEF About, Places
  <2>2. QED
    BY <1>2, <2>1 DEF NotesInv
<1>5. /\ LoginAt(1) => session < tasks[1].x /\ tasks[1].x <= front
      /\ session' \in Nat /\ session <= session' /\ session' <= front
  BY <1>1, <1>2, <1>3 DEF LoginInv, LoginAt
<1>6. ASSUME NEW i \in 1 .. Len(tasks'), LoginAt(i)'
      PROVE  LoginAt(i + 1) /\ session' < tasks'[i].x /\ tasks'[i].x <= front'
  <2>1. i \in Nat /\ i + 1 \in 1 .. Len(tasks) /\ tasks'[i] = tasks[i + 1] /\ LoginAt(i + 1) /\ 1 < i + 1
    BY <1>2, <1>6 DEF LoginAt
  <2>2. CASE LoginAt(1)
    BY <1>2, <2>1, <2>2 DEF LoginInv, LoginAt
  <2>3. CASE ~LoginAt(1)
    BY <1>2, <2>1, <2>3 DEF LoginInv, LoginAt
  <2>4. QED
    BY <2>1, <2>2, <2>3
<1>7. ASSUME NEW i \in 1 .. Len(tasks'), NEW j \in 1 .. Len(tasks'), i < j, LoginAt(i)', LoginAt(j)'
      PROVE  tasks'[i].x < tasks'[j].x
  <2>1. i + 1 < j + 1 /\ i + 1 \in 1 .. Len(tasks) /\ j + 1 \in 1 .. Len(tasks)
    BY <1>2, <1>7
  <2>2. LoginAt(i + 1) /\ LoginAt(j + 1)
    BY <1>6, <1>7
  <2>3. QED
    BY <1>2, <2>1, <2>2 DEF LoginInv
<1>8. line' => session' = front' \/ \E i \in 1 .. Len(tasks') : LoginAt(i)' /\ tasks'[i].x = front'
  <2> SUFFICES ASSUME line
               PROVE  session' = front \/ \E i \in 1 .. Len(tasks') : LoginAt(i)' /\ tasks'[i].x = front
    OBVIOUS
  <2>1. CASE session = front
    BY <1>1, <1>5, <2>1
  <2>2. CASE \E i \in 1 .. Len(tasks) : LoginAt(i) /\ tasks[i].x = front
    <3>1. PICK i \in 1 .. Len(tasks) : LoginAt(i) /\ tasks[i].x = front
      BY <2>2
    <3>2. CASE i = 1
      BY <1>2, <3>1, <3>2 DEF LoginAt
    <3>3. CASE i # 1
      <4>1. i - 1 \in 1 .. Len(tasks') /\ tasks'[i - 1] = tasks[i]
        BY <1>2, <3>3
      <4>2. LoginAt(i - 1)' /\ tasks'[i - 1].x = front
        BY <3>1, <4>1 DEF LoginAt
      <4>3. QED
        BY <4>1, <4>2
    <3>4. QED
      BY <3>2, <3>3
  <2>3. QED
    BY <2>1, <2>2 DEF LoginInv
<1>9. ASSUME NEW i \in 1 .. Len(tasks'), tasks'[i].on \in OrderNews
      PROVE  \/ book'[tasks'[i].x].session <= session'
             \/ \E j \in 1 .. i - 1 : LoginAt(j)' /\ book'[tasks'[i].x].session <= tasks'[j].x
  <2>1. i \in Nat /\ i + 1 \in 1 .. Len(tasks) /\ tasks'[i] = tasks[i + 1]
    BY <1>2
  <2>2. tasks'[i].x \in Places /\ book[tasks'[i].x].session \in Nat
    BY <1>9, <2>1, OrderFields DEF NotesInv, About
  <2>3. CASE book[tasks'[i].x].session <= session
    BY <1>1, <1>5, <2>2, <2>3
  <2>4. CASE \E j \in 1 .. (i + 1) - 1 : LoginAt(j) /\ book[tasks'[i].x].session <= tasks[j].x
    <3>1. PICK j \in 1 .. (i + 1) - 1 : LoginAt(j) /\ book[tasks'[i].x].session <= tasks[j].x
      BY <2>4
    <3>2. CASE j = 1
      BY <1>2, <3>1, <3>2 DEF LoginAt
    <3>3. CASE j # 1
      <4>1. j \in 1 .. Len(tasks) /\ j - 1 \in 1 .. i - 1
        BY <2>1, <3>3
      <4>2. tasks'[j - 1] = tasks[j]
        BY <1>2, <3>3, <4>1
      <4>3. QED
        BY <3>1, <4>1, <4>2 DEF LoginAt
    <3>4. QED
      BY <3>2, <3>3
  <2>5. QED
    BY <1>9, <2>1, <2>3, <2>4 DEF LoginInv
<1>10. LoginInv'
  BY <1>5, <1>6, <1>7, <1>8, <1>9 DEF LoginInv
<1>11. ASSUME NEW x \in Places, Current(x)' PROVE Current(x)
  <2>1. CASE book[x].session = session'
    BY <1>2, <2>1 DEF Current, LoginAt
  <2>2. CASE \E i \in 1 .. Len(tasks') : LoginAt(i)' /\ tasks'[i].x = book[x].session
    BY <1>2, <2>2 DEF Current, LoginAt
  <2>3. QED
    BY <1>11, <2>1, <2>2 DEF Current
<1>12. ASSUME NEW x, EndIn(tasks, x) PROVE EndIn(tasks', x) \/ EndNote(Head(tasks), x)
  BY <1>2, <1>12 DEF EndIn
<1>13. Head(tasks).on \in OrderNews => book[Head(tasks).x].session <= session
  <2> SUFFICES ASSUME Head(tasks).on \in OrderNews PROVE book[Head(tasks).x].session <= session
    OBVIOUS
  <2>1. \A j \in 1 .. 1 - 1 : FALSE
    OBVIOUS
  <2>2. QED
    BY <1>2, <2>1 DEF LoginInv
<1>14. QED
  BY <1>2, <1>4, <1>5, <1>10, <1>11, <1>12, <1>13

-----------------------------------------------------------------------------
(* The exchange.                                                            *)

LEMMA NoteType ==
    ASSUME NEW on \in OrderNews \cup {"disconnected", "login", "settled", "action_rejected"},
           NEW x \in Nat, NEW ref \in Nat, NEW status \in Statuses
    PROVE  /\ Note(on, x, ref, status) \in Notes
           /\ Note(on, x, ref, status).on = on /\ Note(on, x, ref, status).x = x
           /\ Note(on, x, ref, status).ref = ref /\ Note(on, x, ref, status).status = status
  BY DEF Note, Notes

\* Nothing is handled: the maps, the journal and the reports stay.
LEMMA MapsKept ==
    ASSUME OrdersInv, SameOrders, UNCHANGED <<maps, journal, reports, crashes>>
    PROVE  /\ MapInv'
           /\ \A x \in Places : Mapped(x) => Mapped(x)'
           /\ \A x \in Places : Heard(x) => Heard(x)'
           /\ \A x \in Places : Reused(x)' <=> Reused(x)
<1> USE DEF OrdersInv
<1>1. Places' = Places /\ \A x \in Places : book'[x].id = book[x].id /\ book'[x].ref = book[x].ref
  BY DEF SameOrders, Places
<1>2. MapInv'
  BY OwnsSame DEF MapInv, maps
<1>3. \A x \in Places : Reused(x)' <=> Reused(x)
  BY ReusedSame
<1>4. \A x \in Places : (Mapped(x) => Mapped(x)') /\ (Heard(x) => Heard(x)')
  BY <1>1 DEF Mapped, Heard, maps
<1>5. QED
  BY <1>2, <1>3, <1>4

LEMMA HistoryKept ==
    ASSUME OrdersInv, SameOrders, UNCHANGED <<reports, hits, crashes>>
    PROVE  HistoryInv' /\ Attributed'
<1> USE DEF OrdersInv
<1>1. Places' = Places /\ \A x \in Places : book'[x].id = book[x].id
  BY DEF SameOrders, Places
<1>2. \A x \in Places : Reused(x)' <=> Reused(x)
  BY ReusedSame
<1>3. QED
  BY <1>1, <1>2 DEF Attributed, HistoryInv

\* The exchange changes the status of order x and notifies it: now, or after a login.
LEMMA NotifyStep ==
    ASSUME OrdersInv, NEW x \in Places, SameOrders,
           \A y \in Places : y # x => book'[y] = book[y],
           Open(book[x]), NEW notes \in Seq(Notes),
           \A i \in 1 .. Len(notes) : About(notes[i]) /\ notes[i].on \in OrderNews,
           Open(book'[x]) \/ EndIn(notes, x),
           Notify(notes),
           UNCHANGED <<front, line, session, maps, journal, reports, sent, crashes>>,
           counter' \in Nat, counter <= counter', hits' \subseteq [id : Int, x : Nat]
    PROVE  Types' /\ BookInv' /\ NotesInv' /\ LoginInv' /\ MapInv' /\ Tracked'
<1> USE DEF OrdersInv
<1>1. BookInv'
  BY BookSame DEF Types
<1>2. MapInv' /\ \A y \in Places : /\ Mapped(y) => Mapped(y)'
                                   /\ Heard(y) => Heard(y)'
                                   /\ Reused(y)' <=> Reused(y)
  BY MapsKept
<1>3. tasks \in Seq(Notes) /\ flow \in Seq(Notes) /\ Places' = Places
  BY DEF Types, SameOrders, Places
<1>4. \A note : About(note)' <=> About(note)
  BY DEF About, SameOrders, Places
<1>5. /\ tasks' \in Seq(Notes) /\ flow' \in Seq(Notes) /\ NotesInv' /\ LoginInv'
      /\ \A y \in Places : /\ Current(y)' => Current(y)
                           /\ EndIn(tasks, y) \/ EndIn(flow, y) => EndIn(tasks', y) \/ EndIn(flow', y)
                           /\ EndIn(notes, y) => EndIn(tasks', y) \/ EndIn(flow', y)
  <2>1. CASE line
    <3>1. tasks' = tasks \o notes /\ flow' = flow
      BY <2>1 DEF Notify
    <3>2. \A i \in 1 .. Len(notes) : notes[i].on # "login"
      BY DEF OrderNews
    <3>3. /\ tasks' \in Seq(Notes) /\ LoginInv' /\ \A i \in 1 .. Len(tasks') : About(tasks[i])'
          /\ \A y \in Places : Current(y)' => Current(y)
      BY <2>1, <3>1, <3>2, TasksGrow
    <3>4. NotesInv'
      BY <1>4, <3>1, <3>3 DEF NotesInv
    <3>5. QED
      BY <1>3, <3>1, <3>3, <3>4, EndConcat
  <2>2. CASE ~line
    <3>1. tasks' = tasks /\ flow' = flow \o notes
      BY <2>2 DEF Notify
    <3>2. flow' \in Seq(Notes) /\ \A i \in 1 .. Len(flow') : About(flow'[i]) /\ flow'[i].on \in OrderNews
      BY <1>3, <3>1, Concat DEF NotesInv
    <3>3. NotesInv'
      BY <1>4, <3>1, <3>2 DEF NotesInv
    <3>4. \A y \in Places : book'[y].session = book[y].session
      BY DEF SameOrders
    <3>5. LoginInv' /\ \A y \in Places : Current(y)' => Current(y)
      BY <3>1, <3>4 DEF LoginInv, LoginAt, NotesInv, About, Current
    <3>6. QED
      BY <1>3, <3>1, <3>2, <3>3, <3>5, EndConcat
  <2>3. QED
    BY <2>1, <2>2 DEF Types
<1>6. Types'
  BY <1>5 DEF Types, SameOrders, maps
<1>7. Tracked'
  <2> SUFFICES ASSUME NEW y \in Places, Current(y)', ~Reused(y)'
               PROVE  \/ Heard(y)'
                      \/ Mapped(y)' /\ (Open(book'[y]) \/ EndIn(tasks', y) \/ EndIn(flow', y))
    BY <1>3 DEF Tracked
  <2>1. Current(y) /\ ~Reused(y)
    BY <1>2, <1>5
  <2>2. CASE Heard(y)
    BY <1>2, <2>2
  <2>3. CASE Mapped(y) /\ (Open(book[y]) \/ EndIn(tasks, y) \/ EndIn(flow, y))
    <3>1. CASE y = x
      BY <1>2, <1>5, <2>3, <3>1
    <3>2. CASE y # x
      BY <1>2, <1>5, <2>3, <3>2
    <3>3. QED
      BY <3>1, <3>2
  <2>4. QED
    BY <2>1, <2>2, <2>3 DEF Tracked
<1>8. QED
  BY <1>1, <1>2, <1>5, <1>6, <1>7

\* The status of order x changes.
LEMMA StatusSet ==
    ASSUME Types, NEW x \in Places, NEW rec \in Order, book' = [book EXCEPT ![x] = rec],
           rec.id = book[x].id, rec.ref = book[x].ref, rec.session = book[x].session
    PROVE  /\ SameOrders /\ book'[x] = rec
           /\ \A y \in Places : y # x => book'[y] = book[y]
<1>1. book' \in Seq(Order) /\ Len(book') = Len(book) /\ \A y \in Places : book'[y] = IF y = x THEN rec ELSE book[y]
  BY DEF Types, Places
<1>2. QED
  BY <1>1 DEF SameOrders

LEMMA StatusAlone ==
    ASSUME Types, NEW x \in Places, NEW status \in Statuses,
           book' = [book EXCEPT ![x].status = status]
    PROVE  /\ SameOrders /\ book'[x].status = status
           /\ \A y \in Places : y # x => book'[y] = book[y]
<1> DEFINE rec == [book[x] EXCEPT !.status = status]
<1>1. /\ rec \in Order /\ rec.id = book[x].id /\ rec.ref = book[x].ref /\ rec.session = book[x].session
      /\ rec.status = status
  BY OrderFields DEF Order
<1>2. book' = [book EXCEPT ![x] = rec]
  OBVIOUS
<1> HIDE DEF rec
<1>3. QED
  BY <1>1, <1>2, StatusSet, ZenonT(30)

\* Notifications about order x are about order x.
LEMMA NotesAbout ==
    ASSUME Types, NEW x \in Places, NEW on \in OrderNews, NEW status \in Statuses
    PROVE  /\ Note(on, x, book[x].ref, status) \in Notes
           /\ Note(on, x, book[x].ref, status).on = on
           /\ Note(on, x, book[x].ref, status).x = x
           /\ Note(on, x, book[x].ref, status).status = status
           /\ About(Note(on, x, book[x].ref, status))
<1>1. x \in Nat /\ book[x].ref \in Nat
  BY OrderFields
<1>2. QED
  BY <1>1, NoteType DEF About

LEMMA PairOfNotes ==
    ASSUME NEW a \in Notes, NEW b \in Notes
    PROVE  /\ <<a, b>> \in Seq(Notes) /\ Len(<<a, b>>) = 2 /\ <<a, b>>[1] = a
           /\ \A i \in 1 .. Len(<<a, b>>) : <<a, b>>[i] = a \/ <<a, b>>[i] = b
  OBVIOUS

LEMMA AcceptKeeps ==
    ASSUME OrdersInv, NEW x \in DOMAIN book, Accept(x)
    PROVE  OrdersInv'
<1> USE DEF OrdersInv
<1>1. x \in Places
  BY DomainPlaces
<1> DEFINE a == Note("order", x, book[x].ref, "Unknown")
           b == Note("order", x, book[x].ref, "NoTradeQueueing")
<1>2. /\ a \in Notes /\ a.on \in OrderNews /\ About(a)
      /\ b \in Notes /\ b.on \in OrderNews /\ About(b)
  BY <1>1, NotesAbout DEF Statuses, OrderNews
<1>3. /\ SameOrders /\ book'[x].status = "NoTradeQueueing"
      /\ \A y \in Places : y # x => book'[y] = book[y]
  BY <1>1, StatusAlone DEF Accept, Statuses
<1>4. Open(book[x]) /\ Open(book'[x]) /\ Notify(<<a, b>>)
  BY <1>3 DEF Accept, Open
<1> HIDE DEF a, b
<1>5. <<a, b>> \in Seq(Notes) /\ \A i \in 1 .. Len(<<a, b>>) : About(<<a, b>>[i]) /\ <<a, b>>[i].on \in OrderNews
  BY <1>2, PairOfNotes
<1>6. /\ UNCHANGED <<front, line, session, maps, journal, reports, sent, crashes>>
      /\ UNCHANGED <<reports, hits, crashes>>
      /\ counter' \in Nat /\ counter <= counter' /\ hits' \subseteq [id : Int, x : Nat]
  BY DEF Accept, Trader, bounds, Types
<1>7. Types' /\ BookInv' /\ NotesInv' /\ LoginInv' /\ MapInv' /\ Tracked'
  BY <1>1, <1>3, <1>4, <1>5, <1>6, NotifyStep
<1>8. QED
  BY <1>3, <1>6, <1>7, HistoryKept

LEMMA FillKeeps ==
    ASSUME OrdersInv, NEW x \in DOMAIN book, Fill(x)
    PROVE  OrdersInv'
<1> USE DEF OrdersInv
<1>1. x \in Places
  BY DomainPlaces
<1> DEFINE status == IF book[x].left = 1 THEN "AllTraded" ELSE "PartTradedQueueing"
           a == Note("order", x, book[x].ref, status)
           b == Note("trade", x, book[x].ref, status)
<1>2. status \in Statuses /\ (status = "AllTraded" \/ status = "PartTradedQueueing")
  BY DEF Statuses
<1>3. /\ book' = [book EXCEPT ![x] = [book[x] EXCEPT !.status = status, !.left = book[x].left - 1]]
      /\ Notify(<<a, b>>) /\ book[x].status \in {"NoTradeQueueing", "PartTradedQueueing"}
  BY DEF Fill
<1> HIDE DEF status
<1>4. /\ a \in Notes /\ a.on = "order" /\ About(a) /\ a.x = x /\ a.status = status
      /\ b \in Notes /\ b.on = "trade" /\ About(b)
  BY <1>1, <1>2, NotesAbout DEF OrderNews
<1> HIDE DEF a, b
<1> DEFINE rec == [book[x] EXCEPT !.status = status, !.left = book[x].left - 1]
<1>5. /\ rec \in Order /\ rec.id = book[x].id /\ rec.ref = book[x].ref /\ rec.session = book[x].session
      /\ rec.status = status
  <2>1. book[x] \in Order /\ book[x].left - 1 \in Int
    BY <1>1, OrderFields DEF Order
  <2>2. QED
    BY <1>2, <2>1 DEF Order
<1>6. /\ SameOrders /\ book'[x].status = status
      /\ \A y \in Places : y # x => book'[y] = book[y]
  <2>1. book' = [book EXCEPT ![x] = rec]
    BY <1>3
  <2> HIDE DEF rec
  <2>2. QED
    BY <1>1, <1>5, <2>1, StatusSet
<1>7. <<a, b>> \in Seq(Notes) /\ \A i \in 1 .. Len(<<a, b>>) : About(<<a, b>>[i]) /\ <<a, b>>[i].on \in OrderNews
  BY <1>4, PairOfNotes DEF OrderNews
<1>8. Open(book[x])
  BY <1>3 DEF Open
<1>9. Open(book'[x]) \/ EndIn(<<a, b>>, x)
  <2>1. CASE status = "PartTradedQueueing"
    BY <1>6, <2>1 DEF Open
  <2>2. CASE status = "AllTraded"
    <3>1. EndNote(a, x)
      BY <1>4, <2>2 DEF EndNote
    <3>2. QED
      BY <1>4, <3>1, PairOfNotes DEF EndIn
  <2>3. QED
    BY <1>2, <2>1, <2>2
<1>10. /\ UNCHANGED <<front, line, session, maps, journal, reports, sent, crashes>>
       /\ UNCHANGED <<reports, hits, crashes>>
       /\ counter' \in Nat /\ counter <= counter' /\ hits' \subseteq [id : Int, x : Nat]
  BY DEF Fill, Trader, bounds, Types
<1>11. Types' /\ BookInv' /\ NotesInv' /\ LoginInv' /\ MapInv' /\ Tracked'
  BY <1>1, <1>3, <1>6, <1>7, <1>8, <1>9, <1>10, NotifyStep
<1>12. QED
  BY <1>6, <1>10, <1>11, HistoryKept

LEMMA RejectKeeps ==
    ASSUME OrdersInv, NEW x \in DOMAIN book, Reject(x)
    PROVE  OrdersInv'
<1> USE DEF OrdersInv
<1>1. x \in Places
  BY DomainPlaces
<1> DEFINE a == Note("insert_rejected", x, book[x].ref, "Canceled")
<1>2. a \in Notes /\ a.on = "insert_rejected" /\ About(a) /\ a.x = x
  BY <1>1, NotesAbout DEF Statuses, OrderNews
<1>3. /\ SameOrders /\ \A y \in Places : y # x => book'[y] = book[y]
  BY <1>1, StatusAlone DEF Reject, Statuses
<1>4. Open(book[x]) /\ Notify(<<a>>)
  BY DEF Reject, Open
<1> HIDE DEF a
<1>5. /\ <<a>> \in Seq(Notes) /\ \A i \in 1 .. Len(<<a>>) : About(<<a>>[i]) /\ <<a>>[i].on \in OrderNews
      /\ EndIn(<<a>>, x)
  BY <1>2 DEF OrderNews, EndIn, EndNote
<1>6. /\ UNCHANGED <<front, line, session, maps, journal, reports, sent, crashes>>
      /\ UNCHANGED <<reports, hits, crashes>>
      /\ counter' \in Nat /\ counter <= counter' /\ hits' \subseteq [id : Int, x : Nat]
  BY DEF Reject, Trader, bounds, Types
<1>7. Types' /\ BookInv' /\ NotesInv' /\ LoginInv' /\ MapInv' /\ Tracked'
  BY <1>1, <1>3, <1>4, <1>5, <1>6, NotifyStep
<1>8. QED
  BY <1>3, <1>6, <1>7, HistoryKept

-----------------------------------------------------------------------------
(* The line.                                                                *)

\* A step that leaves the book alone keeps its orders tracked.
LEMMA TrackedKept ==
    ASSUME Tracked, UNCHANGED book,
           \A x \in Places : /\ Current(x)' => Current(x)
                             /\ Reused(x) => Reused(x)'
                             /\ Heard(x) => Heard(x)'
                             /\ (Mapped(x) /\ Current(x)' /\ ~Reused(x)') => (Mapped(x)' \/ Heard(x)')
                             /\ (EndIn(tasks, x) \/ EndIn(flow, x)) /\ Mapped(x) /\ Current(x)' /\ ~Reused(x)'
                                   => (EndIn(tasks', x) \/ EndIn(flow', x) \/ Heard(x)')
    PROVE  Tracked'
<1> SUFFICES ASSUME NEW x \in Places, Current(x)', ~Reused(x)'
             PROVE  \/ Heard(x)'
                    \/ Mapped(x)' /\ (Open(book'[x]) \/ EndIn(tasks', x) \/ EndIn(flow', x))
  BY DEF Tracked, Places
<1>1. Current(x) /\ ~Reused(x)
  OBVIOUS
<1>2. CASE Heard(x)
  BY <1>2
<1>3. CASE Mapped(x) /\ Open(book[x])
  BY <1>3
<1>4. CASE Mapped(x) /\ (EndIn(tasks, x) \/ EndIn(flow, x))
  BY <1>4
<1>5. QED
  BY <1>1, <1>2, <1>3, <1>4 DEF Tracked

LEMMA DisconnectKeeps == ASSUME OrdersInv, Disconnect PROVE OrdersInv'
<1> USE DEF OrdersInv
<1> DEFINE d == Note("disconnected", 0, 0, "Unknown")
<1>1. d \in Notes /\ d.on = "disconnected"
  BY NoteType DEF Statuses
<1>2. tasks' = Append(tasks, d) /\ line' = FALSE
  BY DEF Disconnect
<1> HIDE DEF d
<1>3. tasks \in Seq(Notes) /\ <<d>> \in Seq(Notes) /\ tasks' = tasks \o <<d>>
  BY <1>1, <1>2, AppendIsConcat DEF Types
<1>4. \A i \in 1 .. Len(<<d>>) : /\ About(<<d>>[i]) /\ <<d>>[i].on # "login"
                                 /\ <<d>>[i].on \in OrderNews => line
  BY <1>1 DEF About, OrderNews
<1>5. /\ UNCHANGED <<book, flow, front, session, counter, maps, journal, reports, hits, sent, crashes>>
      /\ UNCHANGED <<front, session>> /\ UNCHANGED <<reports, hits, crashes>>
      /\ UNCHANGED <<maps, journal, reports, crashes>> /\ UNCHANGED book
  BY DEF Disconnect, Trader, bounds
<1>6. SameOrders
  BY <1>5, UnchangedOrders
<1>7. /\ tasks' \in Seq(Notes) /\ LoginInv'
      /\ \A i \in 1 .. Len(tasks') : About(tasks[i])'
      /\ \A x \in Places : Current(x)' => Current(x)
  BY <1>2, <1>3, <1>4, <1>5, <1>6, TasksGrow
<1>8. \A note : About(note)' <=> About(note)
  BY <1>5 DEF About, Places
<1>9. NotesInv'
  BY <1>5, <1>7, <1>8 DEF NotesInv
<1>10. Types'
  BY <1>2, <1>5, <1>7 DEF Types, maps
<1>11. BookInv'
  BY <1>5 DEF BookInv, Places
<1>12. /\ MapInv'
       /\ \A x \in Places : Mapped(x) => Mapped(x)'
       /\ \A x \in Places : Heard(x) => Heard(x)'
       /\ \A x \in Places : Reused(x)' <=> Reused(x)
  BY <1>5, <1>6, MapsKept
<1>13. HistoryInv' /\ Attributed'
  BY <1>5, <1>6, HistoryKept
<1>14. \A x \in Places : EndIn(tasks, x) \/ EndIn(flow, x) => EndIn(tasks', x) \/ EndIn(flow', x)
  BY <1>3, <1>5, EndConcat
<1>15. Tracked'
  BY <1>5, <1>7, <1>12, <1>14, TrackedKept
<1>16. QED
  BY <1>7, <1>9, <1>10, <1>11, <1>12, <1>13, <1>15

\* The queue after a login: the old tasks, the login, the settlement, what had waited.
LEMMA LoginQueue ==
    ASSUME NEW q \in Seq(Notes), NEW l \in Notes, NEW t \in Notes, NEW w \in Seq(Notes),
           tasks' = q \o <<l, t>> \o w
    PROVE  /\ tasks' \in Seq(Notes) /\ Len(q) \in Nat
           /\ \A i \in 1 .. Len(q) : i \in 1 .. Len(tasks') /\ tasks'[i] = q[i]
           /\ Len(q) + 1 \in 1 .. Len(tasks') /\ tasks'[Len(q) + 1] = l
           /\ \A i \in 1 .. Len(tasks') :
                \/ i \in 1 .. Len(q) /\ tasks'[i] = q[i]
                \/ i = Len(q) + 1 /\ tasks'[i] = l
                \/ i = Len(q) + 2 /\ tasks'[i] = t
                \/ Len(q) + 2 < i /\ \E j \in 1 .. Len(w) : tasks'[i] = w[j]
           /\ \A x : EndIn(q, x) \/ EndIn(w, x) => EndIn(tasks', x)
<1> DEFINE p == <<l, t>>
           g == q \o p
<1>1. p \in Seq(Notes) /\ Len(p) = 2 /\ p[1] = l /\ p[2] = t
  OBVIOUS
<1>2. tasks' = g \o w
  OBVIOUS
<1> HIDE DEF p
<1>3. /\ g \in Seq(Notes) /\ Len(q) \in Nat /\ Len(g) = Len(q) + Len(p)
      /\ \A i \in 1 .. Len(q) : i \in 1 .. Len(g) /\ g[i] = q[i]
      /\ \A i \in 1 .. Len(p) : Len(q) + i \in 1 .. Len(g) /\ g[Len(q) + i] = p[i]
  BY <1>1, Concat
<1>4. \A x : EndIn(q, x) => EndIn(g, x)
  BY <1>1, EndConcat
<1> HIDE DEF g
<1>5. Len(g) = Len(q) + 2
  BY <1>1, <1>3
<1>6. g[Len(q) + 1] = l /\ g[Len(q) + 2] = t
  BY <1>1, <1>3
<1>7. /\ tasks' \in Seq(Notes)
      /\ \A i \in 1 .. Len(g) : i \in 1 .. Len(tasks') /\ tasks'[i] = g[i]
      /\ \A i \in 1 .. Len(tasks') :
           \/ i \in 1 .. Len(g) /\ tasks'[i] = g[i]
           \/ i - Len(g) \in 1 .. Len(w) /\ tasks'[i] = w[i - Len(g)] /\ Len(g) < i
  <2>1. /\ g \o w \in Seq(Notes)
        /\ \A i \in 1 .. Len(g) : i \in 1 .. Len(g \o w) /\ (g \o w)[i] = g[i]
        /\ \A i \in 1 .. Len(g \o w) :
             \/ i \in 1 .. Len(g) /\ (g \o w)[i] = g[i]
             \/ i - Len(g) \in 1 .. Len(w) /\ (g \o w)[i] = w[i - Len(g)] /\ Len(g) < i
    BY ONLY <1>3, w \in Seq(Notes), Concat
  <2>2. QED
    BY ONLY <1>2, <2>1
<1>8. \A x : EndIn(q, x) \/ EndIn(w, x) => EndIn(tasks', x)
  <2>1. \A x : EndIn(g, x) \/ EndIn(w, x) => EndIn(g \o w, x)
    BY ONLY <1>3, w \in Seq(Notes), EndConcat
  <2>2. QED
    BY ONLY <1>2, <1>4, <2>1
<1>9. \A i \in 1 .. Len(q) : i \in 1 .. Len(tasks') /\ tasks'[i] = q[i]
  BY <1>3, <1>7
<1>10. Len(q) + 1 \in 1 .. Len(tasks') /\ tasks'[Len(q) + 1] = l
  BY <1>3, <1>5, <1>6, <1>7
<1>11. ASSUME NEW i \in 1 .. Len(tasks')
       PROVE  \/ i \in 1 .. Len(q) /\ tasks'[i] = q[i]
              \/ i = Len(q) + 1 /\ tasks'[i] = l
              \/ i = Len(q) + 2 /\ tasks'[i] = t
              \/ Len(q) + 2 < i /\ \E j \in 1 .. Len(w) : tasks'[i] = w[j]
  <2>1. CASE i \in 1 .. Len(g) /\ tasks'[i] = g[i]
    <3>1. i \in 1 .. Len(q) \/ i = Len(q) + 1 \/ i = Len(q) + 2
      BY <1>3, <1>5, <2>1
    <3>2. QED
      BY <1>3, <1>6, <2>1, <3>1
  <2>2. CASE i - Len(g) \in 1 .. Len(w) /\ tasks'[i] = w[i - Len(g)] /\ Len(g) < i
    BY <1>5, <2>2
  <2>3. QED
    BY <1>7, <2>1, <2>2
<1>12. QED
  BY <1>3, <1>7, <1>8, <1>9, <1>10, <1>11

LEMMA LoginKeeps == ASSUME OrdersInv, Login PROVE OrdersInv'
<1> USE DEF OrdersInv
<1> DEFINE l == Note("login", front + 1, 0, "Unknown")
           t == Note("settled", 0, 0, "Unknown")
<1>1. /\ ~line /\ line' /\ line' = TRUE /\ front' = front + 1 /\ flow' = <<>>
      /\ tasks' = tasks \o <<l, t>> \o flow
  BY DEF Login
<1>2. /\ UNCHANGED <<book, session, counter, maps, journal, reports, hits, sent, crashes>>
      /\ UNCHANGED <<reports, hits, crashes>> /\ UNCHANGED <<sent, crashes>>
      /\ UNCHANGED <<maps, journal, reports, crashes>> /\ UNCHANGED book
  BY DEF Login, Trader, bounds
<1>3. /\ tasks \in Seq(Notes) /\ flow \in Seq(Notes) /\ front \in Nat /\ session \in Nat
      /\ counter \in Nat /\ front' \in Nat /\ front <= front' /\ counter' \in Nat /\ counter <= counter'
  BY <1>1, <1>2 DEF Types
<1>4. l \in Notes /\ l.on = "login" /\ l.x = front + 1 /\ t \in Notes /\ t.on = "settled"
  <2>1. front + 1 \in Nat /\ 0 \in Nat
    BY <1>3
  <2>2. "Unknown" \in Statuses
    BY DEF Statuses
  <2>3. l \in Notes /\ l.on = "login" /\ l.x = front + 1
    BY <2>1, <2>2 DEF Note, Notes
  <2>4. t \in Notes /\ t.on = "settled"
    BY <2>1, <2>2, NoteType
  <2>5. QED
    BY <2>3, <2>4
<1> HIDE DEF l, t
<1>5. /\ tasks' \in Seq(Notes) /\ Len(tasks) \in Nat
      /\ \A i \in 1 .. Len(tasks) : i \in 1 .. Len(tasks') /\ tasks'[i] = tasks[i]
      /\ Len(tasks) + 1 \in 1 .. Len(tasks') /\ tasks'[Len(tasks) + 1] = l
      /\ \A i \in 1 .. Len(tasks') :
           \/ i \in 1 .. Len(tasks) /\ tasks'[i] = tasks[i]
           \/ i = Len(tasks) + 1 /\ tasks'[i] = l
           \/ i = Len(tasks) + 2 /\ tasks'[i] = t
           \/ Len(tasks) + 2 < i /\ \E j \in 1 .. Len(flow) : tasks'[i] = flow[j]
      /\ \A x : EndIn(tasks, x) \/ EndIn(flow, x) => EndIn(tasks', x)
  BY <1>1, <1>3, <1>4, LoginQueue
<1>6. SameOrders
  BY <1>2, UnchangedOrders
<1>7. \A i \in 1 .. Len(tasks') : LoginAt(i)' =>
           \/ i \in 1 .. Len(tasks) /\ tasks'[i] = tasks[i] /\ LoginAt(i)
           \/ i = Len(tasks) + 1 /\ tasks'[i].x = front + 1
  <2>1. \A j \in 1 .. Len(flow) : flow[j].on # "login"
    BY DEF NotesInv, OrderNews
  <2>2. QED
    BY <1>4, <1>5, <2>1 DEF LoginAt
<1>8. \A i \in 1 .. Len(tasks) : LoginAt(i) => tasks[i].x \in Nat /\ session < tasks[i].x /\ tasks[i].x <= front
  <2>1. \A i \in 1 .. Len(tasks) : tasks[i] \in Notes
    BY <1>3
  <2>2. QED
    BY <2>1 DEF LoginInv, Notes
<1>9. \A x \in Places : book[x].session \in Nat /\ book[x].session <= front
  BY OrderFields DEF BookInv
<1>10. \A note : About(note)' <=> About(note)
  BY <1>2 DEF About, Places
<1>11. \A i \in 1 .. Len(tasks') : About(tasks'[i])
  BY <1>4, <1>5 DEF NotesInv, About, OrderNews
<1>12. LoginInv'
  <2>1. session <= front
    BY DEF LoginInv
  <2>2. ASSUME NEW i \in 1 .. Len(tasks'), LoginAt(i)' PROVE session' < tasks'[i].x /\ tasks'[i].x <= front'
    <3>1. CASE i \in 1 .. Len(tasks) /\ tasks'[i] = tasks[i] /\ LoginAt(i)
      BY <1>1, <1>2, <1>3, <1>8, <3>1
    <3>2. CASE i = Len(tasks) + 1 /\ tasks'[i].x = front + 1
      BY <1>1, <1>2, <1>3, <2>1, <3>2
    <3>3. QED
      BY <1>7, <2>2, <3>1, <3>2
  <2>3. ASSUME NEW i \in 1 .. Len(tasks'), NEW j \in 1 .. Len(tasks'), i < j, LoginAt(i)', LoginAt(j)'
        PROVE  tasks'[i].x < tasks'[j].x
    <3>1. i \in 1 .. Len(tasks) /\ tasks'[i] = tasks[i] /\ LoginAt(i)
      BY <1>5, <1>7, <2>3
    <3>2. CASE j \in 1 .. Len(tasks) /\ tasks'[j] = tasks[j] /\ LoginAt(j)
      BY <2>3, <3>1, <3>2 DEF LoginInv
    <3>3. CASE j = Len(tasks) + 1 /\ tasks'[j].x = front + 1
      BY <1>3, <1>8, <3>1, <3>3
    <3>4. QED
      BY <1>7, <2>3, <3>2, <3>3
  <2>4. session' <= front' /\ front' > 0
    BY <1>1, <1>2, <1>3, <2>1
  <2>5. \E i \in 1 .. Len(tasks') : LoginAt(i)' /\ tasks'[i].x = front'
    BY <1>1, <1>4, <1>5 DEF LoginAt
  <2>6. ASSUME NEW i \in 1 .. Len(tasks'), tasks'[i].on \in OrderNews
        PROVE  \/ book'[tasks'[i].x].session <= session'
               \/ \E j \in 1 .. i - 1 : LoginAt(j)' /\ book'[tasks'[i].x].session <= tasks'[j].x
    <3>1. tasks'[i].x \in Places
      BY <1>11, <2>6 DEF About
    <3>2. CASE i \in 1 .. Len(tasks) /\ tasks'[i] = tasks[i]
      <4>1. \A j \in 1 .. i - 1 : j \in 1 .. Len(tasks)
        BY <1>5, <3>2
      <4>2. \A j \in 1 .. i - 1 : tasks'[j] = tasks[j]
        BY <1>5, <4>1
      <4>3. QED
        BY <1>2, <2>6, <3>2, <4>2 DEF LoginInv, LoginAt
    <3>3. CASE Len(tasks) + 2 < i
      <4>1. Len(tasks) + 1 \in 1 .. i - 1
        BY <1>5, <3>3
      <4>2. book'[tasks'[i].x].session <= front + 1
        BY <1>2, <1>3, <1>9, <3>1
      <4>3. QED
        BY <1>4, <1>5, <4>1, <4>2 DEF LoginAt
    <3>4. QED
      BY <1>4, <1>5, <2>6, <3>2, <3>3 DEF OrderNews
  <2>7. QED
    BY <2>2, <2>3, <2>4, <2>5, <2>6 DEF LoginInv
<1>13. NotesInv'
  <2>1. Len(flow') = 0
    BY <1>1
  <2>2. QED
    BY <1>10, <1>11, <2>1 DEF NotesInv
<1>14. Types'
  <2>1. flow' \in Seq(Notes)
    BY <1>1
  <2>2. QED
    BY <1>1, <1>2, <1>3, <1>5, <2>1 DEF Types, maps
<1>15. BookInv'
  BY <1>2, <1>3, <1>6, BookSame
<1>16. /\ MapInv'
       /\ \A x \in Places : Mapped(x) => Mapped(x)'
       /\ \A x \in Places : Heard(x) => Heard(x)'
       /\ \A x \in Places : Reused(x)' <=> Reused(x)
  BY <1>2, <1>6, MapsKept
<1>17. HistoryInv' /\ Attributed'
  BY <1>2, <1>6, HistoryKept
<1>18. ASSUME NEW x \in Places, Current(x)' PROVE Current(x)
  <2>1. CASE book'[x].session = session'
    BY <1>2, <2>1 DEF Current
  <2>2. CASE \E i \in 1 .. Len(tasks') : LoginAt(i)' /\ tasks'[i].x = book'[x].session
    <3>1. PICK i \in 1 .. Len(tasks') : LoginAt(i)' /\ tasks'[i].x = book[x].session
      BY <1>2, <2>2
    <3>2. i \in 1 .. Len(tasks) /\ tasks'[i] = tasks[i] /\ LoginAt(i)
      BY <1>3, <1>7, <1>9, <3>1
    <3>3. QED
      BY <3>1, <3>2 DEF Current
  <2>3. QED
    BY <1>18, <2>1, <2>2 DEF Current
<1>19. Tracked'
  BY <1>2, <1>5, <1>16, <1>18, TrackedKept
<1>20. QED
  BY <1>12, <1>13, <1>14, <1>15, <1>16, <1>17, <1>19

LEMMA SequenceOfPlaces ==
    ASSUME Types, NEW S \in SUBSET Places
    PROVE  /\ SetToSeq(S) \in Seq(S) /\ Len(SetToSeq(S)) \in Nat
           /\ DOMAIN SetToSeq(S) = 1 .. Len(SetToSeq(S))
           /\ \A i \in 1 .. Len(SetToSeq(S)) : SetToSeq(S)[i] \in Places
<1>1. Len(book) \in Nat
  BY DEF Types
<1>2. IsFiniteSet(S)
  <2>1. IsFiniteSet(1 .. Len(book))
    BY <1>1, FS_Interval
  <2>2. QED
    BY <2>1, FS_Subset DEF Places
<1> DEFINE n == Cardinality(S)
<1>3. n \in Nat /\ ExistsBijection(1 .. n, S)
  BY <1>2, FS_CardinalityType
<1>4. PICK f : f \in Bijection(1 .. n, S)
  BY <1>3 DEF ExistsBijection
<1>5. f \in [1 .. n -> S] /\ IsInjective(f)
  BY <1>4 DEF Bijection, Injection
<1>6. SetToSeq(S) \in [1 .. n -> S]
  BY <1>5 DEF SetToSeq
<1> HIDE DEF n
<1>7. \A g \in [1 .. n -> S] : g \in Seq(S) /\ Len(g) \in Nat /\ DOMAIN g = 1 .. Len(g)
  BY <1>3
<1>8. SetToSeq(S) \in Seq(S) /\ Len(SetToSeq(S)) \in Nat /\ DOMAIN SetToSeq(S) = 1 .. Len(SetToSeq(S))
  BY <1>6, <1>7
<1>9. QED
  BY <1>8

\* A sequence of notes made from its places.
LEMMA NotesByPlace ==
    ASSUME NEW n \in Nat, NEW f, f = [i \in 1 .. n |-> f[i]], \A i \in 1 .. n : f[i] \in Notes
    PROVE  f \in Seq(Notes) /\ Len(f) = n
<1>1. f \in [1 .. n -> Notes]
  OBVIOUS
<1>2. QED
  BY <1>1

LEMMA QueryKeeps == ASSUME OrdersInv, Query PROVE OrdersInv'
<1> USE DEF OrdersInv
<1> DEFINE S == {x \in DOMAIN book : book[x].left < Volume}
           traded == SetToSeq(S)
           A == [x \in DOMAIN book |-> Note("qry_order", x, book[x].ref, book[x].status)]
           B == [i \in DOMAIN traded |->
                   Note("trade", traded[i], book[traded[i]].ref, book[traded[i]].status)]
<1>1. line /\ tasks = <<>> /\ tasks' = A \o B
  BY DEF Query
<1>2. /\ UNCHANGED <<book, flow, front, line, session, counter, maps, journal, reports, hits, sent, crashes>>
      /\ UNCHANGED <<front, session>> /\ UNCHANGED <<reports, hits, crashes>>
      /\ UNCHANGED <<maps, journal, reports, crashes>> /\ UNCHANGED book
  BY DEF Query, Trader, exchange, bounds
<1>3. Len(book) \in Nat /\ DOMAIN book = 1 .. Len(book)
  BY DEF Types
<1>4. \A x \in Places : book[x].status \in Statuses
  BY OrderFields
<1>5. A \in Seq(Notes) /\ \A i \in 1 .. Len(A) : About(A[i]) /\ A[i].on \in OrderNews
  <2>1. \A x \in 1 .. Len(book) : A[x] = Note("qry_order", x, book[x].ref, book[x].status)
    BY <1>3
  <2>2. \A x \in 1 .. Len(book) : A[x] \in Notes /\ About(A[x]) /\ A[x].on \in OrderNews
    BY <1>4, <2>1, NotesAbout DEF Places, OrderNews
  <2>3. A = [x \in 1 .. Len(book) |-> A[x]]
    BY <1>3
  <2> HIDE DEF A
  <2>4. A \in Seq(Notes) /\ Len(A) = Len(book)
    BY <1>3, <2>2, <2>3, NotesByPlace
  <2>5. QED
    BY <2>2, <2>4
<1>6. B \in Seq(Notes) /\ \A i \in 1 .. Len(B) : About(B[i]) /\ B[i].on \in OrderNews
  <2>1. S \in SUBSET Places
    BY <1>3 DEF Places
  <2> HIDE DEF S
  <2>2. /\ Len(traded) \in Nat /\ DOMAIN traded = 1 .. Len(traded)
        /\ \A i \in 1 .. Len(traded) : traded[i] \in Places
    BY <2>1, SequenceOfPlaces
  <2> HIDE DEF traded
  <2>3. \A i \in 1 .. Len(traded) : B[i] = Note("trade", traded[i], book[traded[i]].ref, book[traded[i]].status)
    BY <2>2
  <2>4. \A i \in 1 .. Len(traded) : B[i] \in Notes /\ About(B[i]) /\ B[i].on \in OrderNews
    BY <1>4, <2>2, <2>3, NotesAbout DEF OrderNews
  <2>5. B = [i \in 1 .. Len(traded) |-> B[i]]
    BY <2>2
  <2> HIDE DEF B
  <2>6. B \in Seq(Notes) /\ Len(B) = Len(traded)
    BY <2>2, <2>4, <2>5, NotesByPlace
  <2>7. QED
    BY <2>4, <2>6
<1> HIDE DEF A, B, S, traded
<1>7. /\ A \o B \in Seq(Notes)
      /\ \A i \in 1 .. Len(A \o B) : /\ About((A \o B)[i]) /\ (A \o B)[i].on # "login"
                                     /\ (A \o B)[i].on \in OrderNews => line
  <2>1. /\ A \o B \in Seq(Notes)
        /\ \A i \in 1 .. Len(A \o B) :
             \/ i \in 1 .. Len(A) /\ (A \o B)[i] = A[i]
             \/ i - Len(A) \in 1 .. Len(B) /\ (A \o B)[i] = B[i - Len(A)] /\ Len(A) < i
    BY <1>5, <1>6, Concat
  <2>2. \A i \in 1 .. Len(A \o B) : About((A \o B)[i]) /\ (A \o B)[i].on \in OrderNews
    BY <1>5, <1>6, <2>1
  <2>3. QED
    BY <1>1, <2>1, <2>2 DEF OrderNews
<1>8. tasks' = tasks \o (A \o B)
  <2>1. \A q \in Seq(Notes) : q = <<>> \o q
    OBVIOUS
  <2>2. QED
    BY <1>1, <1>7, <2>1
<1>9. SameOrders
  BY <1>2, UnchangedOrders
<1>10. /\ tasks' \in Seq(Notes) /\ LoginInv'
       /\ \A i \in 1 .. Len(tasks') : About(tasks[i])'
       /\ \A x \in Places : Current(x)' => Current(x)
  BY <1>2, <1>7, <1>8, <1>9, TasksGrow
<1>11. \A note : About(note)' <=> About(note)
  BY <1>2 DEF About, Places
<1>12. NotesInv'
  BY <1>2, <1>10, <1>11 DEF NotesInv
<1>13. Types'
  BY <1>2, <1>10 DEF Types, maps
<1>14. BookInv'
  BY <1>2 DEF BookInv, Places
<1>15. /\ MapInv'
       /\ \A x \in Places : Mapped(x) => Mapped(x)'
       /\ \A x \in Places : Heard(x) => Heard(x)'
       /\ \A x \in Places : Reused(x)' <=> Reused(x)
  BY <1>2, <1>9, MapsKept
<1>16. HistoryInv' /\ Attributed'
  BY <1>2, <1>9, HistoryKept
<1>17. \A x \in Places : EndIn(tasks, x) \/ EndIn(flow, x) => EndIn(tasks', x) \/ EndIn(flow', x)
  <2>1. tasks \in Seq(Notes)
    BY DEF Types
  <2>2. QED
    BY <1>2, <1>7, <1>8, <2>1, EndConcat
<1>18. Tracked'
  BY <1>2, <1>10, <1>15, <1>17, TrackedKept
<1>19. QED
  BY <1>10, <1>12, <1>13, <1>14, <1>15, <1>16, <1>18

-----------------------------------------------------------------------------
(* The event loop.                                                          *)

MapTypes ==
    /\ DOMAIN ref_to_order_id \subseteq Nat /\ \A ref \in DOMAIN ref_to_order_id : ref_to_order_id[ref] \in Int
    /\ DOMAIN order_id_to_ref_info \subseteq Int
    /\ \A id \in DOMAIN order_id_to_ref_info : order_id_to_ref_info[id] \in Info
    /\ DOMAIN journal \subseteq Int /\ \A id \in DOMAIN journal : journal[id] \in Nat

\* A callback takes the first task; what it must do about the order of the task.
LEMMA Handled ==
    ASSUME OrdersInv, NEW on, Runs(on),
           session' = IF Head(tasks).on = "login" THEN Head(tasks).x ELSE session,
           MapTypes', reports' \subseteq Reports, MapInv', HistoryInv', Attributed',
           \A x \in Places : /\ Heard(x) => Heard(x)'
                             /\ (Mapped(x) /\ Current(x) /\ ~Reused(x)) => (Mapped(x)' \/ Heard(x)')
                             /\ (EndNote(Head(tasks), x) /\ Mapped(x) /\ Current(x) /\ ~Reused(x)) => Heard(x)'
    PROVE  OrdersInv'
<1> USE DEF OrdersInv
<1>1. /\ tasks # <<>> /\ tasks' = Tail(tasks)
      /\ UNCHANGED <<book, flow, front, line>> /\ UNCHANGED <<counter, hits, sent, crashes>>
  BY DEF Runs, exchange, bounds
<1>2. /\ tasks' \in Seq(Notes) /\ session' \in Nat /\ LoginInv' /\ NotesInv'
      /\ \A x \in Places : Current(x)' => Current(x)
      /\ \A x : EndIn(tasks, x) => EndIn(tasks', x) \/ EndNote(Head(tasks), x)
  BY <1>1, TasksShrink
<1>3. Types'
  BY <1>1, <1>2 DEF Types, MapTypes
<1>4. BookInv'
  BY <1>1 DEF BookInv, Places
<1>5. \A x \in Places : Reused(x)' <=> Reused(x)
  BY <1>1 DEF Reused
<1>6. Tracked'
  BY <1>1, <1>2, <1>5, TrackedKept
<1>7. QED
  BY <1>2, <1>3, <1>4, <1>6

\* A callback that reports nothing.
LEMMA QuietlyHandled ==
    ASSUME OrdersInv, NEW on \in {"disconnected", "login", "settled", "action_rejected", "trade"}, Runs(on),
           session' = IF on = "login" THEN Head(tasks).x ELSE session,
           UNCHANGED <<maps, journal, reports>>
    PROVE  OrdersInv'
<1> USE DEF OrdersInv
<1>1. /\ Head(tasks).on = on /\ UNCHANGED book
      /\ UNCHANGED <<maps, journal, reports, crashes>> /\ UNCHANGED <<reports, hits, crashes>>
  BY DEF Runs, exchange, bounds
<1>2. SameOrders
  BY <1>1, UnchangedOrders
<1>3. /\ MapInv'
      /\ \A x \in Places : Mapped(x) => Mapped(x)'
      /\ \A x \in Places : Heard(x) => Heard(x)'
  BY <1>1, <1>2, MapsKept
<1>4. HistoryInv' /\ Attributed'
  BY <1>1, <1>2, HistoryKept
<1>5. MapTypes' /\ reports' \subseteq Reports
  BY DEF Types, MapTypes, maps
<1>6. \A x : ~EndNote(Head(tasks), x)
  BY <1>1 DEF EndNote
<1>7. QED
  BY <1>1, <1>3, <1>4, <1>5, <1>6, Handled

LEMMA SessionKeeps ==
    ASSUME OrdersInv,
           \/ on_front_disconnected \/ on_login_success \/ on_settlement_confirmed
           \/ on_order_action_rejected
    PROVE  OrdersInv'
<1>1. CASE on_front_disconnected
  BY <1>1, QuietlyHandled DEF on_front_disconnected
<1>2. CASE on_login_success
  BY <1>2, QuietlyHandled DEF on_login_success
<1>3. CASE on_settlement_confirmed
  BY <1>3, QuietlyHandled DEF on_settlement_confirmed
<1>4. CASE on_order_action_rejected
  BY <1>4, QuietlyHandled DEF on_order_action_rejected
<1>5. QED
  BY <1>1, <1>2, <1>3, <1>4

\* The first task is about order x: if the trader is or will be in its session, it is
\* there already.
LEMMA NoteAtHead ==
    ASSUME OrdersInv, NEW on \in OrderNews, Runs(on)
    PROVE  /\ Head(tasks).x \in Places /\ Head(tasks).ref = book[Head(tasks).x].ref
           /\ Head(tasks).status \in Statuses /\ Head(tasks).on = on
           /\ Current(Head(tasks).x) => book[Head(tasks).x].session = session
<1> USE DEF OrdersInv
<1>1. /\ tasks # <<>> /\ Head(tasks).on = on /\ tasks \in Seq(Notes) /\ session \in Nat
  BY DEF Runs, Types
<1>2. /\ Head(tasks) = tasks[1] /\ 1 \in 1 .. Len(tasks) /\ Head(tasks) \in Notes
      /\ \A i \in 1 .. Len(tasks) : tasks[i] \in Notes
  BY <1>1, TailFacts
<1>3. /\ Head(tasks).x \in Places /\ Head(tasks).ref = book[Head(tasks).x].ref
      /\ Head(tasks).status \in Statuses
  BY <1>1, <1>2 DEF NotesInv, About, Notes
<1>4. book[Head(tasks).x].session <= session
  <2>1. \A j \in 1 .. 1 - 1 : FALSE
    OBVIOUS
  <2>2. QED
    BY <1>1, <1>2, <2>1 DEF LoginInv
<1>5. \A i \in 1 .. Len(tasks) : LoginAt(i) => tasks[i].x \in Nat /\ session < tasks[i].x
  BY <1>2 DEF LoginInv, Notes
<1>6. book[Head(tasks).x].session \in Nat
  BY <1>3, OrderFields
<1>7. QED
  BY <1>1, <1>3, <1>4, <1>5, <1>6 DEF Current

\* One more report, under an id that has the ref of its order.
LEMMA Reported ==
    ASSUME OrdersInv, UNCHANGED <<book, hits, crashes>>, NEW r \in Reports, r.x \in Places,
           Owns(r.id, book[r.x].ref), reports' = reports \cup {r}
    PROVE  /\ reports' \subseteq Reports /\ HistoryInv' /\ Attributed'
           /\ \A y \in Places : Heard(y) => Heard(y)'
           /\ r.told /\ r.final /\ r.id = book[r.x].id => Heard(r.x)'
<1> USE DEF OrdersInv
<1>1. reports' \subseteq Reports /\ HistoryInv'
  BY DEF Types, HistoryInv, Places
<1>2. r.id > 0 /\ r.id # book[r.x].id => Reused(r.x)
  <2>1. r.id \in Int
    BY DEF Reports
  <2>2. QED
    BY <2>1, Mismatch
<1>3. \A y : Reused(y)' <=> Reused(y)
  BY DEF Reused
<1>4. Attributed'
  BY <1>2, <1>3 DEF Attributed
<1>5. \A y \in Places : Heard(y) => Heard(y)'
  BY DEF Heard
<1>6. r.told /\ r.final /\ r.id = book[r.x].id => Heard(r.x)'
  BY DEF Heard
<1>7. QED
  BY <1>1, <1>4, <1>5, <1>6

\* Erasing the mapping of an id that has the ref of order x touches no other order.
LEMMA Erased ==
    ASSUME OrdersInv, UNCHANGED book, NEW x \in Places, NEW id, Owns(id, book[x].ref),
           erase_order_mapping(id)
    PROVE  /\ \A ref \in DOMAIN ref_to_order_id' :
                ref \in DOMAIN ref_to_order_id /\ ref_to_order_id'[ref] = ref_to_order_id[ref]
           /\ \A other \in DOMAIN order_id_to_ref_info' :
                /\ other \in DOMAIN order_id_to_ref_info
                /\ order_id_to_ref_info'[other] = order_id_to_ref_info[other]
           /\ \A y \in Places : y # x /\ ~Reused(y) /\ Mapped(y) => Mapped(y)'
<1> USE DEF OrdersInv
<1>1. CASE id \notin DOMAIN order_id_to_ref_info
  BY <1>1 DEF erase_order_mapping, maps, Mapped
<1>2. CASE id \in DOMAIN order_id_to_ref_info
  <2> DEFINE ref == order_id_to_ref_info[id].ref
  <2>1. /\ ref_to_order_id' = [k \in DOMAIN ref_to_order_id \ {ref} |-> ref_to_order_id[k]]
        /\ order_id_to_ref_info' = [k \in DOMAIN order_id_to_ref_info \ {id} |-> order_id_to_ref_info[k]]
    BY <1>2 DEF erase_order_mapping, Drop
  <2>2. PICK a \in Places : Names(id, a) /\ book[a].ref = book[x].ref
    BY DEF Owns
  <2>3. PICK b \in Places : Names(id, b) /\ book[b].ref = ref
    BY <1>2 DEF MapInv, Owns
  <2> HIDE DEF ref
  <2>4. a = b /\ ref = book[x].ref
    BY <2>2, <2>3, NamesOne
  <2>5. ASSUME NEW y \in Places, y # x, ~Reused(y), Mapped(y) PROVE Mapped(y)'
    <3>1. book[y].ref # book[x].ref
      BY <2>5, SharedRef
    <3>2. book[y].id # id
      <4>1. ASSUME book[y].id = id PROVE FALSE
        <5>1. Names(id, y)
          BY <4>1 DEF Names
        <5>2. QED
          BY <2>2, <3>1, <5>1, NamesOne
      <4>2. QED
        BY <4>1
    <3>3. QED
      BY <2>1, <2>4, <2>5, <3>1, <3>2 DEF Mapped
  <2>6. QED
    BY <2>1, <2>5
<1>3. QED
  BY <1>1, <1>2

\* The maps lose entries at most, and the journal gains or replaces one.
LEMMA MapsShrink ==
    ASSUME OrdersInv, UNCHANGED book,
           \A ref \in DOMAIN ref_to_order_id' :
                ref \in DOMAIN ref_to_order_id /\ ref_to_order_id'[ref] = ref_to_order_id[ref],
           \A other \in DOMAIN order_id_to_ref_info' :
                /\ other \in DOMAIN order_id_to_ref_info
                /\ order_id_to_ref_info'[other] = order_id_to_ref_info[other],
           NEW id \in Int, NEW ref \in Nat, Owns(id, ref),
           journal' = Put(journal, id, ref) \/ journal' = journal
    PROVE  MapTypes' /\ MapInv'
<1> USE DEF OrdersInv
<1>1. \A k \in DOMAIN journal' : \/ k \in DOMAIN journal /\ journal'[k] = journal[k]
                                 \/ k = id /\ journal'[k] = ref
  BY DEF Put
<1>2. \A i, j : Owns(i, j)' <=> Owns(i, j)
  BY DEF Owns, Names, Places
<1>3. MapTypes'
  BY <1>1 DEF MapTypes, Types
<1>4. MapInv'
  BY <1>1, <1>2 DEF MapInv
<1>5. QED
  BY <1>3, <1>4

LEMMA RtnOrderKeeps == ASSUME OrdersInv, on_rtn_order PROVE OrdersInv'
<1> USE DEF OrdersInv
<1>1. Runs("order") /\ "order" \in OrderNews /\ UNCHANGED session
  BY DEF on_rtn_order, OrderNews
<1> PICK x \in Places : x = Head(tasks).x
  BY <1>1, NoteAtHead
<1> PICK note : note = Head(tasks)
  OBVIOUS
<1> PICK id : id = resolve_order_id(x, note.ref, note.status)
  OBVIOUS
<1> PICK status : status = order_status_from_ctp(note.status)
  OBVIOUS
<1> PICK r : r = Report(x, id, status \in Ends)
  OBVIOUS
<1>2. /\ note.x = x /\ note.ref = book[x].ref /\ note.status \in Statuses /\ note.on = "order"
      /\ Current(x) => book[x].session = session
  BY <1>1, NoteAtHead
<1>3. x \in Nat /\ book[x].ref \in Nat
  BY <1>2, OrderFields
<1>4. id \in Int /\ Owns(id, book[x].ref)
  BY <1>2, Resolves
<1>5. /\ status \in {"Filled", "PartialFilledActive", "Submitted", "Cancelled", "Unknown"}
      /\ is_final_status(status) <=> note.status \in {"AllTraded", "Canceled"}
      /\ status \in Ends <=> note.status \in {"AllTraded", "Canceled"}
  BY <1>2 DEF Statuses, order_status_from_ctp, is_final_status, Ends
<1>6. /\ reports' = reports \cup {r} /\ journal' = Put(journal, id, book[x].ref)
      /\ IF is_final_status(status) THEN erase_order_mapping(id) ELSE UNCHANGED maps
  BY <1>2 DEF on_rtn_order, write_order
<1>7. /\ r \in Reports /\ r.x = x /\ r.id = id
      /\ status \in Ends => r.final
      /\ resolve_order_source(id) => r.told
  <2>1. r \in Reports /\ r.x = x /\ r.id = id
    BY <1>3, <1>4 DEF Report, Reports, resolve_order_source
  <2>2. status \in Ends => r.final
    BY DEF Report
  <2>3. resolve_order_source(id) => r.told
    BY DEF Report
  <2>4. QED
    BY <2>1, <2>2, <2>3
<1>8. Mapped(x) /\ Current(x) => r.id = book[x].id /\ r.told
  <2> SUFFICES ASSUME Mapped(x), Current(x) PROVE r.id = book[x].id /\ r.told
    OBVIOUS
  <2>1. id = book[x].id
    BY <1>2 DEF Mapped, resolve_order_id
  <2>2. resolve_order_source(id)
    BY <2>1 DEF Mapped, resolve_order_source
  <2>3. QED
    BY <1>7, <2>1, <2>2
<1>9. UNCHANGED <<book, hits, crashes>> /\ UNCHANGED book
  BY <1>1 DEF Runs, exchange, bounds
<1>10. /\ reports' \subseteq Reports /\ HistoryInv' /\ Attributed'
       /\ \A y \in Places : Heard(y) => Heard(y)'
       /\ r.told /\ r.final /\ r.id = book[x].id => Heard(x)'
  BY <1>2, <1>4, <1>6, <1>7, <1>9, Reported
<1>11. /\ \A ref \in DOMAIN ref_to_order_id' :
            ref \in DOMAIN ref_to_order_id /\ ref_to_order_id'[ref] = ref_to_order_id[ref]
       /\ \A other \in DOMAIN order_id_to_ref_info' :
            /\ other \in DOMAIN order_id_to_ref_info
            /\ order_id_to_ref_info'[other] = order_id_to_ref_info[other]
       /\ \A y \in Places : y # x /\ ~Reused(y) /\ Mapped(y) => Mapped(y)'
       /\ ~is_final_status(status) => \A y \in Places : Mapped(y) => Mapped(y)'
  <2>1. CASE is_final_status(status)
    BY <1>2, <1>4, <1>6, <1>9, <2>1, Erased
  <2>2. CASE ~is_final_status(status)
    BY <1>6, <1>9, <2>2 DEF maps, Mapped
  <2>3. QED
    BY <2>1, <2>2
<1>12. MapTypes' /\ MapInv'
  BY <1>3, <1>4, <1>6, <1>9, <1>11, MapsShrink
<1>13. is_final_status(status) /\ Mapped(x) /\ Current(x) => Heard(x)'
  BY <1>5, <1>7, <1>8, <1>10
<1>14. \A y : EndNote(Head(tasks), y) => y = x /\ is_final_status(status)
  BY <1>2, <1>5 DEF EndNote
<1>15. session' = IF Head(tasks).on = "login" THEN Head(tasks).x ELSE session
  BY <1>1, <1>2
<1>16. \A y \in Places :
          /\ Heard(y) => Heard(y)'
          /\ (Mapped(y) /\ Current(y) /\ ~Reused(y)) => (Mapped(y)' \/ Heard(y)')
          /\ (EndNote(Head(tasks), y) /\ Mapped(y) /\ Current(y) /\ ~Reused(y)) => Heard(y)'
  BY <1>10, <1>11, <1>13, <1>14
<1>17. QED
  BY <1>1, <1>10, <1>12, <1>15, <1>16, Handled

LEMMA QryOrderKeeps == ASSUME OrdersInv, on_qry_order PROVE OrdersInv'
<1> USE DEF OrdersInv
<1>1. Runs("qry_order") /\ "qry_order" \in OrderNews /\ UNCHANGED session
  BY DEF on_qry_order, OrderNews
<1> PICK x \in Places : x = Head(tasks).x
  BY <1>1, NoteAtHead
<1> PICK note : note = Head(tasks)
  OBVIOUS
<1> PICK id : id = resolve_order_id(x, note.ref, note.status)
  OBVIOUS
<1> PICK r : r = Report(x, id, order_status_from_ctp(note.status) \in Ends)
  OBVIOUS
<1>2. note.x = x /\ note.ref = book[x].ref /\ note.on = "qry_order"
  BY <1>1, NoteAtHead
<1>3. x \in Nat /\ book[x].ref \in Nat
  BY <1>2, OrderFields
<1>4. id \in Int /\ Owns(id, book[x].ref)
  BY <1>2, Resolves
<1>5. reports' = reports \cup {r} /\ journal' = Put(journal, id, book[x].ref) /\ UNCHANGED maps
  BY <1>2 DEF on_qry_order, write_order
<1>6. r \in Reports /\ r.x = x /\ r.id = id
  BY <1>3, <1>4 DEF Report, Reports, resolve_order_source
<1>7. UNCHANGED <<book, hits, crashes>> /\ UNCHANGED book
  BY <1>1 DEF Runs, exchange, bounds
<1>8. /\ reports' \subseteq Reports /\ HistoryInv' /\ Attributed'
      /\ \A y \in Places : Heard(y) => Heard(y)'
  BY <1>2, <1>4, <1>5, <1>6, <1>7, Reported
<1>9. UNCHANGED <<ref_to_order_id, order_id_to_ref_info>>
  BY <1>5 DEF maps
<1>10. MapTypes' /\ MapInv'
  BY <1>3, <1>4, <1>5, <1>7, <1>9, MapsShrink
<1>11. \A y \in Places : Mapped(y) => Mapped(y)'
  BY <1>7, <1>9 DEF Mapped
<1>12. \A y : ~EndNote(Head(tasks), y)
  BY <1>2 DEF EndNote
<1>13. session' = IF Head(tasks).on = "login" THEN Head(tasks).x ELSE session
  BY <1>1, <1>2
<1>14. QED
  BY <1>1, <1>8, <1>10, <1>11, <1>12, <1>13, Handled

LEMMA RtnTradeKeeps == ASSUME OrdersInv, on_rtn_trade PROVE OrdersInv'
<1> USE DEF OrdersInv
<1>1. Runs("trade") /\ "trade" \in OrderNews /\ UNCHANGED session
  BY DEF on_rtn_trade, OrderNews
<1> PICK x \in Places : x = Head(tasks).x
  BY <1>1, NoteAtHead
<1> PICK note : note = Head(tasks)
  OBVIOUS
<1> PICK id : id = trade_order_id(x, note.ref)
  OBVIOUS
<1> PICK r : r = Report(x, id, FALSE)
  OBVIOUS
<1>2. note.x = x /\ note.ref = book[x].ref /\ note.on = "trade"
  BY <1>1, NoteAtHead
<1>3. x \in Nat /\ book[x].ref \in Nat
  BY <1>2, OrderFields
<1>4. id \in Int /\ Owns(id, book[x].ref)
  BY <1>2, Resolves
<1>5. reports' = reports \cup {r} /\ UNCHANGED journal /\ UNCHANGED maps
  BY <1>2 DEF on_rtn_trade
<1>6. r \in Reports /\ r.x = x /\ r.id = id
  BY <1>3, <1>4 DEF Report, Reports, resolve_order_source
<1>7. UNCHANGED <<book, hits, crashes>> /\ UNCHANGED book
  BY <1>1 DEF Runs, exchange, bounds
<1>8. /\ reports' \subseteq Reports /\ HistoryInv' /\ Attributed'
      /\ \A y \in Places : Heard(y) => Heard(y)'
  BY <1>2, <1>4, <1>5, <1>6, <1>7, Reported
<1>9. UNCHANGED <<ref_to_order_id, order_id_to_ref_info>>
  BY <1>5 DEF maps
<1>10. MapTypes' /\ MapInv'
  BY <1>3, <1>4, <1>5, <1>7, <1>9, MapsShrink
<1>11. \A y \in Places : Mapped(y) => Mapped(y)'
  BY <1>7, <1>9 DEF Mapped
<1>12. \A y : ~EndNote(Head(tasks), y)
  BY <1>2 DEF EndNote
<1>13. session' = IF Head(tasks).on = "login" THEN Head(tasks).x ELSE session
  BY <1>1, <1>2
<1>14. QED
  BY <1>1, <1>8, <1>10, <1>11, <1>12, <1>13, Handled

LEMMA InsertRejectedKeeps == ASSUME OrdersInv, on_order_insert_rejected PROVE OrdersInv'
<1> USE DEF OrdersInv
<1>1. Runs("insert_rejected") /\ "insert_rejected" \in OrderNews /\ UNCHANGED session
  BY DEF on_order_insert_rejected, OrderNews
<1> PICK x \in Places : x = Head(tasks).x
  BY <1>1, NoteAtHead
<1> PICK note : note = Head(tasks)
  OBVIOUS
<1>2. note.x = x /\ note.ref = book[x].ref /\ note.on = "insert_rejected"
  BY <1>1, NoteAtHead
<1>3. x \in Nat /\ book[x].ref \in Nat
  BY <1>2, OrderFields
<1>4. UNCHANGED <<book, hits, crashes>> /\ UNCHANGED book
  BY <1>1 DEF Runs, exchange, bounds
<1>5. session' = IF Head(tasks).on = "login" THEN Head(tasks).x ELSE session
  BY <1>1, <1>2
<1>6. \A y : EndNote(Head(tasks), y) => y = x
  BY DEF EndNote
<1>7. CASE note.ref \in DOMAIN ref_to_order_id
  <2> PICK id : id = ref_to_order_id[note.ref]
    OBVIOUS
  <2> PICK r : r = Report(x, id, "Error" \in Ends)
    OBVIOUS
  <2>1. id \in Int /\ Owns(id, book[x].ref)
    BY <1>2, <1>7 DEF Types, MapInv
  <2>2. /\ reports' = reports \cup {r} /\ journal' = Put(journal, id, book[x].ref)
        /\ erase_order_mapping(id)
    BY <1>2, <1>7 DEF on_order_insert_rejected, write_order
  <2>3. r \in Reports /\ r.x = x /\ r.id = id /\ r.final /\ (resolve_order_source(id) => r.told)
    BY <1>3, <2>1 DEF Report, Reports, resolve_order_source, Ends
  <2>4. Mapped(x) => r.id = book[x].id /\ r.told
    BY <1>2, <2>3 DEF Mapped, resolve_order_source
  <2>5. /\ reports' \subseteq Reports /\ HistoryInv' /\ Attributed'
        /\ \A y \in Places : Heard(y) => Heard(y)'
        /\ r.told /\ r.final /\ r.id = book[x].id => Heard(x)'
    BY <1>2, <1>4, <2>1, <2>2, <2>3, Reported
  <2>6. /\ \A ref \in DOMAIN ref_to_order_id' :
             ref \in DOMAIN ref_to_order_id /\ ref_to_order_id'[ref] = ref_to_order_id[ref]
        /\ \A other \in DOMAIN order_id_to_ref_info' :
             /\ other \in DOMAIN order_id_to_ref_info
             /\ order_id_to_ref_info'[other] = order_id_to_ref_info[other]
        /\ \A y \in Places : y # x /\ ~Reused(y) /\ Mapped(y) => Mapped(y)'
    BY <1>2, <1>4, <2>1, <2>2, Erased
  <2>7. MapTypes' /\ MapInv'
    BY <1>3, <1>4, <2>1, <2>2, <2>6, MapsShrink
  <2>8. Mapped(x) => Heard(x)'
    BY <2>3, <2>4, <2>5
  <2>9. \A y \in Places :
           /\ Heard(y) => Heard(y)'
           /\ (Mapped(y) /\ Current(y) /\ ~Reused(y)) => (Mapped(y)' \/ Heard(y)')
           /\ (EndNote(Head(tasks), y) /\ Mapped(y) /\ Current(y) /\ ~Reused(y)) => Heard(y)'
    BY <1>6, <2>5, <2>6, <2>8
  <2>10. QED
    BY <1>1, <1>5, <2>5, <2>7, <2>9, Handled
<1>8. CASE note.ref \notin DOMAIN ref_to_order_id
  <2>1. UNCHANGED <<maps, journal, reports>>
    BY <1>8 DEF on_order_insert_rejected
  <2>2. ~Mapped(x)
    BY <1>2, <1>8 DEF Mapped
  <2>3. /\ UNCHANGED <<maps, journal, reports, crashes>> /\ UNCHANGED <<reports, hits, crashes>>
    BY <1>4, <2>1
  <2>4. SameOrders
    BY <1>4, UnchangedOrders
  <2>5. /\ MapInv'
        /\ \A y \in Places : Mapped(y) => Mapped(y)'
        /\ \A y \in Places : Heard(y) => Heard(y)'
    BY <2>3, <2>4, MapsKept
  <2>6. HistoryInv' /\ Attributed'
    BY <2>3, <2>4, HistoryKept
  <2>7. MapTypes' /\ reports' \subseteq Reports
    BY <2>1 DEF Types, MapTypes, maps
  <2>8. QED
    BY <1>1, <1>5, <1>6, <2>2, <2>5, <2>6, <2>7, Handled
<1>9. QED
  BY <1>7, <1>8

-----------------------------------------------------------------------------
(* Requests of the strategy.                                                *)

LEMMA RefusedKeeps == ASSUME OrdersInv, insert_order_refused PROVE OrdersInv'
<1> USE DEF OrdersInv
<1>1. /\ UNCHANGED <<book, flow, front, line, tasks, session, maps, journal, reports, hits, crashes>>
      /\ UNCHANGED <<reports, hits, crashes>> /\ UNCHANGED <<maps, journal, reports, crashes>>
      /\ UNCHANGED book
  BY DEF insert_order_refused, Requests
<1>2. /\ sent \in Nat /\ sent' = sent + 1 /\ counter \in Nat /\ counter' \in Nat
      /\ counter' = counter \/ counter' = counter + 1
  BY DEF insert_order_refused, Types
<1>3. SameOrders
  BY <1>1, UnchangedOrders
<1>4. Types'
  BY <1>1, <1>2 DEF Types, maps
<1>5. BookInv'
  <2>1. \A x \in Places : book[x].ref \in Nat /\ book[x].id \in Nat
    BY OrderFields
  <2>2. \A x \in Places : book[x].id \in 1 .. sent'
    BY <1>2, <2>1 DEF BookInv
  <2>3. crashes = 0 => \A x \in Places : book[x].ref <= counter'
    BY <1>2, <2>1 DEF BookInv
  <2>4. QED
    BY <1>1, <2>2, <2>3 DEF BookInv, Places
<1>6. NotesInv' /\ LoginInv'
  BY <1>1 DEF NotesInv, LoginInv, LoginAt, About, Places
<1>7. /\ MapInv'
      /\ \A x \in Places : Mapped(x) => Mapped(x)'
      /\ \A x \in Places : Heard(x) => Heard(x)'
      /\ \A x \in Places : Reused(x)' <=> Reused(x)
  BY <1>1, <1>3, MapsKept
<1>8. HistoryInv' /\ Attributed'
  BY <1>1, <1>3, HistoryKept
<1>9. \A x \in Places : Current(x)' => Current(x)
  BY <1>1 DEF Current, LoginAt
<1>10. \A x \in Places : EndIn(tasks, x) \/ EndIn(flow, x) => EndIn(tasks', x) \/ EndIn(flow', x)
  BY <1>1
<1>11. Tracked'
  BY <1>1, <1>7, <1>9, <1>10, TrackedKept
<1>12. QED
  BY <1>4, <1>5, <1>6, <1>7, <1>8, <1>11

LEMMA InsertKeeps == ASSUME OrdersInv, insert_order PROVE OrdersInv'
<1> USE DEF OrdersInv
<1> PICK n : n = Len(book) + 1
  OBVIOUS
<1> DEFINE o == [id |-> sent + 1, ref |-> counter + 1, session |-> front,
                 status |-> "Unknown", left |-> Volume]
<1>1. /\ UNCHANGED <<flow, front, line, tasks, session, journal, reports, hits, crashes>>
      /\ line /\ sent' = sent + 1 /\ counter' = counter + 1
      /\ book' = Append(book, o)
      /\ order_id_to_ref_info' = Put(order_id_to_ref_info, sent', [ref |-> counter', source |-> TRUE])
      /\ ref_to_order_id' = Put(ref_to_order_id, counter', sent')
  BY DEF insert_order, Requests, map_order
<1>2. sent \in Nat /\ counter \in Nat /\ front \in Nat /\ book \in Seq(Order) /\ crashes \in Nat /\ front > 0
  BY <1>1 DEF Types, LoginInv
<1>3. o \in Order /\ o.id = sent + 1 /\ o.ref = counter + 1 /\ o.session = front /\ Open(o)
  BY <1>2, OrdersAssumption DEF Order, Statuses, Open
<1> HIDE DEF o
<1>4. /\ book' \in Seq(Order) /\ Len(book') = n /\ n \in Places' /\ n \notin Places /\ book'[n] = o
      /\ \A x \in Places : x \in Places' /\ book'[x] = book[x]
      /\ \A x \in Places' : x = n \/ x \in Places
  BY <1>1, <1>2, <1>3 DEF Places
<1>5. \A x \in Places : /\ book[x].id \in Nat /\ book[x].id <= sent /\ book[x].session \in 1 .. front
                        /\ book[x].ref \in Nat /\ (crashes = 0 => book[x].ref <= counter)
  BY OrderFields DEF BookInv
<1>6. \A x \in Places : book[x].id # sent + 1 /\ (crashes = 0 => book[x].ref # counter + 1)
  BY <1>2, <1>5
<1>7. \A x \in Places : book[x].id \in 1 .. sent
  BY DEF BookInv
<1>8. Types'
  <2>1. sent' \in Nat /\ counter' \in Nat
    BY <1>1, <1>2
  <2>2. DOMAIN ref_to_order_id' \subseteq Nat /\ \A ref \in DOMAIN ref_to_order_id' : ref_to_order_id'[ref] \in Int
    BY <1>1, <2>1 DEF Types, Put
  <2>3. /\ DOMAIN order_id_to_ref_info' \subseteq Int
        /\ \A id \in DOMAIN order_id_to_ref_info' : order_id_to_ref_info'[id] \in Info
    BY <1>1, <2>1 DEF Types, Put, Info
  <2>4. QED
    BY <1>1, <1>4, <2>1, <2>2, <2>3 DEF Types
<1>9. BookInv'
  <2>1. \A x \in Places' : book'[x].id \in 1 .. sent' /\ book'[x].session \in 1 .. front'
    <3>1. sent + 1 \in 1 .. sent' /\ front \in 1 .. front' /\ \A i \in 1 .. sent : i \in 1 .. sent'
      BY <1>1, <1>2
    <3>2. QED
      BY <1>1, <1>3, <1>4, <1>5, <1>7, <3>1
  <2>2. \A x, y \in Places' : book'[x].id = book'[y].id => x = y
    BY <1>3, <1>4, <1>6 DEF BookInv
  <2>3. ASSUME crashes = 0, NEW x \in Places' PROVE book'[x].ref <= counter'
    <3>1. CASE x = n
      BY <1>1, <1>2, <1>3, <1>4, <3>1
    <3>2. CASE x \in Places
      <4>1. book'[x] = book[x]
        BY <1>4, <3>2
      <4>2. book[x].ref \in Nat /\ book[x].ref <= counter
        BY <1>5, <2>3, <3>2
      <4>3. counter' = counter + 1
        BY <1>1
      <4>4. QED
        BY ONLY <1>2, <4>1, <4>2, <4>3
    <3>3. QED
      BY <1>4, <3>1, <3>2
  <2>4. ASSUME crashes = 0, NEW x \in Places', NEW y \in Places', book'[x].ref = book'[y].ref PROVE x = y
    <3>1. \A z \in Places : book'[z].ref # book'[n].ref
      BY <1>3, <1>4, <1>6, <2>4
    <3>2. CASE x \in Places /\ y \in Places
      BY <1>4, <2>4, <3>2 DEF BookInv
    <3>3. QED
      BY <1>4, <2>4, <3>1, <3>2
  <2>5. QED
    BY <1>1, <2>1, <2>2, <2>3, <2>4 DEF BookInv
<1>10. \A note : About(note) => About(note)'
  BY <1>4 DEF About
<1>11. NotesInv'
  BY <1>1, <1>10 DEF NotesInv
<1>12. LoginInv'
  <2>1. \A i \in 1 .. Len(tasks) : tasks[i].on \in OrderNews => book'[tasks[i].x] = book[tasks[i].x]
    BY <1>4 DEF NotesInv, About
  <2>2. QED
    BY <1>1, <2>1 DEF LoginInv, LoginAt
<1>13. \A id, ref : Owns(id, ref) => Owns(id, ref)'
  BY <1>4 DEF Owns, Names
<1>14. MapInv'
  <2> PICK i : i = sent + 1
    OBVIOUS
  <2> PICK k : k = counter + 1
    OBVIOUS
  <2>1. Owns(i, k)'
    BY <1>3, <1>4 DEF Owns, Names
  <2>2. /\ ref_to_order_id' = Put(ref_to_order_id, k, i)
        /\ order_id_to_ref_info' = Put(order_id_to_ref_info, i, [ref |-> k, source |-> TRUE])
        /\ journal' = journal
    BY <1>1
  <2>3. /\ \A ref \in DOMAIN ref_to_order_id' :
             \/ ref = k /\ ref_to_order_id'[ref] = i
             \/ ref \in DOMAIN ref_to_order_id /\ ref_to_order_id'[ref] = ref_to_order_id[ref]
        /\ \A id \in DOMAIN order_id_to_ref_info' :
             \/ id = i /\ order_id_to_ref_info'[id].ref = k
             \/ id \in DOMAIN order_id_to_ref_info /\ order_id_to_ref_info'[id] = order_id_to_ref_info[id]
    BY <2>2 DEF Put
  <2>4. \A ref \in DOMAIN ref_to_order_id' : Owns(ref_to_order_id[ref], ref)'
    <3> TAKE ref \in DOMAIN ref_to_order_id'
    <3>1. CASE ref = k /\ ref_to_order_id'[ref] = i
      BY <2>1, <3>1
    <3>2. CASE ref \in DOMAIN ref_to_order_id /\ ref_to_order_id'[ref] = ref_to_order_id[ref]
      BY <1>13, <3>2 DEF MapInv
    <3>3. QED
      BY <2>3, <3>1, <3>2
  <2>5. \A id \in DOMAIN order_id_to_ref_info' : Owns(id, order_id_to_ref_info[id].ref)'
    <3> TAKE id \in DOMAIN order_id_to_ref_info'
    <3>1. CASE id = i /\ order_id_to_ref_info'[id].ref = k
      BY <2>1, <3>1
    <3>2. CASE id \in DOMAIN order_id_to_ref_info /\ order_id_to_ref_info'[id] = order_id_to_ref_info[id]
      BY <1>13, <3>2 DEF MapInv
    <3>3. QED
      BY <2>3, <3>1, <3>2
  <2>6. \A id \in DOMAIN journal' : Owns(id, journal[id])'
    BY <1>13, <2>2 DEF MapInv
  <2>7. QED
    BY <2>4, <2>5, <2>6 DEF MapInv
<1>15. HistoryInv'
  BY <1>1, <1>4 DEF HistoryInv
<1>16. \A x \in Places : Reused(x) => Reused(x)'
  BY <1>1, <1>4, DomainPlaces, <1>8 DEF Reused
<1>17. Attributed'
  BY <1>1, <1>4, <1>16 DEF Attributed, HistoryInv
<1>18. Tracked'
  <2> SUFFICES ASSUME NEW x \in Places', Current(x)', ~Reused(x)'
               PROVE  \/ Heard(x)'
                      \/ Mapped(x)' /\ (Open(book'[x]) \/ EndIn(tasks', x) \/ EndIn(flow', x))
    BY DEF Tracked
  <2>1. CASE x = n
    <3>1. book'[x].ref = counter' /\ book'[x].id = sent' /\ Open(book'[x])
      BY <1>1, <1>3, <1>4, <2>1
    <3>2. Mapped(x)'
      BY <1>1, <3>1 DEF Mapped, Put
    <3>3. QED
      BY <3>1, <3>2
  <2>2. CASE x \in Places
    <3>1. book'[x] = book[x] /\ Current(x) /\ ~Reused(x)
      BY <1>1, <1>4, <1>16, <2>2 DEF Current, LoginAt
    <3>2. book[x].ref # counter'
      <4>1. crashes > 0 /\ book[x].ref = counter' => Reused(x)'
        BY <1>1, <1>3, <1>4, <2>2, <1>8, DomainPlaces DEF Reused
      <4>2. crashes = 0 => book[x].ref # counter'
        BY <1>1, <1>6, <2>2
      <4>3. QED
        BY <1>2, <4>1, <4>2
    <3>3. book[x].id # sent'
      BY <1>1, <1>6, <2>2
    <3>4. Mapped(x) => Mapped(x)'
      BY <1>1, <3>1, <3>2, <3>3 DEF Mapped, Put
    <3>5. Heard(x) => Heard(x)'
      BY <1>1, <3>1 DEF Heard
    <3>6. QED
      BY <1>1, <2>2, <3>1, <3>4, <3>5 DEF Tracked
  <2>3. QED
    BY <1>4, <2>1, <2>2
<1>19. QED
  BY <1>8, <1>9, <1>11, <1>12, <1>14, <1>15, <1>17, <1>18

\* A cancel the front finds an order for: its end is on its way.
LEMMA CancelHits ==
    ASSUME OrdersInv, NEW id \in DOMAIN order_id_to_ref_info, NEW ref, ref = order_id_to_ref_info[id].ref,
           NEW x \in CancelTarget(ref), line,
           book' = [book EXCEPT ![x].status = "Canceled"],
           tasks' = Append(tasks, Note("order", x, ref, "Canceled")),
           hits' = hits \cup {[id |-> id, x |-> x]},
           counter' = counter + 1,
           UNCHANGED <<flow, front, line, session, maps, journal, reports, sent, crashes>>
    PROVE  OrdersInv'
<1> USE DEF OrdersInv
<1>1. x \in Places /\ Open(book[x]) /\ book[x].ref = ref
  BY DomainPlaces DEF CancelTarget
<1> DEFINE a == Note("order", x, book[x].ref, "Canceled")
<1>2. a \in Notes /\ a.on = "order" /\ About(a) /\ a.x = x /\ a.status = "Canceled"
  BY <1>1, NotesAbout DEF Statuses, OrderNews
<1>3. tasks' = Append(tasks, a)
  BY <1>1
<1> HIDE DEF a
<1>4. /\ SameOrders /\ \A y \in Places : y # x => book'[y] = book[y]
  BY <1>1, StatusAlone DEF Statuses
<1>5. /\ <<a>> \in Seq(Notes) /\ \A i \in 1 .. Len(<<a>>) : About(<<a>>[i]) /\ <<a>>[i].on \in OrderNews
      /\ EndIn(<<a>>, x)
  BY <1>2 DEF OrderNews, EndIn, EndNote
<1>6. Notify(<<a>>)
  <2>1. tasks \in Seq(Notes)
    BY DEF Types
  <2>2. tasks' = tasks \o <<a>>
    BY <1>2, <1>3, <2>1, AppendIsConcat
  <2>3. QED
    BY <2>2 DEF Notify
<1>7. id \in Int /\ x \in Nat
  BY <1>1, OrderFields DEF Types
<1>8. /\ UNCHANGED <<front, line, session, maps, journal, reports, sent, crashes>>
      /\ counter' \in Nat /\ counter <= counter' /\ hits' \subseteq [id : Int, x : Nat]
  BY <1>7, SMTT(30) DEF Types
<1>9. Types' /\ BookInv' /\ NotesInv' /\ LoginInv' /\ MapInv' /\ Tracked'
  BY <1>1, <1>4, <1>5, <1>6, <1>8, NotifyStep
<1>10. Places' = Places /\ \A y \in Places : book'[y].id = book[y].id
  BY <1>4 DEF SameOrders, Places
<1>11. \A y \in Places : Reused(y)' <=> Reused(y)
  BY <1>4, ReusedSame
<1>12. id > 0 /\ id # book[x].id => Reused(x)
  <2>1. Owns(id, book[x].ref)
    BY <1>1 DEF MapInv
  <2>2. QED
    BY <1>1, <1>7, <2>1, Mismatch
<1>13. HistoryInv'
  BY <1>1, <1>10 DEF HistoryInv
<1>14. Attributed'
  <2> SUFFICES ASSUME NEW r \in reports' \cup hits', r.id > 0, r.id # book'[r.x].id PROVE Reused(r.x)'
    BY DEF Attributed
  <2>1. CASE r \in reports \cup hits
    BY <1>10, <1>11, <2>1 DEF Attributed, HistoryInv
  <2>2. CASE r = [id |-> id, x |-> x]
    BY <1>1, <1>10, <1>11, <1>12, <2>2
  <2>3. QED
    BY <2>1, <2>2
<1>15. QED
  BY <1>9, <1>13, <1>14

\* A cancel the front finds no order for.
LEMMA CancelMisses ==
    ASSUME OrdersInv, NEW ref \in Nat,
           tasks' = Append(tasks, Note("action_rejected", 0, ref, "Unknown")),
           counter' = counter + 1,
           UNCHANGED <<book, flow, front, line, session, maps, journal, reports, hits, sent, crashes>>
    PROVE  OrdersInv'
<1> USE DEF OrdersInv
<1> DEFINE d == Note("action_rejected", 0, ref, "Unknown")
<1>1. d \in Notes /\ d.on = "action_rejected"
  BY DEF Note, Notes, Statuses
<1>2. tasks' = Append(tasks, d)
  OBVIOUS
<1> HIDE DEF d
<1>3. tasks \in Seq(Notes) /\ <<d>> \in Seq(Notes) /\ tasks' = tasks \o <<d>>
  BY <1>1, <1>2, AppendIsConcat DEF Types
<1>4. \A i \in 1 .. Len(<<d>>) : /\ About(<<d>>[i]) /\ <<d>>[i].on # "login"
                                 /\ <<d>>[i].on \in OrderNews => line
  BY <1>1 DEF About, OrderNews
<1>5. /\ UNCHANGED flow /\ UNCHANGED <<front, session>> /\ UNCHANGED <<reports, hits, crashes>>
      /\ UNCHANGED <<maps, journal, reports, crashes>> /\ UNCHANGED book
      /\ UNCHANGED <<sent, crashes>>
      /\ counter' \in Nat /\ counter <= counter' /\ front' \in Nat /\ front <= front'
  BY DEF Types
<1>6. SameOrders
  BY <1>5, UnchangedOrders
<1>7. /\ tasks' \in Seq(Notes) /\ LoginInv'
      /\ \A i \in 1 .. Len(tasks') : About(tasks[i])'
      /\ \A x \in Places : Current(x)' => Current(x)
  BY <1>3, <1>4, <1>5, <1>6, TasksGrow
<1>8. \A note : About(note)' <=> About(note)
  BY <1>5 DEF About, Places
<1>9. NotesInv'
  BY <1>5, <1>7, <1>8 DEF NotesInv
<1>10. Types'
  BY <1>5, <1>7 DEF Types, maps
<1>11. BookInv'
  BY <1>5, <1>6, BookSame
<1>12. /\ MapInv'
       /\ \A x \in Places : Mapped(x) => Mapped(x)'
       /\ \A x \in Places : Heard(x) => Heard(x)'
       /\ \A x \in Places : Reused(x)' <=> Reused(x)
  BY <1>5, <1>6, MapsKept
<1>13. HistoryInv' /\ Attributed'
  BY <1>5, <1>6, HistoryKept
<1>14. \A x \in Places : EndIn(tasks, x) \/ EndIn(flow, x) => EndIn(tasks', x) \/ EndIn(flow', x)
  <2>1. ASSUME NEW x \in Places PROVE EndIn(tasks, x) => EndIn(tasks', x)
    <3>1. EndIn(tasks \o <<d>>, x) <=> EndIn(tasks, x) \/ EndIn(<<d>>, x)
      BY ONLY <1>3, EndConcat
    <3>2. QED
      BY ONLY <1>3, <3>1
  <2>2. flow' = flow
    BY <1>5
  <2>3. QED
    BY <2>1, <2>2
<1>15. Tracked'
  BY <1>5, <1>7, <1>12, <1>14, TrackedKept
<1>16. QED
  BY <1>7, <1>9, <1>10, <1>11, <1>12, <1>13, <1>15

LEMMA CancelKeeps ==
    ASSUME OrdersInv, NEW id \in DOMAIN order_id_to_ref_info, cancel_order(id)
    PROVE  OrdersInv'
<1> PICK ref : ref = order_id_to_ref_info[id].ref
  OBVIOUS
<1>1. ref \in Nat
  BY DEF OrdersInv, Types, Info
<1>2. /\ line /\ counter' = counter + 1
      /\ UNCHANGED <<flow, front, line, session, maps, journal, reports, sent, crashes>>
  BY DEF cancel_order, Requests
<1>3. ASSUME NEW x \in CancelTarget(ref),
             book' = [book EXCEPT ![x].status = "Canceled"],
             tasks' = Append(tasks, Note("order", x, ref, "Canceled")),
             hits' = hits \cup {[id |-> id, x |-> x]}
      PROVE  OrdersInv'
  BY <1>2, <1>3, CancelHits
<1>4. ASSUME tasks' = Append(tasks, Note("action_rejected", 0, ref, "Unknown")), UNCHANGED <<book, hits>>
      PROVE  OrdersInv'
  BY <1>1, <1>2, <1>4, CancelMisses
<1>5. QED
  BY <1>3, <1>4 DEF cancel_order

LEMMA CancelRefusedKeeps ==
    ASSUME OrdersInv, NEW id \in DOMAIN order_id_to_ref_info, cancel_order_refused(id)
    PROVE  OrdersInv'
<1> USE DEF OrdersInv
<1>1. /\ UNCHANGED <<book, flow, front, line, tasks, session, maps, journal, reports, hits, crashes>>
      /\ UNCHANGED <<reports, hits, crashes>> /\ UNCHANGED <<maps, journal, reports, crashes>>
      /\ UNCHANGED book
  BY DEF cancel_order_refused, Requests
<1>2. sent \in Nat /\ sent' = sent /\ counter \in Nat /\ counter' = counter + 1
  BY DEF cancel_order_refused, Types
<1>3. SameOrders
  BY <1>1, UnchangedOrders
<1>4. Types'
  BY <1>1, <1>2 DEF Types, maps
<1>5. BookInv'
  <2>1. \A x \in Places : book[x].ref \in Nat /\ book[x].id \in Nat
    BY OrderFields
  <2>2. \A x \in Places : book[x].id \in 1 .. sent'
    BY <1>2, <2>1 DEF BookInv
  <2>3. crashes = 0 => \A x \in Places : book[x].ref <= counter'
    BY <1>2, <2>1 DEF BookInv
  <2>4. QED
    BY <1>1, <2>2, <2>3 DEF BookInv, Places
<1>6. NotesInv' /\ LoginInv'
  BY <1>1 DEF NotesInv, LoginInv, LoginAt, About, Places
<1>7. /\ MapInv'
      /\ \A x \in Places : Mapped(x) => Mapped(x)'
      /\ \A x \in Places : Heard(x) => Heard(x)'
      /\ \A x \in Places : Reused(x)' <=> Reused(x)
  BY <1>1, <1>3, MapsKept
<1>8. HistoryInv' /\ Attributed'
  BY <1>1, <1>3, HistoryKept
<1>9. \A x \in Places : Current(x)' => Current(x)
  BY <1>1 DEF Current, LoginAt
<1>10. \A x \in Places : EndIn(tasks, x) \/ EndIn(flow, x) => EndIn(tasks', x) \/ EndIn(flow', x)
  BY <1>1
<1>11. Tracked'
  BY <1>1, <1>7, <1>9, <1>10, TrackedKept
<1>12. QED
  BY <1>4, <1>5, <1>6, <1>7, <1>8, <1>11

-----------------------------------------------------------------------------
(* The restart.                                                             *)

LEMMA RestartKeeps == ASSUME OrdersInv, Restart PROVE OrdersInv'
<1> USE DEF OrdersInv
<1>1. /\ crashes' = crashes + 1 /\ line' = FALSE /\ tasks' = <<>> /\ session' = 0 /\ counter' = 0
      /\ UNCHANGED <<book, flow, front, journal, reports, hits, sent>>
  BY DEF Restart
<1>2. crashes \in Nat /\ crashes' \in Nat /\ crashes' > 0 /\ front \in Nat
  BY <1>1 DEF Types
<1>3. PICK kept \in SUBSET DOMAIN journal :
        /\ order_id_to_ref_info' = [id \in kept |-> [ref |-> journal[id], source |-> FALSE]]
        /\ ref_to_order_id' = [ref \in {journal[id] : id \in kept} |->
                                 CHOOSE id \in kept : journal[id] = ref]
  BY DEF Restart
<1>4. \A id \in kept : id \in Int /\ journal[id] \in Nat /\ Owns(id, journal[id])
  BY <1>3 DEF Types, MapInv
<1>5. \A ref \in DOMAIN ref_to_order_id' : ref_to_order_id'[ref] \in kept /\ journal[ref_to_order_id'[ref]] = ref
  BY <1>3
<1>6. \A ref \in DOMAIN ref_to_order_id' : ref \in Nat /\ ref_to_order_id'[ref] \in Int /\ Owns(ref_to_order_id'[ref], ref)
  BY <1>4, <1>5
<1>7. \A id \in DOMAIN order_id_to_ref_info' : /\ id \in Int /\ order_id_to_ref_info'[id] \in Info
                                               /\ Owns(id, order_id_to_ref_info'[id].ref)
  BY <1>3, <1>4 DEF Info
<1>8. Places' = Places /\ \A id, ref : Owns(id, ref)' <=> Owns(id, ref)
  BY <1>1 DEF Owns, Names, Places
<1>9. Types'
  <2>1. tasks' \in Seq(Notes)
    BY <1>1
  <2>2. QED
    BY <1>1, <1>2, <1>6, <1>7, <2>1 DEF Types
<1>10. BookInv'
  BY <1>1, <1>2, <1>8 DEF BookInv
<1>11. Len(tasks') = 0
  BY <1>1
<1>12. NotesInv' /\ LoginInv'
  BY <1>1, <1>2, <1>8, <1>11 DEF NotesInv, About, LoginInv
<1>13. MapInv'
  <2>1. \A ref \in DOMAIN ref_to_order_id' : Owns(ref_to_order_id[ref], ref)'
    BY <1>6, <1>8
  <2>2. \A id \in DOMAIN order_id_to_ref_info' : Owns(id, order_id_to_ref_info[id].ref)'
    BY <1>7, <1>8
  <2>3. \A id \in DOMAIN journal' : Owns(id, journal[id])'
    BY <1>1, <1>8 DEF MapInv
  <2>4. QED
    BY <2>1, <2>2, <2>3 DEF MapInv
<1>14. HistoryInv'
  BY <1>1, <1>8 DEF HistoryInv
<1>15. \A x : Reused(x) => Reused(x)'
  BY <1>1, <1>2 DEF Reused
<1>16. Attributed'
  BY <1>1, <1>15 DEF Attributed
<1>17. \A x \in Places : ~Current(x)'
  <2>1. \A x \in Places : book[x].session # 0
    BY DEF BookInv
  <2>2. QED
    BY <1>1, <1>11, <2>1 DEF Current
<1>18. Tracked'
  BY <1>8, <1>17 DEF Tracked
<1>19. QED
  BY <1>9, <1>10, <1>12, <1>13, <1>14, <1>16, <1>18

-----------------------------------------------------------------------------
(* The theorems.                                                            *)

LEMMA OrdersStart == Init => OrdersInv
<1> SUFFICES ASSUME Init PROVE OrdersInv
  OBVIOUS
<1>1. Types
  <2>1. book \in Seq(Order) /\ flow \in Seq(Notes) /\ tasks \in Seq(Notes)
    BY DEF Init
  <2>2. DOMAIN ref_to_order_id = {} /\ DOMAIN order_id_to_ref_info = {} /\ DOMAIN journal = {}
    BY DEF Init, NoMap
  <2>3. QED
    BY <2>1, <2>2 DEF Init, Types
<1>2. Len(book) = 0 /\ Len(tasks) = 0 /\ Len(flow) = 0
  BY DEF Init
<1>3. BookInv /\ NotesInv /\ LoginInv /\ HistoryInv /\ Attributed /\ Tracked
  BY <1>2 DEF Init, BookInv, NotesInv, LoginInv, HistoryInv, Attributed, Tracked, Places
<1>4. MapInv
  BY DEF Init, MapInv, NoMap
<1>5. QED
  BY <1>1, <1>3, <1>4 DEF OrdersInv

LEMMA OrdersKept == OrdersInv /\ [Next]_vars => OrdersInv'
<1> SUFFICES ASSUME OrdersInv, [Next]_vars PROVE OrdersInv'
  OBVIOUS
<1>1. CASE Disconnect
  BY <1>1, DisconnectKeeps
<1>2. CASE Login
  BY <1>2, LoginKeeps
<1>3. CASE Query
  BY <1>3, QueryKeeps
<1>4. CASE \E x \in DOMAIN book : Accept(x) \/ Fill(x) \/ Reject(x)
  BY <1>4, AcceptKeeps, FillKeeps, RejectKeeps
<1>5. CASE RunTask
  BY <1>5, SessionKeeps, RtnOrderKeeps, QryOrderKeeps, RtnTradeKeeps, InsertRejectedKeeps DEF RunTask
<1>6. CASE Restart
  BY <1>6, RestartKeeps
<1>7. CASE insert_order_refused
  BY <1>7, RefusedKeeps
<1>8. CASE insert_order
  BY <1>8, InsertKeeps
<1>9. CASE \E id \in DOMAIN order_id_to_ref_info : cancel_order(id) \/ cancel_order_refused(id)
  BY <1>9, CancelKeeps, CancelRefusedKeeps
<1>10. CASE UNCHANGED vars
  <2>1. /\ UNCHANGED <<book, flow, front, line, tasks, session, counter, journal, reports, hits, sent, crashes>>
        /\ UNCHANGED <<ref_to_order_id, order_id_to_ref_info>>
    BY <1>10 DEF vars, exchange, maps, bounds
  <2> USE <2>1 DEF OrdersInv
  <2>2. Types' /\ BookInv' /\ NotesInv'
    BY DEF Types, BookInv, NotesInv, About, Places
  <2>3. LoginInv' /\ MapInv' /\ HistoryInv'
    BY DEF LoginInv, LoginAt, MapInv, Owns, Names, HistoryInv, Places
  <2>4. Attributed'
    BY DEF Attributed, Reused
  <2>5. Tracked'
    BY DEF Tracked, Current, LoginAt, Reused, Heard, Mapped, EndIn, Places
  <2>6. QED
    BY <2>2, <2>3, <2>4, <2>5
<1>11. QED
  BY <1>1, <1>2, <1>3, <1>4, <1>5, <1>6, <1>7, <1>8, <1>9, <1>10 DEF Next, Exchange

LEMMA EndsTracked == OrdersInv => EndHeard
<1> SUFFICES ASSUME OrdersInv, NEW x \in DOMAIN book, ~Open(book[x]), book[x].session = session, ~Reused(x)
             PROVE  \/ \E i \in DOMAIN (tasks \o flow) : (tasks \o flow)[i].x = x
                    \/ \E r \in reports : r.x = x /\ r.id = book[x].id /\ r.told /\ r.final
  BY DEF EndHeard
<1>1. x \in Places /\ tasks \in Seq(Notes) /\ flow \in Seq(Notes)
  BY DomainPlaces DEF OrdersInv, Types
<1>2. Heard(x) \/ EndIn(tasks, x) \/ EndIn(flow, x)
  BY <1>1 DEF OrdersInv, Tracked, Current
<1>3. CASE Heard(x)
  BY <1>3 DEF Heard
<1>4. CASE EndIn(tasks, x) \/ EndIn(flow, x)
  <2> DEFINE q == tasks \o flow
  <2>1. EndIn(q, x)
    BY <1>1, <1>4, EndConcat
  <2>2. q \in Seq(Notes)
    BY <1>1
  <2> HIDE DEF q
  <2>3. \E i \in DOMAIN q : q[i].x = x
    BY <2>1, <2>2 DEF EndIn, EndNote
  <2>4. QED
    BY <2>3 DEF q
<1>5. QED
  BY <1>2, <1>3, <1>4

\* Whatever fills, reconnects and restarts come between, a report that names an order of
\* kungfu is about that order and a cancel ends the order it names, unless the ref was used
\* again after a restart (resolve_order_id, trade_from_ctp, on_order_insert_rejected,
\* cancel_order).
THEOREM ReportsAttributed == Spec => []Attributed
<1>1. OrdersInv => Attributed
  BY DEF OrdersInv
<1>2. QED
  BY <1>1, OrdersStart, OrdersKept, PTL DEF Spec

\* The strategy hears the end of every order of the session that still lasts: nothing
\* erases the mapping of an order before the notification of its end is handled
\* (erase_order_mapping in on_rtn_order and on_order_insert_rejected).
THEOREM EndsHeard == Spec => []EndHeard
<1>1. QED
  BY EndsTracked, OrdersStart, OrdersKept, PTL DEF Spec
=============================================================================
