--------------------------- MODULE ListenerSteps ----------------------------
(***************************************************************************)
(* The inductive invariant of Listener, that every step keeps it, and what *)
(* a step does to the queues and the tables.  One conjunct is about each   *)
(* connection, one about each session and its queue, the others about how  *)
(* connections, sessions, tables, the accept queue and the list of Close   *)
(* agree.                                                                  *)
(***************************************************************************)
EXTENDS Listener, TLAPS

USE ZenonT(30)

(***************************************************************************)
(* The inductive invariant.                                                *)
(***************************************************************************)
Handshaking == {"running", "installed", "validated"}
\* The peer has proved the handshake.
Proved(c) == c.hs = "validated" \/ (c.hs = "done" /\ ~c.err)
Ended(c) ==
    \/ c.closer \in {"cleared", "returned"}
    \/ c.failer \in {"cleared", "returned"}
    \/ c.hs = "done" /\ c.err

ConnFields ==
    {"hs", "err", "closed", "cancelled", "handshaking", "secrets", "old", "reading", "from",
     "failer", "closer"}
ConnOK(c) ==
    /\ DOMAIN c = ConnFields
    /\ c.handshaking <=> c.hs \in Handshaking
    /\ c.hs \in {"none", "new"} => ~c.secrets
    /\ c.failer # "no" => c.cancelled
    /\ c.closer # "no" => c.closed
    /\ c.hs \notin Handshaking /\ Ended(c) => ~c.secrets
    /\ c.reading # "no" => c.hs = "done"
    /\ c.reading = "dispatching" => c.from \in Addresses
    /\ c.old # Nil => c.hs = "validated" /\ c.old \in Sessions
ConnsOK == DOMAIN conn = Sessions /\ \A s \in Sessions : ConnOK(conn[s])

\* A packetSession and its queue; the read loop keeps the address it routes.
SessionFields == {"state", "remote", "validated", "cid", "in", "removing", "late"}
SessionsOK ==
    /\ DOMAIN sess = Sessions
    /\ \A s \in Sessions : /\ DOMAIN sess[s] = SessionFields
                           /\ sess[s].in \in Seq(Addresses)
                           /\ sess[s].state \in {"unused", "open", "closed"}
                           /\ sess[s].removing => sess[s].state = "closed"
                           /\ sess[s].state # "unused" => sess[s].remote \in Addresses
    /\ DOMAIN reader = {"targets", "from", "pushed", "arrived"}
    /\ reader.targets # <<>> => reader.from \in Addresses
    /\ QueuesReleased

TablesOK ==
    /\ DOMAIN table = {"sessions", "pending", "cids"}
    /\ table.sessions \in [Addresses -> SessionOrNil]
    /\ table.pending \in [Addresses -> SessionOrNil]
    /\ table.cids \in [CIDs -> SessionOrNil]

StageOK(x, c) ==
    /\ c.hs # "none" => x.state # "unused"
    /\ Proved(c) => x.validated
StagesOK == \A s \in Sessions : StageOK(sess[s], conn[s])

PlacesOK ==
    \A a \in Addresses :
        LET s == table.sessions[a]
            p == table.pending[a]
        IN  /\ s # Nil => sess[s].remote = a
            /\ p # Nil => sess[p].remote = a /\ p # s /\ ~Proved(conn[p])

\* RoutesAreLive, and that the tables name no unused session.
Live(x) == x.state = "open" \/ x.removing \/ x.late
EntriesOK ==
    \A s \in Entries(table) :
        sess[s].state # "unused" /\ (listener.closed \/ Live(sess[s]))

\* A session waits for Accept once, and has no Conn until then.
Unaccepted(s) == sess[s].state # "unused" /\ conn[s].hs = "none"
AcceptOK ==
    /\ DOMAIN listener = {"closed", "accept", "closing", "world"}
    /\ listener.accept \in Seq(Sessions)
    /\ acceptor \in SessionOrNil
    /\ \A i \in 1 .. Len(listener.accept) : Unaccepted(listener.accept[i])
    /\ \A i, j \in 1 .. Len(listener.accept) :
          listener.accept[i] = listener.accept[j] => i = j
    /\ acceptor # Nil => /\ Unaccepted(acceptor)
                         /\ \A i \in 1 .. Len(listener.accept) : listener.accept[i] # acceptor

\* An open session is in the tables or about to be closed.
OpenOK ==
    /\ listener.closing \subseteq Sessions
    /\ listener.closing # {} => listener.closed
    /\ \A s \in Sessions :
          sess[s].state = "open" =>
              \/ ~listener.closed /\ s \in InTables(table)
              \/ s \in listener.closing
              \/ \E x \in Sessions : conn[x].old = s

LInv ==
    /\ ConnsOK
    /\ SessionsOK
    /\ TablesOK
    /\ StagesOK
    /\ PlacesOK
    /\ EntriesOK
    /\ AcceptOK
    /\ OpenOK

LEMMA NilIsNoSession == Nil \notin Sessions /\ SessionOrNil = Sessions \cup {Nil}
  BY SMT, ListenerAssumption DEF Nil, Sessions, SessionOrNil

LEMMA EntriesAre ==
    ASSUME NEW t
    PROVE  \A s : s \in Entries(t) <=>
               /\ s # Nil
               /\ \/ \E a \in Addresses : t.sessions[a] = s \/ t.pending[a] = s
                  \/ \E c \in CIDs : t.cids[c] = s
  BY DEF Entries, InTables

LEMMA EntriesTyped == ASSUME TablesOK PROVE Entries(table) \subseteq Sessions
  BY SMTT(30), EntriesAre, NilIsNoSession DEF TablesOK

\* What may happen to a session while the tables stay as they are.
Ages(x, y) ==
    /\ y.remote = x.remote
    /\ x.state # "unused" => y.state # "unused"
    /\ Live(x) => Live(y)
    /\ y.state = "open" => x.state = "open"

LEMMA SamePlaces ==
    ASSUME LInv, ConnsOK', SessionsOK', StagesOK', AcceptOK', TablesOK',
           table'.sessions = table.sessions, table'.pending = table.pending,
           \A c \in CIDs : table'.cids[c] # table.cids[c] =>
               /\ table'.cids[c] \in Sessions
               /\ sess'[table'.cids[c]].state # "unused"
               /\ Live(sess'[table'.cids[c]]),
           listener'.closed = listener.closed, listener'.closing = listener.closing,
           \A x \in Sessions : Ages(sess[x], sess'[x]),
           \A x \in Sessions : /\ \/ conn'[x].old = conn[x].old
                                  \/ conn[x].old = Nil
                                  \/ sess'[conn[x].old].state # "open"
                               /\ Proved(conn'[x]) => Proved(conn[x])
    PROVE  LInv'
<1>1. PlacesOK'
  <2> SUFFICES ASSUME NEW a \in Addresses
               PROVE  /\ table.sessions[a] # Nil => sess'[table.sessions[a]].remote = a
                      /\ table.pending[a] # Nil =>
                            /\ sess'[table.pending[a]].remote = a
                            /\ table.pending[a] # table.sessions[a]
                            /\ ~Proved(conn'[table.pending[a]])
    BY SMTT(30) DEF PlacesOK, Proved
  <2>1. table.sessions[a] \in Sessions \cup {Nil} /\ table.pending[a] \in Sessions \cup {Nil}
    BY NilIsNoSession DEF LInv, TablesOK
  <2>2. /\ table.sessions[a] # Nil => sess[table.sessions[a]].remote = a
        /\ table.pending[a] # Nil =>
              /\ sess[table.pending[a]].remote = a
              /\ table.pending[a] # table.sessions[a]
              /\ ~Proved(conn[table.pending[a]])
    BY DEF LInv, PlacesOK
  <2>3. \A x \in Sessions : sess'[x].remote = sess[x].remote
    BY DEF Ages
  <2> QED
    BY <2>1, <2>2, <2>3
<1>2. EntriesOK'
  <2> SUFFICES ASSUME NEW s \in Entries(table')
               PROVE  sess'[s].state # "unused" /\ (listener.closed \/ Live(sess'[s]))
    BY DEF EntriesOK, Live
  <2>1. \/ s \in Entries(table)
        \/ \E c \in CIDs : table'.cids[c] = s /\ table'.cids[c] # table.cids[c]
    <3>1. /\ s # Nil
          /\ \/ \E a \in Addresses : table'.sessions[a] = s \/ table'.pending[a] = s
             \/ \E c \in CIDs : table'.cids[c] = s
      BY DEF Entries, InTables
    <3>2. \/ \E a \in Addresses : table.sessions[a] = s \/ table.pending[a] = s
          \/ \E c \in CIDs : table'.cids[c] = s
      BY <3>1
    <3> QED
      BY <3>1, <3>2, EntriesAre
  <2>2. CASE s \in Entries(table)
    BY <2>2, EntriesTyped DEF LInv, EntriesOK, Ages
  <2> QED
    BY <2>1, <2>2
<1>3. OpenOK'
  <2>1. InTables(table') = InTables(table)
    BY DEF InTables
  <2> SUFFICES ASSUME NEW s \in Sessions, sess'[s].state = "open"
               PROVE  \/ ~listener.closed /\ s \in InTables(table)
                      \/ s \in listener.closing
                      \/ \E x \in Sessions : conn'[x].old = s
    BY <2>1 DEF LInv, OpenOK
  <2>2. \/ ~listener.closed /\ s \in InTables(table)
        \/ s \in listener.closing
        \/ \E x \in Sessions : conn[x].old = s
    BY DEF LInv, OpenOK, Ages
  <2> QED
    BY <2>2, NilIsNoSession
<1> QED
  BY <1>1, <1>2, <1>3 DEF LInv

LEMMA SameTables ==
    ASSUME LInv, ConnsOK', SessionsOK', StagesOK', AcceptOK', UNCHANGED table,
           listener'.closed = listener.closed, listener'.closing = listener.closing,
           \A x \in Sessions : Ages(sess[x], sess'[x]),
           \A x \in Sessions : /\ \/ conn'[x].old = conn[x].old
                                  \/ sess'[conn[x].old].state # "open"
                               /\ Proved(conn'[x]) => Proved(conn[x])
    PROVE  LInv'
<1>1. TablesOK'
  BY DEF LInv, TablesOK
<1> QED
  BY <1>1, SamePlaces


(***************************************************************************)
(* Steps that change one connection and nothing else.                      *)
(***************************************************************************)
Changes(s, c) == conn' = [conn EXCEPT ![s] = c]
Evolves(b, c) ==
    /\ c.old = b.old
    /\ Proved(c) => Proved(b)
    /\ c.hs = "none" <=> b.hs = "none"

LEMMA OneConn ==
    ASSUME ConnsOK, NEW s, NEW c, Changes(s, c), s \in Sessions => ConnOK(c)
    PROVE  ConnsOK'
  BY DEF ConnsOK, Changes

LEMMA EvolvesAll ==
    ASSUME LInv, NEW s \in Sessions, NEW c, Changes(s, c), ConnOK(c), Evolves(conn[s], c)
    PROVE  ConnsOK' /\ \A x \in Sessions : Evolves(conn[x], conn'[x])
<1>1. ConnsOK'
  BY OneConn DEF LInv
<1>2. \A x \in Sessions : Evolves(conn[x], conn'[x])
  BY DEF LInv, ConnsOK, Changes, Evolves
<1> QED
  BY <1>1, <1>2

LEMMA NewConnOK == ConnOK(NewConn) /\ ConnOK(NoConn)
  BY DEF ConnOK, NewConn, NoConn, ConnFields, Handshaking, Ended

LEMMA SameAccept ==
    ASSUME LInv, UNCHANGED <<listener, acceptor>>,
           \A x \in Sessions : Unaccepted(x) => sess'[x].state # "unused" /\ conn'[x].hs = "none"
    PROVE  AcceptOK'
<1>1. \A i \in 1 .. Len(listener.accept) : listener.accept[i] \in Sessions
  BY SMT DEF LInv, AcceptOK
<1> QED
  BY <1>1, NilIsNoSession DEF LInv, AcceptOK, Unaccepted

LEMMA OnlyConn ==
    ASSUME LInv, NEW s \in Sessions, NEW c, Changes(s, c),
           UNCHANGED <<table, sess, listener, reader, acceptor>>,
           ConnOK(c), Evolves(conn[s], c)
    PROVE  LInv'
<1>1. ConnsOK'
  BY EvolvesAll
<1>2. \A x \in Sessions : Evolves(conn[x], conn'[x])
  BY EvolvesAll
<1>3. SessionsOK'
  BY DEF LInv, SessionsOK, QueuesReleased
<1>4. StagesOK'
  BY <1>2 DEF LInv, StagesOK, StageOK, Evolves
<1>5. AcceptOK'
  BY <1>2, SameAccept DEF Unaccepted, Evolves
<1>6. \A x \in Sessions : Ages(sess[x], sess'[x])
  BY DEF Ages
<1> QED
  BY <1>1, <1>2, <1>3, <1>4, <1>5, <1>6, SameTables DEF Evolves

LEMMA HandshakeEvolves ==
    ASSUME LInv, NEW s \in Sessions,
           StartHandshake(s) \/ InstallKeys(s) \/ completeHandshake(s)
    PROVE  LInv'
<1> USE DEF ConnFields, Handshaking, Ended, Proved
<1>1. ConnOK(conn[s]) /\ DOMAIN conn = Sessions
  BY DEF LInv, ConnsOK
<1>2. CASE StartHandshake(s) /\ conn[s].closed
  <2> DEFINE c == [conn[s] EXCEPT !.hs = "done", !.err = TRUE, !.cancelled = TRUE]
  <2>1. Changes(s, c)
    BY <1>1, <1>2 DEF StartHandshake, Changes
  <2>2. ConnOK(c) /\ Evolves(conn[s], c)
    BY <1>1, <1>2 DEF ConnOK, Evolves, StartHandshake
  <2>3. UNCHANGED <<table, sess, listener, reader, acceptor>>
    BY <1>2 DEF StartHandshake
  <2> QED
    BY <2>1, <2>2, <2>3, OnlyConn
<1>3. CASE StartHandshake(s) /\ ~conn[s].closed
  <2> DEFINE c == [conn[s] EXCEPT !.hs = "running", !.handshaking = TRUE]
  <2>1. Changes(s, c)
    BY <1>1, <1>3 DEF StartHandshake, Changes
  <2>2. ConnOK(c) /\ Evolves(conn[s], c)
    BY <1>1, <1>3 DEF ConnOK, Evolves, StartHandshake
  <2>3. UNCHANGED <<table, sess, listener, reader, acceptor>>
    BY <1>3 DEF StartHandshake
  <2> QED
    BY <2>1, <2>2, <2>3, OnlyConn
<1>4. CASE InstallKeys(s)
  <2> DEFINE c == [conn[s] EXCEPT !.hs = "installed", !.secrets = TRUE]
  <2>1. Changes(s, c)
    BY <1>1, <1>4 DEF InstallKeys, Changes
  <2>2. ConnOK(c) /\ Evolves(conn[s], c)
    BY <1>1, <1>4 DEF ConnOK, Evolves, InstallKeys
  <2>3. UNCHANGED <<table, sess, listener, reader, acceptor>>
    BY <1>4 DEF InstallKeys
  <2> QED
    BY <2>1, <2>2, <2>3, OnlyConn
<1>5. CASE completeHandshake(s)
  <2>1. PICK failed \in BOOLEAN :
          /\ conn[s].hs # "validated" => failed
          /\ Changes(s, Completed(conn[s], HandshakeError(conn[s], failed)))
    BY <1>5 DEF completeHandshake, Changes
  <2> DEFINE err == HandshakeError(conn[s], failed)
  <2>2. /\ conn[s].closed \/ conn[s].cancelled => err
        /\ conn[s].hs # "validated" => err
        /\ conn[s].hs # "none" /\ conn[s].old = Nil
        /\ conn[s].reading # "no" => conn[s].hs = "done"
        /\ conn[s].hs # "done"
    BY <1>1, <1>5, <2>1 DEF HandshakeError, completeHandshake, ConnOK
  <2> HIDE DEF err
  <2>3. ConnOK(Completed(conn[s], err)) /\ Evolves(conn[s], Completed(conn[s], err))
    BY <1>1, <2>2 DEF ConnOK, Completed, Evolves
  <2>4. UNCHANGED <<table, sess, listener, reader, acceptor>>
    BY <1>5 DEF completeHandshake
  <2> QED
    BY <2>1, <2>3, <2>4, OnlyConn DEF err
<1> QED
  BY <1>2, <1>3, <1>4, <1>5

LEMMA ReaderEvolves ==
    ASSUME LInv, NEW s \in Sessions,
           \/ startRecordReader(s) \/ Dispatch(s) \/ DispatchFails(s) \/ finishRecordReader(s)
    PROVE  LInv'
<1> USE DEF ConnFields, Handshaking, Ended, Proved
<1>1. ConnOK(conn[s]) /\ DOMAIN conn = Sessions
  BY DEF LInv, ConnsOK
<1>2. CASE startRecordReader(s)
  <2> DEFINE c == [conn[s] EXCEPT !.reading = "waiting"]
  <2>1. Changes(s, c)
    BY <1>1, <1>2 DEF startRecordReader, Changes
  <2>2. ConnOK(c) /\ Evolves(conn[s], c)
    BY <1>1, <1>2 DEF ConnOK, Evolves, startRecordReader
  <2>3. UNCHANGED <<table, sess, listener, reader, acceptor>>
    BY <1>2 DEF startRecordReader
  <2> QED
    BY <2>1, <2>2, <2>3, OnlyConn
<1>3. CASE Dispatch(s)
  <2> DEFINE c == [conn[s] EXCEPT !.reading = "waiting", !.from = NoAddress]
  <2>1. Changes(s, c)
    BY <1>1, <1>3 DEF Dispatch, Changes, Dispatched
  <2>2. ConnOK(c) /\ Evolves(conn[s], c)
    BY <1>1, <1>3 DEF ConnOK, Evolves, Dispatch
  <2>3. UNCHANGED <<table, sess, listener, reader, acceptor>>
    BY <1>3 DEF Dispatch
  <2> QED
    BY <2>1, <2>2, <2>3, OnlyConn
<1>4. CASE DispatchFails(s)
  <2> DEFINE c == [conn[s] EXCEPT !.reading = "stopped", !.failer = "cancelled", !.cancelled = TRUE]
  <2>1. Changes(s, c)
    BY <1>1, <1>4 DEF DispatchFails, Changes
  <2>2. ConnOK(c) /\ Evolves(conn[s], c)
    BY <1>1, <1>4 DEF ConnOK, Evolves, DispatchFails
  <2>3. UNCHANGED <<table, sess, listener, reader, acceptor>>
    BY <1>4 DEF DispatchFails
  <2> QED
    BY <2>1, <2>2, <2>3, OnlyConn
<1>5. CASE finishRecordReader(s)
  <2>1. PICK timeout \in BOOLEAN :
          Changes(s, [conn[s] EXCEPT !.reading = "no",
                                     !.cancelled = @ \/ (~timeout /\ ~conn[s].closed)])
    BY <1>1, <1>5 DEF finishRecordReader, Changes
  <2> DEFINE failed == ~timeout /\ ~conn[s].closed
             c == [conn[s] EXCEPT !.reading = "no", !.cancelled = @ \/ failed]
  <2> HIDE DEF failed
  <2>2. ConnOK(c) /\ Evolves(conn[s], c)
    BY <1>1 DEF ConnOK, Evolves
  <2>3. UNCHANGED <<table, sess, listener, reader, acceptor>>
    BY <1>5 DEF finishRecordReader
  <2> QED
    BY <2>1, <2>2, <2>3, OnlyConn DEF failed
<1> QED
  BY <1>2, <1>3, <1>4, <1>5

LEMMA EndEvolves ==
    ASSUME LInv, NEW s \in Sessions,
           TimerFails(s) \/ FailClears(s) \/ CloseClears(s) \/ Close(s)
    PROVE  LInv'
<1> USE DEF ConnFields, Handshaking, Ended, Proved
<1>1. ConnOK(conn[s]) /\ DOMAIN conn = Sessions
  BY DEF LInv, ConnsOK
<1>2. CASE TimerFails(s)
  <2> DEFINE c == [conn[s] EXCEPT !.failer = "cancelled", !.cancelled = TRUE]
  <2>1. Changes(s, c)
    BY <1>1, <1>2 DEF TimerFails, Changes
  <2>2. ConnOK(c) /\ Evolves(conn[s], c)
    BY <1>1, <1>2 DEF ConnOK, Evolves, TimerFails
  <2>3. UNCHANGED <<table, sess, listener, reader, acceptor>>
    BY <1>2 DEF TimerFails
  <2> QED
    BY <2>1, <2>2, <2>3, OnlyConn
<1>3. CASE FailClears(s)
  <2> DEFINE c == [conn[s] EXCEPT !.failer = "cleared", !.secrets = conn[s].secrets /\ conn[s].handshaking]
  <2>1. Changes(s, c)
    BY <1>1, <1>3 DEF FailClears, Changes
  <2>2. ConnOK(c) /\ Evolves(conn[s], c)
    BY <1>1, <1>3 DEF ConnOK, Evolves, FailClears
  <2>3. UNCHANGED <<table, sess, listener, reader, acceptor>>
    BY <1>3 DEF FailClears
  <2> QED
    BY <2>1, <2>2, <2>3, OnlyConn
<1>4. CASE CloseClears(s)
  <2> DEFINE c == [conn[s] EXCEPT !.closer = "cleared", !.secrets = FALSE]
  <2>1. Changes(s, c)
    BY <1>1, <1>4 DEF CloseClears, Changes
  <2>2. ConnOK(c) /\ Evolves(conn[s], c)
    BY <1>1, <1>4 DEF ConnOK, Evolves, CloseClears
  <2>3. UNCHANGED <<table, sess, listener, reader, acceptor>>
    BY <1>4 DEF CloseClears
  <2> QED
    BY <2>1, <2>2, <2>3, OnlyConn
<1>5. CASE Close(s)
  <2> DEFINE c == [conn[s] EXCEPT !.closed = TRUE, !.cancelled = TRUE,
                                  !.closer = IF conn[s].handshaking THEN "cleared" ELSE "alerted"]
  <2>1. Changes(s, c)
    BY <1>1, <1>5 DEF Close, Changes
  <2>2. ConnOK(c) /\ Evolves(conn[s], c)
    BY <1>1, <1>5 DEF ConnOK, Evolves, Close
  <2>3. UNCHANGED <<table, sess, listener, reader, acceptor>>
    BY <1>5 DEF Close
  <2> QED
    BY <2>1, <2>2, <2>3, OnlyConn
<1> QED
  BY <1>2, <1>3, <1>4, <1>5

(***************************************************************************)
(* Steps that change one session, with or without its connection.          *)
(***************************************************************************)
SessionOK(s, x) ==
    /\ DOMAIN x = SessionFields
    /\ x.in \in Seq(Addresses)
    /\ x.state \in {"unused", "open", "closed"}
    /\ x.removing => x.state = "closed"
    /\ x.state # "unused" => x.remote \in Addresses
    /\ x.state = "closed" /\ reader.pushed # s => x.in = <<>>

LEMMA SessionsAre ==
    SessionsOK <=> /\ DOMAIN sess = Sessions
                   /\ \A s \in Sessions : SessionOK(s, sess[s])
                   /\ DOMAIN reader = {"targets", "from", "pushed", "arrived"}
                   /\ reader.targets # <<>> => reader.from \in Addresses
  BY DEF SessionsOK, SessionOK, QueuesReleased

SessionChanges(s, x) == sess' = [sess EXCEPT ![s] = x]

LEMMA OneSession ==
    ASSUME SessionsOK, UNCHANGED reader, NEW s \in Sessions, NEW x, SessionChanges(s, x),
           SessionOK(s, x)
    PROVE  SessionsOK'
<1>1. /\ DOMAIN sess' = Sessions
      /\ sess'[s] = x
      /\ \A r \in Sessions : r # s => sess'[r] = sess[r]
  BY DEF SessionsOK, SessionChanges
<1> QED
  BY <1>1 DEF SessionsOK, SessionOK, QueuesReleased

\* closeOnce.
LEMMA CloseShape ==
    ASSUME NEW s, NEW x, SessionOK(s, x), NEW y,
           y = closeWithoutCallback(x) \/ y = SessionClose(x)
    PROVE  /\ SessionOK(s, y)
           /\ y.remote = x.remote /\ y.validated = x.validated /\ y.late = x.late
           /\ x.state # "open" => y = x
           /\ x.state = "open" => y.state = "closed"
           /\ y = SessionClose(x) => Ages(x, y)
<1> USE DEF SessionFields
<1>1. CASE x.state # "open"
  BY <1>1 DEF closeWithoutCallback, SessionClose, Ages
<1>2. CASE x.state = "open"
  <2>1. ~x.removing
    BY <1>2 DEF SessionOK
  <2> DEFINE z == [x EXCEPT !.state = "closed", !.in = <<>>]
  <2>2. /\ DOMAIN z = SessionFields /\ z.state = "closed" /\ z.in = <<>>
        /\ z.remote = x.remote /\ z.validated = x.validated /\ z.late = x.late
    BY DEF SessionOK
  <2>3. z.removing = x.removing
    BY DEF SessionOK
  <2>4. <<>> \in Seq(Addresses)
    BY SMT
  <2>5. closeWithoutCallback(x) = z /\ SessionClose(x) = [z EXCEPT !.removing = TRUE]
    BY <1>2 DEF closeWithoutCallback, SessionClose
  <2> HIDE DEF z
  <2>6. CASE y = z
    BY <1>2, <2>1, <2>2, <2>3, <2>4, <2>5, <2>6 DEF SessionOK, Ages, Live
  <2>7. CASE y = [z EXCEPT !.removing = TRUE]
    <3>1. /\ DOMAIN y = SessionFields /\ y.state = "closed" /\ y.in = <<>>
          /\ y.remote = x.remote /\ y.validated = x.validated /\ y.late = x.late
      BY <2>2, <2>7
    <3>2. y.removing
      BY <2>2, <2>7
    <3> QED
      BY <1>2, <2>4, <3>1, <3>2 DEF SessionOK, Ages, Live
  <2> QED
    BY <2>5, <2>6, <2>7
<1> QED
  BY <1>1, <1>2

LEMMA ConnAndSession ==
    ASSUME LInv, UNCHANGED <<table, listener, reader, acceptor>>,
           ConnsOK', \A y \in Sessions : Evolves(conn[y], conn'[y]),
           NEW r \in Sessions, NEW x, SessionChanges(r, x), SessionOK(r, x),
           Ages(sess[r], x), x.validated = sess[r].validated
    PROVE  LInv'
<1>1. SessionsOK'
  BY OneSession DEF LInv
<1>2. \A y \in Sessions : Ages(sess[y], sess'[y]) /\ sess'[y].validated = sess[y].validated
  <2>1. \A y \in Sessions : Ages(sess[y], sess[y])
    BY DEF Ages
  <2> QED
    BY <2>1 DEF LInv, SessionsOK, SessionChanges
<1>3. StagesOK'
  BY <1>2 DEF LInv, StagesOK, StageOK, Evolves, Ages
<1>4. AcceptOK'
  BY <1>2, SameAccept DEF Unaccepted, Evolves, Ages
<1> QED
  BY <1>1, <1>2, <1>3, <1>4, SameTables DEF Evolves

LEMMA SessionTyped ==
    ASSUME LInv, NEW s \in Sessions
    PROVE  /\ SessionOK(s, sess[s]) /\ DOMAIN sess = Sessions
           /\ ConnOK(conn[s]) /\ DOMAIN conn = Sessions
  BY SessionsAre DEF LInv, ConnsOK

\* A datagram is taken from the queue.
LEMMA TakenShape ==
    ASSUME NEW s, NEW x, SessionOK(s, x), x.in # <<>>
    PROVE  LET y == [x EXCEPT !.in = Tail(x.in)]
           IN  /\ SessionOK(s, y) /\ Ages(x, y) /\ y.validated = x.validated
               /\ Head(x.in) \in Addresses
<1> DEFINE y == [x EXCEPT !.in = Tail(x.in)]
<1>1. x.in \in Seq(Addresses)
  BY DEF SessionOK
<1>2. Tail(x.in) \in Seq(Addresses) /\ Head(x.in) \in Addresses
  BY SMT, <1>1
<1>3. /\ DOMAIN y = SessionFields /\ y.in = Tail(x.in) /\ y.state = x.state
      /\ y.remote = x.remote
  BY DEF SessionOK, SessionFields
<1>4. y.removing = x.removing /\ y.validated = x.validated /\ y.late = x.late
  BY DEF SessionOK, SessionFields
<1>5. x.state = "closed" => ~(reader.pushed # s)
  BY DEF SessionOK
<1> HIDE DEF y
<1>6. SessionOK(s, y) /\ Ages(x, y)
  BY <1>2, <1>3, <1>4, <1>5 DEF SessionOK, Ages, Live
<1> QED
  BY <1>2, <1>4, <1>6 DEF y

LEMMA ReadsKeep ==
    ASSUME LInv, NEW s \in Sessions, HandshakeReads(s) \/ ReadRecord(s)
    PROVE  LInv'
<1> DEFINE x == [sess[s] EXCEPT !.in = Tail(sess[s].in)]
<1>1. SessionOK(s, sess[s]) /\ DOMAIN sess = Sessions /\ ConnOK(conn[s]) /\ DOMAIN conn = Sessions
  BY SessionTyped
<1>2. sess[s].in # <<>> /\ SessionChanges(s, x) /\ UNCHANGED <<table, listener, reader, acceptor>>
  BY <1>1 DEF HandshakeReads, ReadRecord, SessionChanges
<1>3. /\ SessionOK(s, x) /\ Ages(sess[s], x) /\ x.validated = sess[s].validated
      /\ Head(sess[s].in) \in Addresses
  BY <1>1, <1>2, TakenShape
<1> HIDE DEF x
<1>4. CASE HandshakeReads(s)
  <2>1. UNCHANGED conn
    BY <1>4 DEF HandshakeReads
  <2>2. ConnsOK' /\ \A y \in Sessions : Evolves(conn[y], conn'[y])
    BY <2>1 DEF LInv, ConnsOK, Evolves
  <2> QED
    BY <1>2, <1>3, <2>2, ConnAndSession
<1>5. CASE ReadRecord(s)
  <2> DEFINE c == [conn[s] EXCEPT !.reading = "dispatching", !.from = Head(sess[s].in)]
  <2>1. Changes(s, c)
    BY <1>1, <1>5 DEF ReadRecord, Changes
  <2>2. ConnOK(c) /\ Evolves(conn[s], c)
    BY <1>1, <1>3, <1>5 DEF ConnOK, Evolves, ReadRecord, ConnFields, Ended, Proved
  <2> QED
    BY <1>2, <1>3, <2>1, <2>2, EvolvesAll, ConnAndSession
<1> QED
  BY <1>4, <1>5

LEMMA TransportCloses ==
    ASSUME LInv, NEW s \in Sessions, FailCloses(s) \/ CloseTransport(s)
    PROVE  LInv'
<1> DEFINE x == SessionClose(sess[s])
<1>1. SessionOK(s, sess[s]) /\ DOMAIN sess = Sessions /\ ConnOK(conn[s]) /\ DOMAIN conn = Sessions
  BY SessionTyped
<1>2. SessionChanges(s, x) /\ UNCHANGED <<table, listener, reader, acceptor>>
  BY <1>1 DEF FailCloses, CloseTransport, SessionChanges
<1>3. SessionOK(s, x) /\ Ages(sess[s], x) /\ x.validated = sess[s].validated
  BY SMTT(30), <1>1, CloseShape
<1> HIDE DEF x
<1>4. CASE FailCloses(s)
  <2> DEFINE c == [conn[s] EXCEPT !.failer = "returned"]
  <2>1. Changes(s, c)
    BY <1>1, <1>4 DEF FailCloses, Changes
  <2>2. ConnOK(c) /\ Evolves(conn[s], c)
    BY <1>1, <1>4 DEF ConnOK, Evolves, FailCloses, ConnFields, Ended, Proved
  <2> QED
    BY <1>2, <1>3, <2>1, <2>2, EvolvesAll, ConnAndSession
<1>5. CASE CloseTransport(s)
  <2> DEFINE c == [conn[s] EXCEPT !.closer = "returned"]
  <2>1. Changes(s, c)
    BY <1>1, <1>5 DEF CloseTransport, Changes
  <2>2. ConnOK(c) /\ Evolves(conn[s], c)
    BY <1>1, <1>5 DEF ConnOK, Evolves, CloseTransport, ConnFields, Ended, Proved
  <2> QED
    BY <1>2, <1>3, <2>1, <2>2, EvolvesAll, ConnAndSession
<1> QED
  BY <1>4, <1>5

\* A session is replaced, closed or taken from the accept queue; what the
\* connections are does not change.
LEMMA SameConns ==
    ASSUME LInv, UNCHANGED <<table, conn>>, SessionsOK', AcceptOK',
           listener'.closed = listener.closed, listener'.closing = listener.closing,
           \A y \in Sessions : /\ Ages(sess[y], sess'[y])
                               /\ sess'[y].validated = sess[y].validated
    PROVE  LInv'
<1>1. ConnsOK'
  BY DEF LInv, ConnsOK
<1>2. StagesOK'
  BY DEF LInv, StagesOK, StageOK, Proved, Ages
<1> QED
  BY <1>1, <1>2, SameTables

LEMMA SessionKeeps ==
    ASSUME LInv, NEW r \in Sessions, NEW x, SessionChanges(r, x), Ages(sess[r], x),
           x.validated = sess[r].validated
    PROVE  \A y \in Sessions : Ages(sess[y], sess'[y]) /\ sess'[y].validated = sess[y].validated
<1>1. \A y \in Sessions : Ages(sess[y], sess[y])
  BY DEF Ages
<1> QED
  BY <1>1 DEF LInv, SessionsOK, SessionChanges

LEMMA CloseOldKeeps ==
    ASSUME LInv, NEW s \in Sessions, CloseOld(s)
    PROVE  LInv'
<1> DEFINE o == conn[s].old
           x == SessionClose(sess[o])
           c == [conn[s] EXCEPT !.old = Nil]
<1>1. ConnOK(conn[s]) /\ DOMAIN conn = Sessions
  BY SessionTyped
<1>2. o \in Sessions /\ o # Nil /\ conn[s].hs = "validated"
  BY <1>1 DEF CloseOld, ConnOK
<1>3. SessionOK(o, sess[o]) /\ DOMAIN sess = Sessions
  BY <1>2, SessionTyped
<1>4. /\ SessionChanges(o, x) /\ Changes(s, c) /\ UNCHANGED <<table, listener, reader, acceptor>>
  BY <1>1, <1>3 DEF CloseOld, SessionChanges, Changes
<1>5. /\ SessionOK(o, x) /\ Ages(sess[o], x) /\ x.validated = sess[o].validated
      /\ x.state # "open"
  BY SMTT(30), <1>3, CloseShape
<1>6. ConnOK(c) /\ (Proved(c) => Proved(conn[s])) /\ c.hs = conn[s].hs
  BY <1>1, <1>2 DEF ConnOK, ConnFields, Ended, Proved, Handshaking
<1> HIDE DEF o, x, c
<1>7. ConnsOK'
  BY <1>4, <1>6, OneConn DEF LInv
<1>8. SessionsOK'
  BY <1>2, <1>4, <1>5, OneSession DEF LInv
<1>9. \A y \in Sessions : Ages(sess[y], sess'[y]) /\ sess'[y].validated = sess[y].validated
  BY <1>2, <1>4, <1>5, SessionKeeps
<1>10. \A y \in Sessions : /\ conn'[y].old = conn[y].old \/ y = s
                           /\ Proved(conn'[y]) => Proved(conn[y])
                           /\ conn'[y].hs = conn[y].hs
  BY <1>1, <1>4, <1>6 DEF Changes
<1>11. StagesOK'
  BY <1>9, <1>10 DEF LInv, StagesOK, StageOK, Ages
<1>12. AcceptOK'
  BY <1>4, <1>9, <1>10, SameAccept DEF Unaccepted, Ages
<1>13. sess'[conn[s].old].state # "open"
  BY <1>2, <1>3, <1>4, <1>5 DEF SessionChanges, o
<1> QED
  BY <1>4, <1>7, <1>8, <1>9, <1>10, <1>11, <1>12, <1>13, SameTables

(***************************************************************************)
(* The read loop, without new sessions.                                    *)
(***************************************************************************)
LEMMA RemainingShape ==
    ASSUME NEW from, NEW targets, NEW n, from \in Addresses \/ targets = <<>>
    PROVE  LET r == Remaining(from, targets, n)
           IN  /\ DOMAIN r = {"targets", "from", "pushed", "arrived"}
               /\ r.pushed = Nil
               /\ r.targets # <<>> => r.from \in Addresses
  BY DEF Remaining

LEMMA RouteKeeps ==
    ASSUME LInv, NEW from \in Addresses, NEW targets, reader.pushed = Nil,
           reader' = Routed(from, targets),
           UNCHANGED <<table, sess, listener, acceptor, conn>>
    PROVE  LInv'
<1>1. /\ DOMAIN reader' = {"targets", "from", "pushed", "arrived"}
      /\ reader'.pushed = Nil
      /\ reader'.targets # <<>> => reader'.from \in Addresses
  BY RemainingShape DEF Routed
<1>2. SessionsOK'
  BY <1>1 DEF LInv, SessionsOK, QueuesReleased
<1>3. AcceptOK'
  BY DEF LInv, AcceptOK, Unaccepted
<1>4. \A y \in Sessions : Ages(sess[y], sess'[y]) /\ sess'[y].validated = sess[y].validated
  BY DEF Ages
<1> QED
  BY <1>2, <1>3, <1>4, SameConns

LEMMA AcceptUnchanged ==
    ASSUME LInv, UNCHANGED <<listener, acceptor, conn>>,
           \A y \in Sessions : Ages(sess[y], sess'[y])
    PROVE  AcceptOK'
  BY SameAccept DEF Unaccepted, Ages

LEMMA QueueChanges ==
    ASSUME LInv, NEW s \in Sessions, NEW q \in Seq(Addresses)
    PROVE  LET x == [sess[s] EXCEPT !.in = q]
           IN  /\ DOMAIN x = SessionFields /\ x.in = q /\ x.state = sess[s].state
               /\ x.removing = sess[s].removing /\ x.remote = sess[s].remote
               /\ x.validated = sess[s].validated /\ Ages(sess[s], x)
<1>1. DOMAIN sess[s] = SessionFields
  BY DEF LInv, SessionsOK
<1> DEFINE x == [sess[s] EXCEPT !.in = q]
<1>2. DOMAIN x = SessionFields /\ x.in = q /\ x.state = sess[s].state /\ x.remote = sess[s].remote
  BY <1>1 DEF SessionFields
<1>3. x.removing = sess[s].removing /\ x.validated = sess[s].validated /\ x.late = sess[s].late
  BY <1>1 DEF SessionFields
<1> HIDE DEF x
<1>4. Ages(sess[s], x)
  BY <1>2, <1>3 DEF Ages, Live
<1> QED
  BY <1>2, <1>3, <1>4 DEF x

LEMMA PushKeeps == ASSUME LInv, Push PROVE LInv'
<1> DEFINE s == Head(reader.targets)
<1>1. /\ reader.targets # <<>> /\ reader.pushed = Nil /\ reader.from \in Addresses
      /\ UNCHANGED <<table, listener, acceptor, conn>>
      /\ DOMAIN sess = Sessions
      /\ DOMAIN reader = {"targets", "from", "pushed", "arrived"}
      /\ \A y \in Sessions : /\ DOMAIN sess[y] = SessionFields
                             /\ sess[y].in \in Seq(Addresses)
                             /\ sess[y].state \in {"unused", "open", "closed"}
                             /\ sess[y].removing => sess[y].state = "closed"
                             /\ sess[y].state # "unused" => sess[y].remote \in Addresses
                             /\ sess[y].state = "closed" => sess[y].in = <<>>
  BY NilIsNoSession DEF Push, LInv, SessionsOK, QueuesReleased
<1>2. CASE UNCHANGED sess /\ reader' = Remaining(reader.from, Tail(reader.targets), reader.arrived)
  <2>1. /\ DOMAIN reader' = {"targets", "from", "pushed", "arrived"}
        /\ reader'.pushed = Nil
        /\ reader'.targets # <<>> => reader'.from \in Addresses
    BY SMTT(30), <1>1, <1>2, RemainingShape
  <2>2. SessionsOK'
    BY <1>1, <1>2, <2>1 DEF SessionsOK, QueuesReleased
  <2>3. \A y \in Sessions : Ages(sess[y], sess'[y]) /\ sess'[y].validated = sess[y].validated
    BY <1>2 DEF Ages
  <2> QED
    BY <1>1, <2>2, <2>3, AcceptUnchanged, SameConns
<1>3. CASE /\ sess' = [sess EXCEPT ![s].in = Append(@, reader.from)]
           /\ reader' = [reader EXCEPT !.pushed = s, !.targets = Tail(@)]
  <2>1. /\ DOMAIN reader' = {"targets", "from", "pushed", "arrived"}
        /\ reader'.pushed = s /\ reader'.from = reader.from
    BY <1>1, <1>3
  <2> DEFINE x == [sess[s] EXCEPT !.in = Append(sess[s].in, reader.from)]
  <2>2. /\ DOMAIN sess' = Sessions
        /\ \A y \in Sessions : sess'[y] = IF y = s THEN x ELSE sess[y]
    BY <1>1, <1>3
  <2>3. \A y \in Sessions : Ages(sess[y], sess[y])
    BY DEF Ages
  <2>4. ASSUME s \in Sessions
        PROVE  /\ DOMAIN x = SessionFields /\ x.in \in Seq(Addresses) /\ x.state = sess[s].state
               /\ x.removing = sess[s].removing /\ x.remote = sess[s].remote
               /\ x.validated = sess[s].validated /\ Ages(sess[s], x)
    <3>1. Append(sess[s].in, reader.from) \in Seq(Addresses)
      BY SMT, <1>1, <2>4
    <3> QED
      BY <2>4, <3>1, QueueChanges
  <2> HIDE DEF x, s
  <2>5. SessionsOK'
    <3>1. reader'.targets # <<>> => reader'.from \in Addresses
      BY <1>1, <2>1
    <3>2. ASSUME NEW y \in Sessions
          PROVE  /\ DOMAIN sess'[y] = SessionFields
                 /\ sess'[y].in \in Seq(Addresses)
                 /\ sess'[y].state \in {"unused", "open", "closed"}
                 /\ sess'[y].removing => sess'[y].state = "closed"
                 /\ sess'[y].state # "unused" => sess'[y].remote \in Addresses
                 /\ sess'[y].state = "closed" /\ reader'.pushed # y => sess'[y].in = <<>>
      <4>1. CASE y = s
        BY <1>1, <2>1, <2>2, <2>4, <4>1
      <4>2. CASE y # s
        BY <1>1, <2>2, <4>2
      <4> QED
        BY <4>1, <4>2
    <3> QED
      BY <2>1, <2>2, <3>1, <3>2 DEF SessionsOK, QueuesReleased
  <2>6. \A y \in Sessions : Ages(sess[y], sess'[y]) /\ sess'[y].validated = sess[y].validated
    BY <2>2, <2>3, <2>4
  <2> QED
    BY <1>1, <2>5, <2>6, AcceptUnchanged, SameConns
<1> QED
  BY <1>2, <1>3 DEF Push

LEMMA AfterPushKeeps == ASSUME LInv, AfterPush PROVE LInv'
<1> DEFINE s == reader.pushed
           x == [sess[s] EXCEPT !.in = Pushed(s)]
<1>1. /\ UNCHANGED <<table, listener, acceptor, conn>>
      /\ DOMAIN sess = Sessions
      /\ reader.from \in Addresses \/ reader.targets = <<>>
      /\ reader' = Remaining(reader.from, reader.targets, reader.arrived)
      /\ sess' = [sess EXCEPT ![s].in = Pushed(s)]
  BY DEF AfterPush, LInv, SessionsOK
<1>2. \A y \in Sessions : /\ DOMAIN sess[y] = SessionFields
                          /\ sess[y].in \in Seq(Addresses)
                          /\ sess[y].state \in {"unused", "open", "closed"}
                          /\ sess[y].removing => sess[y].state = "closed"
                          /\ sess[y].state # "unused" => sess[y].remote \in Addresses
                          /\ sess[y].state = "closed" /\ y # s => sess[y].in = <<>>
  BY DEF LInv, SessionsOK, QueuesReleased
<1>3. /\ DOMAIN reader' = {"targets", "from", "pushed", "arrived"}
      /\ reader'.pushed = Nil
      /\ reader'.targets # <<>> => reader'.from \in Addresses
  BY SMT, <1>1, RemainingShape
<1>4. /\ DOMAIN sess' = Sessions
      /\ \A y \in Sessions : sess'[y] = IF y = s THEN x ELSE sess[y]
  BY <1>1
<1>5. ASSUME s \in Sessions
      PROVE  /\ DOMAIN x = SessionFields /\ x.in = Pushed(s) /\ x.state = sess[s].state
             /\ x.removing = sess[s].removing /\ x.remote = sess[s].remote
             /\ x.validated = sess[s].validated /\ Ages(sess[s], x)
             /\ Pushed(s) \in Seq(Addresses) /\ (sess[s].state = "closed" => Pushed(s) = <<>>)
  <2>1. Pushed(s) \in Seq(Addresses) /\ (sess[s].state = "closed" => Pushed(s) = <<>>)
    BY SMTT(30), <1>2, <1>5 DEF Pushed
  <2> QED
    BY SMTT(30), <1>5, <2>1, QueueChanges
<1>6. \A y \in Sessions : Ages(sess[y], sess[y])
  BY DEF Ages
<1> HIDE DEF x, s
<1>7. SessionsOK'
  <2>1. ASSUME NEW y \in Sessions
        PROVE  /\ DOMAIN sess'[y] = SessionFields
               /\ sess'[y].in \in Seq(Addresses)
               /\ sess'[y].state \in {"unused", "open", "closed"}
               /\ sess'[y].removing => sess'[y].state = "closed"
               /\ sess'[y].state # "unused" => sess'[y].remote \in Addresses
               /\ sess'[y].state = "closed" => sess'[y].in = <<>>
    <3>1. CASE y = s
      BY <1>2, <1>4, <1>5, <3>1
    <3>2. CASE y # s
      BY <1>2, <1>4, <3>2
    <3> QED
      BY <3>1, <3>2
  <2> QED
    BY <1>3, <1>4, <2>1 DEF SessionsOK, QueuesReleased
<1>8. \A y \in Sessions : Ages(sess[y], sess'[y]) /\ sess'[y].validated = sess[y].validated
  BY <1>4, <1>5, <1>6
<1> QED
  BY <1>1, <1>7, <1>8, AcceptUnchanged, SameConns

(***************************************************************************)
(* Close of the Listener.                                                  *)
(***************************************************************************)
LEMMA ShutdownKeeps == ASSUME LInv, shutdown PROVE LInv'
<1>1. /\ table' = EmptyTable /\ ~listener.closed
      /\ listener' = [listener EXCEPT !.closed = TRUE, !.closing = InTables(table)]
      /\ UNCHANGED <<sess, reader, acceptor, conn>>
  BY DEF shutdown
<1>2. /\ DOMAIN listener' = {"closed", "accept", "closing", "world"}
      /\ listener'.closing = InTables(table) /\ listener'.accept = listener.accept
  BY <1>1 DEF LInv, AcceptOK
<1>3. listener'.closed
  BY <1>1 DEF LInv, AcceptOK
<1>4. ConnsOK' /\ StagesOK'
  BY <1>1 DEF LInv, ConnsOK, StagesOK
<1>5. SessionsOK'
  BY <1>1 DEF LInv, SessionsOK, QueuesReleased
<1>6. TablesOK'
  BY <1>1, NilIsNoSession DEF TablesOK, EmptyTable
<1>7. PlacesOK'
  BY <1>1 DEF PlacesOK, EmptyTable
<1>8. EntriesOK'
  BY <1>1 DEF EntriesOK, Entries, InTables, EmptyTable
<1>9. AcceptOK'
  BY SMTT(30), <1>1, <1>2 DEF LInv, AcceptOK, Unaccepted
<1>10. OpenOK'
  <2>1. InTables(table) \subseteq Sessions
    BY EntriesTyped DEF LInv, Entries
  <2>2. listener.closing = {}
    BY <1>1 DEF LInv, OpenOK
  <2> QED
    BY <1>1, <1>2, <1>3, <2>1, <2>2 DEF LInv, OpenOK
<1> QED
  BY <1>4, <1>5, <1>6, <1>7, <1>8, <1>9, <1>10 DEF LInv

LEMMA ShutdownClosesKeeps ==
    ASSUME LInv, NEW s \in Sessions, ShutdownCloses(s)
    PROVE  LInv'
<1> DEFINE x == closeWithoutCallback(sess[s])
<1>1. SessionOK(s, sess[s]) /\ DOMAIN sess = Sessions
  BY SessionTyped
<1>2. /\ s \in listener.closing /\ listener' = [listener EXCEPT !.closing = @ \ {s}]
      /\ SessionChanges(s, x) /\ UNCHANGED <<table, reader, acceptor, conn>>
  BY <1>1 DEF ShutdownCloses, SessionChanges
<1>3. /\ SessionOK(s, x) /\ x.remote = sess[s].remote /\ x.validated = sess[s].validated
      /\ x.state # "open" /\ (sess[s].state # "unused" => x.state # "unused")
  BY SMTT(30), <1>1, CloseShape
<1> HIDE DEF x
<1>4. \A y \in Sessions :
          /\ sess'[y].remote = sess[y].remote /\ sess'[y].validated = sess[y].validated
          /\ sess[y].state # "unused" => sess'[y].state # "unused"
          /\ sess'[y].state = "open" => sess[y].state = "open" /\ y # s
  BY <1>1, <1>2, <1>3 DEF SessionChanges
<1>5. /\ DOMAIN listener' = {"closed", "accept", "closing", "world"}
      /\ listener'.closing = listener.closing \ {s} /\ listener'.accept = listener.accept
  BY <1>2 DEF LInv, AcceptOK
<1>6. listener'.closed = listener.closed
  BY <1>2 DEF LInv, AcceptOK
<1>7. listener.closed
  BY <1>2 DEF LInv, OpenOK
<1>8. ConnsOK' /\ TablesOK'
  BY <1>2 DEF LInv, ConnsOK, TablesOK
<1>9. SessionsOK'
  BY <1>2, <1>3, OneSession DEF LInv
<1>10. StagesOK'
  BY <1>2, <1>4 DEF LInv, StagesOK, StageOK, Proved
<1>11. PlacesOK'
  <2>1. \A a \in Addresses : /\ table.sessions[a] \in Sessions \cup {Nil}
                             /\ table.pending[a] \in Sessions \cup {Nil}
    BY NilIsNoSession DEF LInv, TablesOK
  <2> QED
    BY SMTT(30), <1>2, <1>4, <2>1 DEF LInv, PlacesOK, Proved
<1>12. EntriesOK'
  BY <1>2, <1>4, <1>6, <1>7, EntriesTyped DEF LInv, EntriesOK
<1>13. AcceptOK'
  <2>1. \A i \in 1 .. Len(listener.accept) : listener.accept[i] \in Sessions
    BY SMT DEF LInv, AcceptOK
  <2> QED
    BY SMTT(30), <1>2, <1>4, <1>5, <2>1, NilIsNoSession DEF LInv, AcceptOK, Unaccepted
<1>14. OpenOK'
  BY <1>2, <1>4, <1>5, <1>6, <1>7 DEF LInv, OpenOK
<1> QED
  BY <1>8, <1>9, <1>10, <1>11, <1>12, <1>13, <1>14 DEF LInv

(***************************************************************************)
(* Accept.                                                                 *)
(***************************************************************************)
LEMMA AcceptTakesKeeps == ASSUME LInv, AcceptTakes PROVE LInv'
<1> DEFINE s == Head(listener.accept)
           q == Tail(listener.accept)
<1>1. /\ acceptor = Nil /\ listener.accept # <<>>
      /\ listener' = [listener EXCEPT !.accept = Tail(@)]
      /\ UNCHANGED <<table, reader, conn>>
      /\ \/ SessionChanges(s, SessionClose(sess[s])) /\ UNCHANGED acceptor
         \/ UNCHANGED sess /\ acceptor' = s
  BY DEF AcceptTakes, SessionChanges
<1>2. /\ DOMAIN listener' = {"closed", "accept", "closing", "world"}
      /\ listener'.closing = listener.closing /\ listener'.accept = q
  BY <1>1 DEF LInv, AcceptOK
<1>3. listener'.closed = listener.closed
  BY <1>1 DEF LInv, AcceptOK
<1>4. /\ listener.accept \in Seq(Sessions) /\ listener.accept # <<>>
      /\ \A i \in 1 .. Len(listener.accept) : Unaccepted(listener.accept[i])
      /\ \A i, j \in 1 .. Len(listener.accept) :
            listener.accept[i] = listener.accept[j] => i = j
  BY <1>1 DEF LInv, AcceptOK
<1>5. /\ s \in Sessions /\ q \in Seq(Sessions) /\ Unaccepted(s)
      /\ \A i \in 1 .. Len(q) : q[i] \in Sessions /\ Unaccepted(q[i]) /\ q[i] # s
      /\ \A i, j \in 1 .. Len(q) : q[i] = q[j] => i = j
  <2>1. /\ s \in Sessions /\ q \in Seq(Sessions) /\ s = listener.accept[1]
        /\ Len(q) = Len(listener.accept) - 1 /\ Len(q) \in Nat /\ Len(listener.accept) \in Nat
        /\ \A i \in 1 .. Len(q) : q[i] = listener.accept[i + 1] /\ q[i] \in Sessions
    BY SMTT(30), <1>4
  <2> QED
    BY SMTT(30), <1>4, <2>1
<1>6. SessionOK(s, sess[s]) /\ DOMAIN sess = Sessions
  BY <1>5, SessionTyped
<1>7. /\ SessionsOK'
      /\ \A y \in Sessions : Ages(sess[y], sess'[y]) /\ sess'[y].validated = sess[y].validated
  <2>1. CASE UNCHANGED sess
    BY <1>1, <2>1 DEF LInv, SessionsOK, QueuesReleased, Ages
  <2>2. CASE SessionChanges(s, SessionClose(sess[s]))
    <3> DEFINE x == SessionClose(sess[s])
    <3>1. SessionOK(s, x) /\ Ages(sess[s], x) /\ x.validated = sess[s].validated
      BY SMTT(30), <1>6, CloseShape
    <3> HIDE DEF x, s
    <3>2. SessionChanges(s, x)
      BY <2>2 DEF x
    <3>3. SessionsOK'
      BY <1>1, <1>5, <3>1, <3>2, OneSession DEF LInv
    <3> QED
      BY <1>5, <3>1, <3>2, <3>3, SessionKeeps
  <2> QED
    BY <1>1, <2>1, <2>2
<1> HIDE DEF s, q
<1>8. \A y \in Sessions : Unaccepted(y) => sess'[y].state # "unused" /\ conn'[y].hs = "none"
  BY <1>1, <1>7 DEF Unaccepted, Ages
<1>9. AcceptOK'
  <2>1. acceptor' = Nil \/ acceptor' = s
    BY <1>1
  <2>2. /\ \A i \in 1 .. Len(q) : sess'[q[i]].state # "unused" /\ conn'[q[i]].hs = "none"
        /\ sess'[s].state # "unused" /\ conn'[s].hs = "none"
    BY <1>5, <1>8
  <2>3. acceptor' \in SessionOrNil
    BY <1>5, <2>1, NilIsNoSession
  <2> QED
    BY <1>2, <1>5, <2>1, <2>2, <2>3 DEF AcceptOK, Unaccepted
<1> QED
  BY <1>1, <1>2, <1>3, <1>7, <1>9, SameConns

\* The goroutine in Accept lets go of its session.
LEMMA AcceptLetsGo ==
    ASSUME LInv, acceptor # Nil, acceptor' = Nil, UNCHANGED listener,
           \A y \in Sessions : Unaccepted(y) /\ y # acceptor =>
               sess'[y].state # "unused" /\ conn'[y].hs = "none"
    PROVE  AcceptOK'
<1>1. \A i \in 1 .. Len(listener.accept) :
          listener.accept[i] \in Sessions /\ listener.accept[i] # acceptor
  BY SMTT(30) DEF LInv, AcceptOK
<1> QED
  BY <1>1, NilIsNoSession DEF LInv, AcceptOK, Unaccepted

LEMMA RefusedKeeps ==
    ASSUME LInv, acceptor # Nil, acceptor' = Nil, NEW cid, Refused(acceptor, cid)
    PROVE  LInv'
<1> DEFINE s == acceptor
           z == [sess[s] EXCEPT !.cid = cid]
           x == SessionClose(z)
<1>1. s \in Sessions
  BY NilIsNoSession DEF LInv, AcceptOK
<1>2. SessionOK(s, sess[s]) /\ DOMAIN sess = Sessions
  BY <1>1, SessionTyped
<1>3. SessionChanges(s, x) /\ UNCHANGED <<table, listener, reader, conn>>
  BY <1>2 DEF Refused, SessionChanges
<1>4. /\ DOMAIN z = SessionFields /\ z.in = sess[s].in /\ z.state = sess[s].state
      /\ z.remote = sess[s].remote
  BY <1>2 DEF SessionOK, SessionFields
<1>5. z.removing = sess[s].removing /\ z.validated = sess[s].validated /\ z.late = sess[s].late
  BY <1>2 DEF SessionOK, SessionFields
<1> HIDE DEF z
<1>6. SessionOK(s, z) /\ Ages(sess[s], z)
  BY <1>2, <1>4, <1>5 DEF SessionOK, Ages, Live
<1>7. SessionOK(s, x) /\ Ages(z, x) /\ x.validated = z.validated
  BY SMTT(30), <1>6, CloseShape
<1> HIDE DEF x
<1>8. Ages(sess[s], x) /\ x.validated = sess[s].validated
  BY <1>5, <1>6, <1>7 DEF Ages
<1>9. SessionsOK'
  BY <1>1, <1>3, <1>7, OneSession DEF LInv
<1>10. \A y \in Sessions : Ages(sess[y], sess'[y]) /\ sess'[y].validated = sess[y].validated
  BY <1>1, <1>3, <1>8, SessionKeeps
<1>11. AcceptOK'
  BY <1>3, <1>10, AcceptLetsGo DEF Unaccepted, Ages
<1> QED
  BY <1>3, <1>9, <1>10, <1>11, SameConns

LEMMA AcceptedKeeps ==
    ASSUME LInv, acceptor # Nil, acceptor' = Nil, NEW cid, Accepted(acceptor, cid),
           \/ UNCHANGED table
           \/ \E c \in CIDs : table' = addCIDs(table, acceptor, {c})
    PROVE  LInv'
<1> DEFINE s == acceptor
           x == [sess[s] EXCEPT !.cid = cid, !.late = sess[s].late \/ sess[s].state = "closed"]
<1>1. s \in Sessions /\ sess[s].state # "unused" /\ conn[s].hs = "none"
  BY NilIsNoSession DEF LInv, AcceptOK, Unaccepted
<1>2. SessionOK(s, sess[s]) /\ DOMAIN sess = Sessions /\ ConnOK(conn[s]) /\ DOMAIN conn = Sessions
  BY <1>1, SessionTyped
<1>3. SessionChanges(s, x) /\ Changes(s, NewConn) /\ UNCHANGED <<listener, reader>>
  BY <1>2 DEF Accepted, SessionChanges, Changes
<1>4. /\ DOMAIN x = SessionFields /\ x.in = sess[s].in /\ x.state = sess[s].state
      /\ x.remote = sess[s].remote
  BY <1>2 DEF SessionOK, SessionFields
<1>5. /\ x.removing = sess[s].removing /\ x.validated = sess[s].validated
      /\ x.late <=> sess[s].late \/ sess[s].state = "closed"
  BY <1>2 DEF SessionOK, SessionFields
<1> HIDE DEF x
<1>6. SessionOK(s, x) /\ Ages(sess[s], x)
  BY <1>2, <1>4, <1>5 DEF SessionOK, Ages, Live
<1>7. SessionsOK'
  BY <1>1, <1>3, <1>6, OneSession DEF LInv
<1>8. \A y \in Sessions : Ages(sess[y], sess'[y]) /\ sess'[y].validated = sess[y].validated
  BY <1>1, <1>3, <1>5, <1>6, SessionKeeps
<1>9. ConnsOK'
  BY <1>3, NewConnOK, OneConn DEF LInv
<1>10. conn[s].old = Nil /\ ~Proved(NewConn)
  BY <1>1, <1>2 DEF ConnOK, Proved, NewConn
<1>11. \A y \in Sessions : /\ conn'[y].old = conn[y].old \/ conn[y].old = Nil
                           /\ Proved(conn'[y]) => Proved(conn[y])
                           /\ y # s => conn'[y] = conn[y]
  BY <1>2, <1>3, <1>10 DEF Changes
<1>12. StagesOK'
  <2> SUFFICES ASSUME NEW y \in Sessions
               PROVE  /\ conn'[y].hs # "none" => sess'[y].state # "unused"
                      /\ Proved(conn'[y]) => sess'[y].validated
    BY DEF StagesOK, StageOK, Proved
  <2>1. StageOK(sess[y], conn[y])
    BY DEF LInv, StagesOK
  <2> QED
    BY <1>1, <1>8, <1>11, <2>1 DEF StageOK, Ages
<1>13. AcceptOK'
  BY <1>3, <1>8, <1>11, AcceptLetsGo DEF Unaccepted, Ages
<1>14. /\ TablesOK' /\ table'.sessions = table.sessions /\ table'.pending = table.pending
       /\ \A c \in CIDs : table'.cids[c] # table.cids[c] => table'.cids[c] = s
  <2>1. CASE UNCHANGED table
    BY <2>1 DEF LInv, TablesOK
  <2>2. ASSUME NEW c \in CIDs, table' = addCIDs(table, s, {c})
        PROVE  /\ TablesOK' /\ table'.sessions = table.sessions /\ table'.pending = table.pending
               /\ \A d \in CIDs : table'.cids[d] # table.cids[d] => table'.cids[d] = s
    BY <1>1, <2>2, NilIsNoSession DEF LInv, TablesOK, addCIDs
  <2> QED
    BY <2>1, <2>2
<1>15. sess'[s] = x /\ x.state # "unused" /\ Live(x)
  <2>1. x.state \in {"open", "closed"}
    BY <1>1, <1>2, <1>4 DEF SessionOK
  <2> QED
    BY <1>1, <1>2, <1>3, <1>4, <1>5, <2>1 DEF SessionChanges, Live
<1> HIDE DEF s
<1>16. \A c \in CIDs : table'.cids[c] # table.cids[c] =>
           /\ table'.cids[c] \in Sessions
           /\ sess'[table'.cids[c]].state # "unused"
           /\ Live(sess'[table'.cids[c]])
  BY <1>1, <1>14, <1>15
<1> QED
  BY <1>3, <1>7, <1>8, <1>9, <1>11, <1>12, <1>13, <1>14, <1>16, SamePlaces

LEMMA AcceptIdentifiesKeeps == ASSUME LInv, AcceptIdentifies PROVE LInv'
<1>1. acceptor # Nil /\ acceptor' = Nil
  BY DEF AcceptIdentifies
<1>2. \/ \E cid : Refused(acceptor, cid)
      \/ \E cid : /\ Accepted(acceptor, cid)
                  /\ \/ UNCHANGED table
                     \/ \E c \in CIDs : table' = addCIDs(table, acceptor, {c})
  BY DEF AcceptIdentifies
<1> QED
  BY <1>1, <1>2, RefusedKeeps, AcceptedKeeps

(***************************************************************************)
(* Steps that change the tables of addresses.                              *)
(***************************************************************************)
Placed(t, s, a) == t.sessions[a] = s \/ t.pending[a] = s

LEMMA InTablesAre ==
    ASSUME NEW t, NEW s
    PROVE  s \in InTables(t) <=> s # Nil /\ \E a \in Addresses : Placed(t, s, a)
  BY DEF InTables, Placed

LEMMA PlacesTyped ==
    ASSUME LInv, NEW a \in Addresses
    PROVE  /\ table.sessions[a] \in Sessions \/ table.sessions[a] = Nil
           /\ table.pending[a] \in Sessions \/ table.pending[a] = Nil
           /\ DOMAIN table = {"sessions", "pending", "cids"}
           /\ DOMAIN table.sessions = Addresses /\ DOMAIN table.pending = Addresses
  BY NilIsNoSession DEF LInv, TablesOK

LEMMA RemoveKeeps ==
    ASSUME LInv, NEW s \in Sessions, RemoveSession(s)
    PROVE  LInv'
<1> DEFINE x == [sess[s] EXCEPT !.removing = FALSE]
<1>1. SessionOK(s, sess[s]) /\ DOMAIN sess = Sessions /\ sess[s].removing
  BY SessionTyped DEF RemoveSession
<1>2. /\ SessionChanges(s, x) /\ table' = removeSession(table, s)
      /\ UNCHANGED <<listener, reader, acceptor, conn>>
  BY <1>1 DEF RemoveSession, SessionChanges
<1>3. /\ DOMAIN x = SessionFields /\ x.in = sess[s].in /\ x.state = sess[s].state
      /\ x.remote = sess[s].remote /\ ~x.removing
  BY <1>1 DEF SessionOK, SessionFields
<1>4. x.validated = sess[s].validated /\ x.late = sess[s].late
  BY <1>1 DEF SessionOK, SessionFields
<1> HIDE DEF x
<1>5. SessionOK(s, x) /\ sess[s].state = "closed"
  BY <1>1, <1>3 DEF SessionOK
<1>6. \A y \in Sessions :
          /\ sess'[y].remote = sess[y].remote /\ sess'[y].validated = sess[y].validated
          /\ sess'[y].state = sess[y].state
          /\ y # s => sess'[y] = sess[y]
  BY <1>1, <1>2, <1>3, <1>4 DEF SessionChanges
<1>7. /\ TablesOK'
      /\ \A a \in Addresses :
            /\ table'.sessions[a] = IF table.sessions[a] = s THEN Nil ELSE table.sessions[a]
            /\ table'.pending[a] = IF table.pending[a] = s THEN Nil ELSE table.pending[a]
      /\ \A c \in CIDs : table'.cids[c] = IF table.cids[c] = s THEN Nil ELSE table.cids[c]
  BY <1>2, NilIsNoSession DEF LInv, TablesOK, removeSession
<1>8. ConnsOK'
  BY <1>2 DEF LInv, ConnsOK
<1>9. SessionsOK'
  BY <1>2, <1>5, OneSession DEF LInv
<1>10. StagesOK'
  BY <1>2, <1>6 DEF LInv, StagesOK, StageOK, Proved
<1>11. PlacesOK'
  <2> SUFFICES ASSUME NEW a \in Addresses
               PROVE  /\ table'.sessions[a] # Nil => sess'[table'.sessions[a]].remote = a
                      /\ table'.pending[a] # Nil =>
                            /\ sess'[table'.pending[a]].remote = a
                            /\ table'.pending[a] # table'.sessions[a]
                            /\ ~Proved(conn'[table'.pending[a]])
    BY DEF PlacesOK, Proved
  <2>1. /\ table'.sessions[a] # Nil => table'.sessions[a] = table.sessions[a]
        /\ table'.pending[a] # Nil => table'.pending[a] = table.pending[a]
    BY <1>7
  <2>2. /\ table.sessions[a] # Nil => sess[table.sessions[a]].remote = a
        /\ table.pending[a] # Nil =>
              /\ sess[table.pending[a]].remote = a /\ table.pending[a] # table.sessions[a]
              /\ ~Proved(conn[table.pending[a]])
    BY DEF LInv, PlacesOK
  <2>3. /\ table.sessions[a] \in Sessions \/ table.sessions[a] = Nil
        /\ table.pending[a] \in Sessions \/ table.pending[a] = Nil
    BY PlacesTyped
  <2>4. conn' = conn
    BY <1>2
  <2>5. QED
    BY <1>6, <2>1, <2>2, <2>3, <2>4
<1>12. EntriesOK'
  <2> SUFFICES ASSUME NEW r, r \in Entries(table')
               PROVE  sess'[r].state # "unused" /\ (listener.closed \/ Live(sess'[r]))
    BY <1>2 DEF EntriesOK, Live
  <2>1. /\ r # Nil
        /\ \/ \E a \in Addresses : table'.sessions[a] = r \/ table'.pending[a] = r
           \/ \E c \in CIDs : table'.cids[c] = r
    BY DEF Entries, InTables
  <2>2. r # s /\ r \in Entries(table)
    BY SMTT(30), <1>7, <2>1, NilIsNoSession, EntriesAre
  <2>3. r \in Sessions
    BY <2>2, EntriesTyped DEF LInv
  <2> QED
    BY <1>6, <2>2, <2>3 DEF LInv, EntriesOK
<1>13. AcceptOK'
  BY <1>2, <1>6, SameAccept DEF Unaccepted
<1>14. OpenOK'
  <2>1. ASSUME NEW r \in Sessions, r # s, r \in InTables(table)
        PROVE  r \in InTables(table')
    <3>1. \E a \in Addresses : Placed(table, r, a)
      BY <2>1, InTablesAre
    <3>2. \E a \in Addresses : Placed(table', r, a)
      BY <1>7, <2>1, <3>1 DEF Placed
    <3> QED
      BY <3>2, NilIsNoSession DEF InTables, Placed
  <2>2. \A r \in Sessions : sess'[r].state = "open" => sess[r].state = "open" /\ r # s
    BY <1>5, <1>6
  <2> QED
    BY <1>2, <2>1, <2>2 DEF LInv, OpenOK
<1> QED
  BY <1>7, <1>8, <1>9, <1>10, <1>11, <1>12, <1>13, <1>14 DEF LInv

LEMMA ValidatedKeeps ==
    ASSUME LInv, NEW s \in Sessions, connectionValidated(s)
    PROVE  LInv'
<1> DEFINE a == sess[s].remote
           x == [sess[s] EXCEPT !.validated = TRUE]
           old == IF table.pending[a] = s THEN table.sessions[a] ELSE Nil
           c == [conn[s] EXCEPT !.hs = "validated", !.old = old]
<1>1. SessionOK(s, sess[s]) /\ DOMAIN sess = Sessions /\ ConnOK(conn[s]) /\ DOMAIN conn = Sessions
  BY SessionTyped
<1>2. /\ conn[s].hs = "installed" /\ SessionChanges(s, x) /\ Changes(s, c)
      /\ table' = IF table.pending[a] = s
                  THEN [table EXCEPT !.sessions[a] = s, !.pending[a] = Nil]
                  ELSE table
      /\ UNCHANGED <<listener, reader, acceptor>>
  BY <1>1 DEF connectionValidated, SessionChanges, Changes
<1>3. sess[s].state # "unused" /\ a \in Addresses
  BY <1>1, <1>2 DEF LInv, StagesOK, StageOK, SessionOK
<1>4. /\ DOMAIN x = SessionFields /\ x.in = sess[s].in /\ x.state = sess[s].state
      /\ x.remote = a /\ x.validated
  BY <1>1 DEF SessionOK, SessionFields
<1>5. x.removing = sess[s].removing /\ x.late = sess[s].late
  BY <1>1 DEF SessionOK, SessionFields
<1>6. (old \in Sessions \/ old = Nil) /\ conn[s].old = Nil
  BY <1>1, <1>2, <1>3, PlacesTyped DEF ConnOK
<1>7. ConnOK(c) /\ c.old = old /\ c.hs = "validated" /\ Proved(c)
  <2> HIDE DEF old
  <2> QED
    BY <1>1, <1>2, <1>6 DEF ConnOK, ConnFields, Ended, Proved, Handshaking
<1>8. \A y \in Sessions : /\ y # s => conn'[y] = conn[y] /\ sess'[y] = sess[y]
                          /\ conn'[s] = c /\ sess'[s] = x
  BY <1>1, <1>2 DEF Changes, SessionChanges
<1>9. SessionOK(s, x)
  <2> HIDE DEF x, a
  <2> QED
    BY <1>1, <1>3, <1>4, <1>5 DEF SessionOK, a
<1>10. /\ TablesOK' /\ table'.cids = table.cids
       /\ \A b \in Addresses :
            /\ table'.sessions[b] =
                  IF b = a /\ table.pending[a] = s THEN s ELSE table.sessions[b]
            /\ table'.pending[b] =
                  IF b = a /\ table.pending[a] = s THEN Nil ELSE table.pending[b]
  <2> HIDE DEF a
  <2>1. CASE table.pending[a] = s
    BY <1>2, <1>3, <2>1, NilIsNoSession DEF LInv, TablesOK
  <2>2. CASE table.pending[a] # s
    BY <1>2, <1>3, <2>2 DEF LInv, TablesOK
  <2> QED
    BY <2>1, <2>2
<1>11. \A b \in Addresses : table.pending[b] = s => b = a
  BY SMT, NilIsNoSession DEF LInv, PlacesOK
<1> HIDE DEF x, c, a
<1>12. ConnsOK'
  BY <1>2, <1>7, OneConn DEF LInv
<1>13. SessionsOK'
  BY <1>2, <1>9, OneSession DEF LInv
<1>14. StagesOK'
  <2> SUFFICES ASSUME NEW y \in Sessions
               PROVE  /\ conn'[y].hs # "none" => sess'[y].state # "unused"
                      /\ Proved(conn'[y]) => sess'[y].validated
    BY DEF StagesOK, StageOK, Proved
  <2>1. StageOK(sess[y], conn[y])
    BY DEF LInv, StagesOK
  <2> QED
    BY <1>3, <1>4, <1>8, <2>1 DEF StageOK
<1>15. PlacesOK'
  <2> SUFFICES ASSUME NEW b \in Addresses
               PROVE  /\ table'.sessions[b] # Nil => sess'[table'.sessions[b]].remote = b
                      /\ table'.pending[b] # Nil =>
                            /\ sess'[table'.pending[b]].remote = b
                            /\ table'.pending[b] # table'.sessions[b]
                            /\ ~Proved(conn'[table'.pending[b]])
    BY DEF PlacesOK, Proved
  <2>1. /\ table.sessions[b] # Nil => sess[table.sessions[b]].remote = b
        /\ table.pending[b] # Nil =>
              /\ sess[table.pending[b]].remote = b
              /\ table.pending[b] # table.sessions[b]
              /\ ~Proved(conn[table.pending[b]])
    BY DEF LInv, PlacesOK
  <2>2. sess[s].remote = a
    BY DEF a
  <2>3. \A y \in Sessions : sess'[y].remote = sess[y].remote
    BY <1>4, <1>8, <2>2
  <2>4. CASE b = a /\ table.pending[a] = s
    BY <1>3, <1>4, <1>8, <1>10, <2>4
  <2>5. CASE ~(b = a /\ table.pending[a] = s)
    <3>1. table'.sessions[b] = table.sessions[b] /\ table'.pending[b] = table.pending[b]
      BY <1>10, <2>5
    <3>2. table.pending[b] # s
      BY <1>11, <2>5
    <3>3. /\ table.sessions[b] \in Sessions \/ table.sessions[b] = Nil
          /\ table.pending[b] \in Sessions \/ table.pending[b] = Nil
      BY PlacesTyped
    <3> QED
      BY <1>8, <2>1, <2>3, <3>1, <3>2, <3>3
  <2> QED
    BY <2>4, <2>5
<1>16. EntriesOK'
  <2> SUFFICES ASSUME NEW r, r \in Entries(table')
               PROVE  sess'[r].state # "unused" /\ (listener.closed \/ Live(sess'[r]))
    BY <1>2 DEF EntriesOK, Live
  <2>1. /\ r # Nil
        /\ \/ \E b \in Addresses : table'.sessions[b] = r \/ table'.pending[b] = r
           \/ \E d \in CIDs : table'.cids[d] = r
    BY DEF Entries, InTables
  <2>2. r \in Entries(table)
    BY SMTT(30), <1>10, <2>1, EntriesAre
  <2>3. r \in Sessions /\ sess[r].state # "unused" /\ (listener.closed \/ Live(sess[r]))
    BY <2>2, EntriesTyped DEF LInv, EntriesOK
  <2>4. Live(sess[s]) => Live(x)
    BY <1>4, <1>5 DEF Live
  <2> QED
    BY <1>4, <1>8, <2>3, <2>4
<1>17. AcceptOK'
  <2>1. \A y \in Sessions : Unaccepted(y) => sess'[y].state # "unused" /\ conn'[y].hs = "none"
    BY <1>2, <1>8 DEF Unaccepted
  <2> QED
    BY <1>2, <2>1, SameAccept
<1>18. OpenOK'
  <2>1. \A r \in Sessions : sess'[r].state = sess[r].state
    BY <1>4, <1>8
  <2>2. ASSUME NEW r \in Sessions, r \in InTables(table)
        PROVE  r \in InTables(table') \/ conn'[s].old = r
    <3>1. PICK b \in Addresses : Placed(table, r, b)
      BY <2>2, InTablesAre
    <3>2. Placed(table', r, b) \/ old = r
      BY <1>10, <3>1 DEF Placed, old
    <3>3. Placed(table', r, b) => r \in InTables(table')
      BY <2>2, NilIsNoSession DEF InTables, Placed
    <3> QED
      BY <1>7, <1>8, <3>2, <3>3
  <2>3. ASSUME NEW y \in Sessions, NEW r \in Sessions, conn[y].old = r
        PROVE  conn'[y].old = r
    BY <1>6, <1>8, <2>3, NilIsNoSession
  <2>4. listener' = listener
    BY <1>2
  <2> SUFFICES ASSUME NEW r \in Sessions, sess'[r].state = "open"
               PROVE  \/ ~listener.closed /\ r \in InTables(table')
                      \/ r \in listener.closing
                      \/ \E y \in Sessions : conn'[y].old = r
    BY <2>4 DEF LInv, OpenOK
  <2>5. \/ ~listener.closed /\ r \in InTables(table)
        \/ r \in listener.closing
        \/ \E y \in Sessions : conn[y].old = r
    BY <2>1 DEF LInv, OpenOK
  <2> QED
    BY <2>2, <2>3, <2>5
<1> QED
  BY <1>10, <1>12, <1>13, <1>14, <1>15, <1>16, <1>17, <1>18 DEF LInv

\* What rebindSession leaves in the tables, when s moves from a to b.
LEMMA RebindShape ==
    ASSUME TablesOK, NEW s \in Sessions, NEW a \in Addresses, NEW b \in Addresses, a # b,
           table.sessions[b] # s, table' = rebindTable(table, s, a, b)
    PROVE  /\ TablesOK'
           /\ \A e \in Addresses :
                 /\ table'.sessions[e] = IF e = b THEN s
                                         ELSE IF e = a /\ table.sessions[a] = s THEN Nil
                                         ELSE table.sessions[e]
                 /\ table'.pending[e] = table.pending[e]
           /\ \A c \in CIDs :
                 table'.cids[c] = IF table.cids[c] = table.sessions[b] THEN Nil ELSE table.cids[c]
<1> DEFINE left == IF table.sessions[a] = s THEN [table EXCEPT !.sessions[a] = Nil] ELSE table
           d == table.sessions[b]
           freed == IF d = Nil THEN left ELSE unregisterSessionCIDs(left, d, CIDs)
<1>1. /\ DOMAIN left = {"sessions", "pending", "cids"}
      /\ left.sessions \in [Addresses -> SessionOrNil]
      /\ left.pending = table.pending /\ left.cids = table.cids
      /\ \A e \in Addresses : left.sessions[e] =
            IF e = a /\ table.sessions[a] = s THEN Nil ELSE table.sessions[e]
  <2>1. CASE table.sessions[a] = s
    BY <2>1, NilIsNoSession DEF TablesOK
  <2>2. CASE table.sessions[a] # s
    BY <2>2 DEF TablesOK
  <2> QED
    BY <2>1, <2>2
<1>2. Displaced(left, s, b) = d
  BY <1>1 DEF Displaced
<1>3. table' = [freed EXCEPT !.sessions[b] = s]
  BY <1>2 DEF rebindTable
<1> HIDE DEF left, d
<1>4. /\ DOMAIN freed = {"sessions", "pending", "cids"}
      /\ freed.sessions = left.sessions /\ freed.pending = left.pending
      /\ freed.cids \in [CIDs -> SessionOrNil]
      /\ \A c \in CIDs : freed.cids[c] = IF table.cids[c] = d THEN Nil ELSE table.cids[c]
  <2>1. CASE d = Nil
    BY <1>1, <2>1 DEF TablesOK
  <2>2. CASE d # Nil
    BY <1>1, <2>2, NilIsNoSession DEF TablesOK, unregisterSessionCIDs
  <2> QED
    BY <2>1, <2>2
<1> HIDE DEF freed
<1>5. /\ DOMAIN table' = {"sessions", "pending", "cids"}
      /\ table'.sessions = [left.sessions EXCEPT ![b] = s]
      /\ table'.pending = table.pending /\ table'.cids = freed.cids
  BY SMTT(30), <1>1, <1>3, <1>4
<1>6. TablesOK'
  BY SMTT(30), <1>1, <1>4, <1>5, NilIsNoSession DEF TablesOK
<1> QED
  BY SMTT(30), <1>1, <1>4, <1>5, <1>6 DEF d

LEMMA AllSessions ==
    ASSUME SessionsOK, UNCHANGED reader, DOMAIN sess' = Sessions,
           \A y \in Sessions : SessionOK(y, sess'[y])
    PROVE  SessionsOK'
  BY DEF SessionsOK, SessionOK, QueuesReleased

LEMMA RebindsKeeps ==
    ASSUME LInv, NEW s \in Sessions, DispatchRebinds(s)
    PROVE  LInv'
<1> DEFINE a == sess[s].remote
           b == conn[s].from
           d == table.sessions[b]
           x == [sess[s] EXCEPT !.remote = b, !.late = sess[s].late \/ sess[s].state = "closed"]
           c == [conn[s] EXCEPT !.reading = "waiting", !.from = NoAddress]
<1>1. SessionOK(s, sess[s]) /\ DOMAIN sess = Sessions /\ ConnOK(conn[s]) /\ DOMAIN conn = Sessions
  BY SessionTyped
<1>2. conn[s].hs = "done" /\ ~conn[s].err /\ b \in Addresses /\ a # b
  BY <1>1 DEF DispatchRebinds, ConnOK, Handshaking, Ended
<1>3. Proved(conn[s]) /\ sess[s].state # "unused" /\ sess[s].validated /\ a \in Addresses
  BY <1>1, <1>2 DEF LInv, StagesOK, StageOK, SessionOK, Proved
<1>4. table.sessions[b] # s
  BY <1>2, NilIsNoSession DEF LInv, PlacesOK
<1>5. Displaced(table, s, b) = d
  BY <1>4 DEF Displaced
<1>6. /\ table' = rebindTable(table, s, a, b)
      /\ Changes(s, c) /\ UNCHANGED <<listener, reader, acceptor>>
      /\ sess' = [y \in Sessions |-> IF y = s THEN x
                                     ELSE IF y = d THEN closeWithoutCallback(sess[y])
                                     ELSE sess[y]]
  BY <1>1, <1>5 DEF DispatchRebinds, rebindSession, Changes, Dispatched
<1>7. ConnOK(c) /\ Evolves(conn[s], c)
  BY <1>1, <1>2 DEF ConnOK, Evolves, ConnFields, Ended, Proved, Handshaking
<1>8. ConnsOK' /\ \A y \in Sessions : Evolves(conn[y], conn'[y])
  BY <1>6, <1>7, EvolvesAll
<1>9. /\ DOMAIN x = SessionFields /\ x.in = sess[s].in /\ x.state = sess[s].state
      /\ x.remote = b
  BY <1>1 DEF SessionOK, SessionFields
<1>10. /\ x.removing = sess[s].removing /\ x.validated = sess[s].validated
       /\ x.late <=> sess[s].late \/ sess[s].state = "closed"
  BY <1>1 DEF SessionOK, SessionFields
<1> HIDE DEF x, c
<1>11. SessionOK(s, x) /\ Live(x)
  BY <1>1, <1>2, <1>3, <1>9, <1>10 DEF SessionOK, Live
<1>12. d \in Sessions \/ d = Nil
  BY <1>2, PlacesTyped
<1>13. ASSUME d \in Sessions
       PROVE  LET z == closeWithoutCallback(sess[d])
              IN  /\ SessionOK(d, z) /\ z.remote = sess[d].remote /\ z.validated = sess[d].validated
                  /\ z.state # "open" /\ (sess[d].state # "unused" => z.state # "unused")
  <2>1. SessionOK(d, sess[d])
    BY <1>13, SessionTyped
  <2> HIDE DEF d
  <2> DEFINE z == closeWithoutCallback(sess[d])
  <2>2. /\ SessionOK(d, z) /\ z.remote = sess[d].remote /\ z.validated = sess[d].validated
        /\ sess[d].state # "open" => z = sess[d]
        /\ sess[d].state = "open" => z.state = "closed"
    BY SMTT(30), <2>1, CloseShape
  <2> QED
    BY <2>2
<1>14. /\ DOMAIN sess' = Sessions /\ sess'[s] = x
       /\ \A y \in Sessions : y # s /\ y # d => sess'[y] = sess[y]
       /\ d \in Sessions => sess'[d] = closeWithoutCallback(sess[d])
  BY <1>4, <1>6
<1>15. SessionsOK'
  <2>1. \A y \in Sessions : SessionOK(y, sess[y])
    BY SessionTyped
  <2>2. \A y \in Sessions : SessionOK(y, sess'[y])
    BY <1>11, <1>13, <1>14, <2>1
  <2> QED
    BY <1>6, <1>14, <2>2, AllSessions DEF LInv
<1>16. /\ TablesOK'
       /\ \A e \in Addresses :
             /\ table'.sessions[e] = IF e = b THEN s
                                     ELSE IF e = a /\ table.sessions[a] = s THEN Nil
                                     ELSE table.sessions[e]
             /\ table'.pending[e] = table.pending[e]
       /\ \A e \in CIDs : table'.cids[e] = IF table.cids[e] = d THEN Nil ELSE table.cids[e]
  <2> HIDE DEF a, b
  <2>1. TablesOK
    BY DEF LInv
  <2> QED
    BY SMTT(30), <1>2, <1>3, <1>4, <1>6, <2>1, RebindShape DEF d
<1>17. \A y \in Sessions :
           /\ y # s => sess'[y].remote = sess[y].remote
           /\ sess'[y].validated = sess[y].validated
           /\ sess[y].state # "unused" => sess'[y].state # "unused"
           /\ sess'[y].state = "open" => sess[y].state = "open" /\ (y = s \/ y # d)
  <2> SUFFICES ASSUME NEW y \in Sessions
               PROVE  /\ y # s => sess'[y].remote = sess[y].remote
                      /\ sess'[y].validated = sess[y].validated
                      /\ sess[y].state # "unused" => sess'[y].state # "unused"
                      /\ sess'[y].state = "open" => sess[y].state = "open" /\ (y = s \/ y # d)
    OBVIOUS
  <2> HIDE DEF d
  <2>1. CASE y = s
    BY <1>9, <1>10, <1>14, <2>1
  <2>2. CASE y # s /\ y = d
    BY <1>13, <1>14, <2>2
  <2>3. CASE y # s /\ y # d
    BY <1>14, <2>3
  <2> QED
    BY <2>1, <2>2, <2>3
<1>18. StagesOK'
  <2> SUFFICES ASSUME NEW y \in Sessions
               PROVE  /\ conn'[y].hs # "none" => sess'[y].state # "unused"
                      /\ Proved(conn'[y]) => sess'[y].validated
    BY DEF StagesOK, StageOK, Proved
  <2>1. StageOK(sess[y], conn[y])
    BY DEF LInv, StagesOK
  <2> QED
    BY <1>8, <1>17, <2>1 DEF StageOK, Evolves
<1>19. AcceptOK'
  <2>1. \A y \in Sessions : Unaccepted(y) => sess'[y].state # "unused" /\ conn'[y].hs = "none"
    BY <1>8, <1>17 DEF Unaccepted, Evolves
  <2> QED
    BY <1>6, <2>1, SameAccept
<1>20. \A e \in Addresses :
           /\ table.sessions[e] = s => e = a
           /\ table.pending[e] # s
           /\ table.sessions[e] = d /\ d # Nil => e = b
           /\ table.pending[e] = d => d = Nil
  <2> SUFFICES ASSUME NEW e \in Addresses
               PROVE  /\ table.sessions[e] = s => e = a
                      /\ table.pending[e] # s
                      /\ table.sessions[e] = d /\ d # Nil => e = b
                      /\ table.pending[e] = d => d = Nil
    OBVIOUS
  <2>1. /\ table.sessions[e] # Nil => sess[table.sessions[e]].remote = e
        /\ table.pending[e] # Nil =>
              /\ sess[table.pending[e]].remote = e
              /\ table.pending[e] # table.sessions[e]
              /\ ~Proved(conn[table.pending[e]])
    BY DEF LInv, PlacesOK
  <2>2. d # Nil => sess[d].remote = b
    BY <1>2 DEF LInv, PlacesOK
  <2> QED
    BY <1>3, <2>1, <2>2, NilIsNoSession
<1> HIDE DEF a, b, d
<1>21. PlacesOK'
  <2> SUFFICES ASSUME NEW e \in Addresses
               PROVE  /\ table'.sessions[e] # Nil => sess'[table'.sessions[e]].remote = e
                      /\ table'.pending[e] # Nil =>
                            /\ sess'[table'.pending[e]].remote = e
                            /\ table'.pending[e] # table'.sessions[e]
                            /\ ~Proved(conn'[table'.pending[e]])
    BY DEF PlacesOK, Proved
  <2>1. /\ table.sessions[e] # Nil => sess[table.sessions[e]].remote = e
        /\ table.pending[e] # Nil =>
              /\ sess[table.pending[e]].remote = e
              /\ table.pending[e] # table.sessions[e]
              /\ ~Proved(conn[table.pending[e]])
    BY DEF LInv, PlacesOK
  <2>2. /\ table.sessions[e] \in Sessions \/ table.sessions[e] = Nil
        /\ table.pending[e] \in Sessions \/ table.pending[e] = Nil
    BY PlacesTyped
  <2>3. table'.sessions[e] # Nil => sess'[table'.sessions[e]].remote = e
    <3>1. CASE e = b
      BY <1>9, <1>14, <1>16, <3>1
    <3>2. CASE e # b /\ table'.sessions[e] # Nil
      <4>1. table'.sessions[e] = table.sessions[e]
        BY <1>16, <3>2
      <4>2. table.sessions[e] # s
        BY <1>16, <1>20, <3>2
      <4> QED
        BY <1>17, <2>1, <2>2, <3>2, <4>1, <4>2
    <3> QED
      BY <3>1, <3>2
  <2>4. ASSUME table'.pending[e] # Nil
        PROVE  /\ sess'[table'.pending[e]].remote = e
               /\ table'.pending[e] # table'.sessions[e]
               /\ ~Proved(conn'[table'.pending[e]])
    <3>1. table'.pending[e] = table.pending[e] /\ table.pending[e] \in Sessions
      BY <1>16, <2>2, <2>4
    <3>2. table.pending[e] # s /\ table'.pending[e] # table'.sessions[e]
      BY <1>16, <1>20, <2>1, <2>4, <3>1
    <3> QED
      BY <1>8, <1>17, <2>1, <2>4, <3>1, <3>2 DEF Evolves
  <2> QED
    BY <2>3, <2>4
<1>22. EntriesOK'
  <2> SUFFICES ASSUME NEW r, r \in Entries(table')
               PROVE  sess'[r].state # "unused" /\ (listener.closed \/ Live(sess'[r]))
    BY <1>6 DEF EntriesOK, Live
  <2>1. /\ r # Nil
        /\ \/ \E e \in Addresses : table'.sessions[e] = r \/ table'.pending[e] = r
           \/ \E e \in CIDs : table'.cids[e] = r
    BY DEF Entries, InTables
  <2>2. r = s \/ (r # d /\ r \in Entries(table))
    <3>1. CASE \E e \in Addresses : table'.sessions[e] = r
      BY <1>16, <1>20, <2>1, <3>1, EntriesAre
    <3>2. CASE \E e \in Addresses : table'.pending[e] = r
      BY <1>16, <1>20, <2>1, <3>2, EntriesAre
    <3>3. CASE \E e \in CIDs : table'.cids[e] = r
      BY SMTT(30), <1>16, <2>1, <3>3, EntriesAre
    <3> QED
      BY <2>1, <3>1, <3>2, <3>3
  <2>3. CASE r = s
    BY <1>3, <1>9, <1>11, <1>14, <2>3
  <2>4. CASE r # s /\ r # d /\ r \in Entries(table)
    <3>1. r \in Sessions /\ sess[r].state # "unused" /\ (listener.closed \/ Live(sess[r]))
      BY <2>4, EntriesTyped DEF LInv, EntriesOK
    <3> QED
      BY <1>14, <2>4, <3>1
  <2> QED
    BY <2>2, <2>3, <2>4
<1>23. OpenOK'
  <2>1. ASSUME NEW r \in Sessions, r = s \/ r # d, r \in InTables(table)
        PROVE  r \in InTables(table')
    <3>1. PICK e \in Addresses : Placed(table, r, e)
      BY <2>1, InTablesAre
    <3>2. CASE r = s
      <4>1. Placed(table', r, b)
        BY <1>2, <1>16, <3>2 DEF Placed, b
      <4> QED
        BY <1>2, <4>1, NilIsNoSession DEF InTables, Placed, b
    <3>3. CASE r # s
      <4>1. e = b => table.sessions[e] = d
        BY DEF d
      <4>2. Placed(table', r, e)
        BY <1>16, <2>1, <3>1, <3>3, <4>1 DEF Placed
      <4> QED
        BY <4>2, NilIsNoSession DEF InTables, Placed
    <3> QED
      BY <3>2, <3>3
  <2>2. \A y \in Sessions : conn'[y].old = conn[y].old
    BY <1>8 DEF Evolves
  <2>3. listener' = listener
    BY <1>6
  <2> SUFFICES ASSUME NEW r \in Sessions, sess'[r].state = "open"
               PROVE  \/ ~listener.closed /\ r \in InTables(table')
                      \/ r \in listener.closing
                      \/ \E y \in Sessions : conn'[y].old = r
    BY <2>3 DEF LInv, OpenOK
  <2>4. sess[r].state = "open" /\ (r = s \/ r # d)
    BY <1>17
  <2>5. \/ ~listener.closed /\ r \in InTables(table)
        \/ r \in listener.closing
        \/ \E y \in Sessions : conn[y].old = r
    BY <2>4 DEF LInv, OpenOK
  <2> QED
    BY <2>1, <2>2, <2>4, <2>5
<1> QED
  BY <1>8, <1>15, <1>16, <1>18, <1>19, <1>21, <1>22, <1>23 DEF LInv

\* newPacketSession gives a number that no table, queue or goroutine holds.
LEMMA FreshSession ==
    ASSUME LInv, HasRoom(table)
    PROVE  /\ NextSession \in Sessions /\ sess[NextSession].state = "unused"
           /\ conn[NextSession].hs = "none" /\ conn[NextSession].old = Nil
           /\ NextSession \notin Entries(table)
           /\ \A i \in 1 .. Len(listener.accept) : listener.accept[i] # NextSession
           /\ acceptor # NextSession
           /\ ~listener.closed
<1> DEFINE s == NextSession
<1>1. s \in Sessions /\ sess[s].state = "unused" /\ ~listener.closed
  BY DEF HasRoom, FreeSessions, NextSession
<1> HIDE DEF s
<1>2. conn[s].hs = "none" /\ ConnOK(conn[s])
  BY <1>1 DEF LInv, StagesOK, StageOK, ConnsOK
<1>3. conn[s].old = Nil
  BY <1>2 DEF ConnOK
<1>4. s \notin Entries(table)
  BY <1>1 DEF LInv, EntriesOK
<1>5. acceptor # s /\ \A i \in 1 .. Len(listener.accept) : listener.accept[i] # s
  BY <1>1, NilIsNoSession DEF LInv, AcceptOK, Unaccepted
<1> QED
  BY <1>1, <1>2, <1>3, <1>4, <1>5 DEF s

LEMMA FreshShape ==
    ASSUME NEW a \in Addresses, NEW s, NEW x,
           x = newPacketSession(a) \/ x = closeWithoutCallback(newPacketSession(a))
    PROVE  SessionOK(s, x) /\ x.remote = a /\ x.state # "unused"
           /\ (x = newPacketSession(a) => x.state = "open")
           /\ (x = closeWithoutCallback(newPacketSession(a)) => x.state = "closed")
<1> DEFINE z == newPacketSession(a)
<1>1. /\ DOMAIN z = SessionFields /\ z.remote = a /\ z.state = "open" /\ z.in = <<>>
      /\ ~z.removing
  BY DEF newPacketSession, NoSession, SessionFields
<1> HIDE DEF z
<1>2. SessionOK(s, z)
  BY SMTT(30), <1>1 DEF SessionOK
<1>3. LET y == closeWithoutCallback(z)
      IN  SessionOK(s, y) /\ y.remote = a /\ y.state = "closed"
  BY SMTT(30), <1>1, <1>2, CloseShape
<1> QED
  BY <1>1, <1>2, <1>3 DEF z

\* What a step that starts session s leaves as it was.
LEMMA Started ==
    ASSUME LInv, HasRoom(table), NEW a \in Addresses, NEW targets, reader.pushed = Nil,
           NEW x, x = newPacketSession(a) \/ x = closeWithoutCallback(newPacketSession(a)),
           SessionChanges(NextSession, x), reader' = Routed(a, targets),
           UNCHANGED <<acceptor, conn>>
    PROVE  /\ ConnsOK' /\ SessionsOK' /\ StagesOK'
           /\ sess'[NextSession] = x
           /\ \A y \in Sessions : y # NextSession => sess'[y] = sess[y]
           /\ \A y \in Sessions : Unaccepted(y) =>
                 sess'[y].state # "unused" /\ conn'[y].hs = "none"
<1> DEFINE s == NextSession
<1>1. s \in Sessions /\ sess[s].state = "unused" /\ conn[s].hs = "none"
  BY FreshSession
<1>2. SessionOK(s, x) /\ x.state # "unused"
  BY FreshShape
<1>3. /\ DOMAIN sess' = Sessions /\ sess'[s] = x
      /\ \A y \in Sessions : y # s => sess'[y] = sess[y]
  BY <1>1 DEF LInv, SessionsOK, SessionChanges
<1>4. /\ DOMAIN reader' = {"targets", "from", "pushed", "arrived"}
      /\ reader'.pushed = Nil
      /\ reader'.targets # <<>> => reader'.from \in Addresses
  BY RemainingShape DEF Routed
<1> HIDE DEF s
<1>5. ConnsOK'
  BY DEF LInv, ConnsOK
<1>6. SessionsOK'
  <2>1. \A y \in Sessions : SessionOK(y, sess'[y])
    BY <1>2, <1>3, SessionTyped
  <2> QED
    BY <1>3, <1>4, <2>1 DEF SessionsOK, SessionOK, QueuesReleased
<1>7. StagesOK'
  <2> SUFFICES ASSUME NEW y \in Sessions
               PROVE  /\ conn[y].hs # "none" => sess'[y].state # "unused"
                      /\ Proved(conn[y]) => sess'[y].validated
    BY DEF StagesOK, StageOK, Proved
  <2>1. StageOK(sess[y], conn[y])
    BY DEF LInv, StagesOK
  <2>2. ~Proved(conn[s])
    BY <1>1 DEF Proved
  <2> QED
    BY <1>1, <1>3, <2>1, <2>2 DEF StageOK
<1>8. \A y \in Sessions : Unaccepted(y) => sess'[y].state # "unused" /\ conn'[y].hs = "none"
  BY <1>1, <1>3 DEF Unaccepted
<1> QED
  BY <1>3, <1>5, <1>6, <1>7, <1>8 DEF s

\* The accept channel is full.
LEMMA NotOfferedKeeps ==
    ASSUME LInv, HasRoom(table), NEW a \in Addresses, NEW targets, reader.pushed = Nil,
           SessionChanges(NextSession, closeWithoutCallback(newPacketSession(a))),
           reader' = Routed(a, targets), UNCHANGED <<table, listener, acceptor, conn>>
    PROVE  LInv'
<1> DEFINE s == NextSession
           x == closeWithoutCallback(newPacketSession(a))
<1>1. s \in Sessions /\ s \notin Entries(table) /\ sess[s].state = "unused"
  BY FreshSession
<1>2. /\ ConnsOK' /\ SessionsOK' /\ StagesOK' /\ sess'[s] = x
      /\ \A y \in Sessions : y # s => sess'[y] = sess[y]
      /\ \A y \in Sessions : Unaccepted(y) => sess'[y].state # "unused" /\ conn'[y].hs = "none"
  BY Started
<1>3. x.state = "closed"
  BY FreshShape
<1> HIDE DEF s, x
<1>4. TablesOK'
  BY DEF LInv, TablesOK
<1>5. \A b \in Addresses : table.sessions[b] # s /\ table.pending[b] # s
  BY <1>1, NilIsNoSession, EntriesAre
<1>6. PlacesOK'
  <2> SUFFICES ASSUME NEW b \in Addresses
               PROVE  /\ table.sessions[b] # Nil => sess'[table.sessions[b]].remote = b
                      /\ table.pending[b] # Nil =>
                            /\ sess'[table.pending[b]].remote = b
                            /\ table.pending[b] # table.sessions[b]
                            /\ ~Proved(conn[table.pending[b]])
    BY DEF PlacesOK, Proved
  <2>1. /\ table.sessions[b] \in Sessions \/ table.sessions[b] = Nil
        /\ table.pending[b] \in Sessions \/ table.pending[b] = Nil
    BY PlacesTyped
  <2>2. PlacesOK
    BY DEF LInv
  <2> QED
    BY <1>2, <1>5, <2>1, <2>2 DEF PlacesOK
<1>7. EntriesOK'
  BY <1>1, <1>2, EntriesTyped DEF LInv, EntriesOK
<1>8. AcceptOK'
  BY <1>2, SameAccept
<1>9. OpenOK'
  BY <1>2, <1>3 DEF LInv, OpenOK
<1> QED
  BY <1>2, <1>4, <1>6, <1>7, <1>8, <1>9 DEF LInv

LEMMA AcceptIs ==
    ASSUME NEW q, listener'.accept = q, q \in Seq(Sessions),
           DOMAIN listener' = {"closed", "accept", "closing", "world"},
           acceptor' \in SessionOrNil,
           \A i \in 1 .. Len(q) : sess'[q[i]].state # "unused" /\ conn'[q[i]].hs = "none",
           \A i, j \in 1 .. Len(q) : q[i] = q[j] => i = j,
           acceptor' # Nil => /\ sess'[acceptor'].state # "unused" /\ conn'[acceptor'].hs = "none"
                              /\ \A i \in 1 .. Len(q) : q[i] # acceptor'
    PROVE  AcceptOK'
  BY DEF AcceptOK, Unaccepted

LEMMA AcceptGrows ==
    ASSUME LInv, NEW s \in Sessions, acceptor # s, acceptor' = acceptor,
           \A i \in 1 .. Len(listener.accept) : listener.accept[i] # s,
           DOMAIN listener' = {"closed", "accept", "closing", "world"},
           listener'.accept = Append(listener.accept, s),
           sess'[s].state # "unused", conn'[s].hs = "none",
           \A y \in Sessions : Unaccepted(y) => sess'[y].state # "unused" /\ conn'[y].hs = "none"
    PROVE  AcceptOK'
<1> DEFINE q == Append(listener.accept, s)
           n == Len(listener.accept)
<1>1. /\ listener.accept \in Seq(Sessions) /\ n \in Nat /\ acceptor \in SessionOrNil
      /\ \A i \in 1 .. n : listener.accept[i] \in Sessions /\ Unaccepted(listener.accept[i])
      /\ \A i, j \in 1 .. n : listener.accept[i] = listener.accept[j] => i = j
      /\ acceptor # Nil => /\ Unaccepted(acceptor)
                           /\ \A i \in 1 .. n : listener.accept[i] # acceptor
  BY SMTT(30) DEF LInv, AcceptOK
<1>2. /\ q \in Seq(Sessions) /\ Len(q) = n + 1 /\ q[n + 1] = s
      /\ \A i \in 1 .. n : q[i] = listener.accept[i]
  BY SMTT(30), <1>1
<1> HIDE DEF q, n
<1>3. \A i \in 1 .. Len(q) : i \in 1 .. n \/ i = n + 1
  BY SMTT(30), <1>1, <1>2
<1>4. \A i \in 1 .. Len(q) : sess'[q[i]].state # "unused" /\ conn'[q[i]].hs = "none"
  <2> SUFFICES ASSUME NEW i \in 1 .. Len(q)
               PROVE  sess'[q[i]].state # "unused" /\ conn'[q[i]].hs = "none"
    OBVIOUS
  <2>1. CASE i = n + 1
    BY <1>2, <2>1
  <2>2. CASE i \in 1 .. n
    <3>1. q[i] \in Sessions /\ Unaccepted(q[i])
      BY <1>1, <1>2, <2>2
    <3> QED
      BY <3>1
  <2> QED
    BY <1>3, <2>1, <2>2
<1>5. \A i, j \in 1 .. Len(q) : q[i] = q[j] => i = j
  BY <1>1, <1>2, <1>3 DEF n
<1>6. acceptor # Nil => /\ sess'[acceptor].state # "unused" /\ conn'[acceptor].hs = "none"
                        /\ \A i \in 1 .. Len(q) : q[i] # acceptor
  <2>1. acceptor # Nil => acceptor \in Sessions
    BY <1>1, NilIsNoSession
  <2>2. acceptor # Nil => sess'[acceptor].state # "unused" /\ conn'[acceptor].hs = "none"
    BY <1>1, <2>1
  <2>3. acceptor # Nil => \A i \in 1 .. Len(q) : q[i] # acceptor
    BY <1>1, <1>2, <1>3
  <2> QED
    BY <2>2, <2>3
<1>7. listener'.accept = q /\ acceptor' = acceptor
  BY DEF q
<1>8. acceptor' # Nil => /\ sess'[acceptor'].state # "unused" /\ conn'[acceptor'].hs = "none"
                         /\ \A i \in 1 .. Len(q) : q[i] # acceptor'
  BY <1>6, <1>7
<1>9. acceptor' \in SessionOrNil
  BY <1>1, <1>7
<1> QED
  BY <1>2, <1>4, <1>5, <1>7, <1>8, <1>9, AcceptIs

LEMMA OfferedKeeps ==
    ASSUME LInv, HasRoom(table), NEW a \in Addresses, NEW targets, reader.pushed = Nil,
           NEW where,
           \/ where = "sessions" /\ Unclaimed(a)
           \/ where = "pending" /\ MayReplace(a),
           table' = [table EXCEPT ![where][a] = NextSession],
           SessionChanges(NextSession, newPacketSession(a)),
           listener' = [listener EXCEPT !.accept = Append(@, NextSession)],
           reader' = Routed(a, targets), UNCHANGED <<acceptor, conn>>
    PROVE  LInv'
<1> DEFINE s == NextSession
           x == newPacketSession(a)
<1>1. /\ s \in Sessions /\ s \notin Entries(table) /\ sess[s].state = "unused"
      /\ conn[s].hs = "none" /\ ~listener.closed /\ acceptor # s
      /\ \A i \in 1 .. Len(listener.accept) : listener.accept[i] # s
  BY FreshSession
<1>2. /\ ConnsOK' /\ SessionsOK' /\ StagesOK' /\ sess'[s] = x
      /\ \A y \in Sessions : y # s => sess'[y] = sess[y]
      /\ \A y \in Sessions : Unaccepted(y) => sess'[y].state # "unused" /\ conn'[y].hs = "none"
  BY Started
<1>3. x.state = "open" /\ x.remote = a
  BY FreshShape
<1>4. /\ TablesOK' /\ table'.cids = table.cids
      /\ \A b \in Addresses :
            /\ table'.sessions[b] =
                  IF b = a /\ where = "sessions" THEN s ELSE table.sessions[b]
            /\ table'.pending[b] =
                  IF b = a /\ where = "pending" THEN s ELSE table.pending[b]
  <2>1. CASE where = "sessions"
    BY <1>1, <2>1, NilIsNoSession DEF LInv, TablesOK
  <2>2. CASE where = "pending"
    BY <1>1, <2>2, NilIsNoSession DEF LInv, TablesOK
  <2> QED
    BY <2>1, <2>2
<1>5. /\ where = "sessions" => table.sessions[a] = Nil /\ table.pending[a] = Nil
      /\ where = "pending" => table.sessions[a] # Nil /\ table.pending[a] = Nil
      /\ where \in {"sessions", "pending"}
  BY DEF Unclaimed, MayReplace
<1>6. /\ DOMAIN listener' = {"closed", "accept", "closing", "world"}
      /\ listener'.closing = listener.closing /\ listener'.accept = Append(listener.accept, s)
  BY DEF LInv, AcceptOK
<1>7. listener'.closed = listener.closed
  BY DEF LInv, AcceptOK
<1> HIDE DEF s, x
<1>8. \A b \in Addresses : table.sessions[b] # s /\ table.pending[b] # s
  BY <1>1, NilIsNoSession, EntriesAre
<1>9. PlacesOK'
  <2> SUFFICES ASSUME NEW b \in Addresses
               PROVE  /\ table'.sessions[b] # Nil => sess'[table'.sessions[b]].remote = b
                      /\ table'.pending[b] # Nil =>
                            /\ sess'[table'.pending[b]].remote = b
                            /\ table'.pending[b] # table'.sessions[b]
                            /\ ~Proved(conn[table'.pending[b]])
    BY DEF PlacesOK, Proved
  <2>1. /\ table.sessions[b] # Nil => sess[table.sessions[b]].remote = b
        /\ table.pending[b] # Nil =>
              /\ sess[table.pending[b]].remote = b
              /\ table.pending[b] # table.sessions[b]
              /\ ~Proved(conn[table.pending[b]])
    BY DEF LInv, PlacesOK
  <2>2. /\ table.sessions[b] \in Sessions \/ table.sessions[b] = Nil
        /\ table.pending[b] \in Sessions \/ table.pending[b] = Nil
    BY PlacesTyped
  <2>3. ~Proved(conn[s])
    BY <1>1 DEF Proved
  <2>4. CASE b = a /\ where = "sessions"
    BY <1>2, <1>3, <1>4, <1>5, <2>4
  <2>5. CASE b = a /\ where = "pending"
    BY SMTT(30), <1>2, <1>3, <1>4, <1>5, <1>8, <2>1, <2>2, <2>3, <2>5
  <2>6. CASE b # a
    BY SMTT(30), <1>2, <1>4, <1>8, <2>1, <2>2, <2>6
  <2> QED
    BY <1>5, <2>4, <2>5, <2>6
<1>10. EntriesOK'
  <2> SUFFICES ASSUME NEW r, r \in Entries(table')
               PROVE  sess'[r].state # "unused" /\ Live(sess'[r])
    BY DEF EntriesOK, Live
  <2>1. /\ r # Nil
        /\ \/ \E b \in Addresses : table'.sessions[b] = r \/ table'.pending[b] = r
           \/ \E c \in CIDs : table'.cids[c] = r
    BY DEF Entries, InTables
  <2>2. r = s \/ r \in Entries(table)
    BY SMTT(30), <1>4, <2>1, EntriesAre
  <2>3. CASE r = s
    BY <1>2, <1>3, <2>3 DEF Live
  <2>4. CASE r # s /\ r \in Entries(table)
    <3>1. r \in Sessions /\ sess[r].state # "unused" /\ Live(sess[r])
      BY <1>1, <2>4, EntriesTyped DEF LInv, EntriesOK
    <3> QED
      BY <1>2, <2>4, <3>1
  <2> QED
    BY <2>2, <2>3, <2>4
<1>11. AcceptOK'
  BY <1>1, <1>2, <1>3, <1>6, AcceptGrows
<1>12. OpenOK'
  <2>1. ASSUME NEW r \in Sessions, r \in InTables(table)
        PROVE  r \in InTables(table')
    <3>1. PICK b \in Addresses : Placed(table, r, b)
      BY <2>1, InTablesAre
    <3>2. Placed(table', r, b)
      BY <1>4, <1>5, <3>1, NilIsNoSession DEF Placed
    <3> QED
      BY <3>2, NilIsNoSession DEF InTables, Placed
  <2>2. s \in InTables(table')
    <3>1. Placed(table', s, a)
      BY <1>4, <1>5 DEF Placed
    <3> QED
      BY <1>1, <3>1, NilIsNoSession DEF InTables, Placed
  <2> SUFFICES ASSUME NEW r \in Sessions, sess'[r].state = "open"
               PROVE  \/ r \in InTables(table')
                      \/ r \in listener.closing
                      \/ \E y \in Sessions : conn[y].old = r
    BY <1>1, <1>6, <1>7 DEF LInv, OpenOK
  <2>3. CASE r = s
    BY <2>2, <2>3
  <2>4. CASE r # s
    <3>1. sess[r].state = "open"
      BY <1>2, <2>4
    <3> QED
      BY <2>1, <3>1 DEF LInv, OpenOK
  <2> QED
    BY <2>3, <2>4
<1> QED
  BY <1>2, <1>4, <1>9, <1>10, <1>11, <1>12 DEF LInv

LEMMA NewSessionKeeps ==
    ASSUME LInv, NEW a \in Addresses, reader.pushed = Nil, NEW where, NewSession(a, where),
           \/ where = "sessions" /\ Unclaimed(a)
           \/ where = "pending" /\ MayReplace(a)
    PROVE  LInv'
<1>1. CASE Offered
  BY <1>1, OfferedKeeps DEF NewSession, SessionChanges
<1>2. CASE ~Offered
  BY <1>2, NotOfferedKeeps DEF NewSession, SessionChanges
<1> QED
  BY <1>1, <1>2

LEMMA ReadLoopKeeps ==
    ASSUME LInv, NEW a \in Addresses, readLoop(a)
    PROVE  LInv'
<1>1. reader.pushed = Nil
  BY DEF readLoop
<1>2. ASSUME NEW bytes, RouteCID(a, bytes) PROVE LInv'
  BY <1>1, <1>2, RouteKeeps DEF RouteCID
<1>3. CASE RouteExisting(a)
  BY <1>1, <1>3, RouteKeeps DEF RouteExisting
<1>4. CASE NewSession(a, "sessions") /\ Unclaimed(a)
  BY <1>1, <1>4, NewSessionKeeps
<1>5. CASE NewSession(a, "pending") /\ MayReplace(a)
  BY <1>1, <1>5, NewSessionKeeps
<1>6. CASE RouteInitial(a)
  BY <1>3, <1>4, <1>5, <1>6 DEF RouteInitial
<1> QED
  BY <1>2, <1>3, <1>6 DEF readLoop

(***************************************************************************)
(* The invariant is inductive.                                             *)
(***************************************************************************)
LEMMA InitHolds == ASSUME ListenerInit PROVE LInv
<1>1. PICK i \in DOMAIN Worlds :
        /\ listener = [closed |-> FALSE, accept |-> <<>>, closing |-> {}, world |-> i]
        /\ IF Worlds[i].established THEN Established(Worlds[i].address, Worlds[i]) ELSE Unused
  BY DEF ListenerInit
<1>2. /\ DOMAIN listener = {"closed", "accept", "closing", "world"}
      /\ ~listener.closed /\ listener.accept = <<>> /\ listener.closing = {}
  BY <1>1
<1>3. reader = Idle /\ acceptor = Nil
  BY DEF ListenerInit
<1>4. /\ DOMAIN reader = {"targets", "from", "pushed", "arrived"}
      /\ reader.targets = <<>>
  BY <1>3 DEF Idle
<1>5. AcceptOK
  BY SMTT(30), <1>2, <1>3, NilIsNoSession DEF AcceptOK
<1>6. /\ DOMAIN NoSession = SessionFields /\ NoSession.state = "unused" /\ NoSession.in = <<>>
      /\ ~NoSession.removing
  BY DEF NoSession, SessionFields
<1>7. \A s : SessionOK(s, NoSession)
  BY SMT, <1>6 DEF SessionOK
<1>8. ConnOK(NoConn) /\ NoConn.hs = "none" /\ ~Proved(NoConn)
  BY NewConnOK DEF NoConn, NewConn, Proved
<1>9. CASE Unused
  <2>1. table = EmptyTable /\ sess = [s \in Sessions |-> NoSession] /\ conn = [s \in Sessions |-> NoConn]
    BY <1>9 DEF Unused
  <2>2. TablesOK
    BY <2>1, NilIsNoSession DEF TablesOK, EmptyTable
  <2>3. ConnsOK
    BY <1>8, <2>1 DEF ConnsOK
  <2>4. SessionsOK
    BY <1>4, <1>7, <2>1, SessionsAre
  <2>5. StagesOK
    BY <1>8, <2>1 DEF StagesOK, StageOK
  <2>6. PlacesOK
    BY <2>1 DEF PlacesOK, EmptyTable
  <2>7. EntriesOK
    BY <2>1 DEF EntriesOK, Entries, InTables, EmptyTable
  <2>8. OpenOK
    BY <1>2, <1>6, <2>1 DEF OpenOK
  <2> QED
    BY <1>5, <2>2, <2>3, <2>4, <2>5, <2>6, <2>7, <2>8 DEF LInv
<1>10. CASE Established(Worlds[i].address, Worlds[i])
  <2> DEFINE a == Worlds[i].address
             w == Worlds[i]
             cs == Range(w.cid)
             x == [newPacketSession(a) EXCEPT !.validated = TRUE, !.cid = w.cid]
             c == [NewConn EXCEPT !.hs = "done", !.secrets = TRUE, !.reading = "waiting"]
  <2>1. /\ table = addCIDs([EmptyTable EXCEPT !.sessions[a] = 1], 1, cs)
        /\ sess = [s \in Sessions |-> IF s = 1 THEN x ELSE NoSession]
        /\ conn = [s \in Sessions |-> IF s = 1 THEN c ELSE NoConn]
    BY <1>10 DEF Established
  <2>2. a \in Addresses /\ 1 \in Sessions
    BY SMTT(30), WorldsAssumption, ListenerAssumption DEF Sessions
  <2>3. ConnOK(c) /\ c.old = Nil
    BY DEF ConnOK, NewConn, ConnFields, Handshaking, Ended, Nil
  <2>4. /\ DOMAIN x = SessionFields /\ x.state = "open" /\ x.in = <<>> /\ ~x.removing
        /\ x.remote = a /\ x.validated
    BY DEF newPacketSession, NoSession, SessionFields
  <2> HIDE DEF x, c, cs, w
  <2>5. SessionOK(1, x)
    BY SMTT(30), <2>2, <2>4 DEF SessionOK
  <2> HIDE DEF a
  <2>6. /\ TablesOK
        /\ \A b \in Addresses : /\ table.sessions[b] = IF b = a THEN 1 ELSE Nil
                                /\ table.pending[b] = Nil
        /\ \A d \in CIDs : table.cids[d] \in {1, Nil}
    BY <2>1, <2>2, NilIsNoSession DEF TablesOK, EmptyTable, addCIDs
  <2>7. ConnsOK
    BY <1>8, <2>1, <2>3 DEF ConnsOK
  <2>8. SessionsOK
    <3>1. DOMAIN sess = Sessions /\ \A s \in Sessions : SessionOK(s, sess[s])
      BY <1>7, <2>1, <2>5
    <3> QED
      BY <1>4, <3>1, SessionsAre
  <2>9. StagesOK
    BY <1>8, <2>1, <2>4 DEF StagesOK, StageOK
  <2>10. PlacesOK
    BY <2>1, <2>2, <2>4, <2>6 DEF PlacesOK
  <2>11. EntriesOK
    <3>1. \A s \in Entries(table) : s = 1
      BY SMTT(30), <2>6, EntriesAre
    <3> QED
      BY <2>1, <2>2, <2>4, <3>1 DEF EntriesOK, Live
  <2>12. OpenOK
    <3>1. \A s \in Sessions : sess[s].state = "open" => s = 1
      BY <1>6, <2>1
    <3>2. 1 \in InTables(table)
      BY <2>2, <2>6, NilIsNoSession DEF InTables
    <3> QED
      BY <1>2, <3>1, <3>2 DEF OpenOK
  <2> QED
    BY <1>5, <2>6, <2>7, <2>8, <2>9, <2>10, <2>11, <2>12 DEF LInv
<1> QED
  BY <1>1, <1>9, <1>10

LEMMA NextKeeps == ASSUME LInv, [ListenerNext]_listenerVars PROVE LInv'
<1>1. CASE UNCHANGED listenerVars
  <2>1. UNCHANGED <<table, sess, listener, reader, acceptor, conn>>
    BY <1>1 DEF listenerVars
  <2>2. ConnsOK' /\ TablesOK' /\ StagesOK' /\ EntriesOK'
    <3>1. ConnsOK' /\ StagesOK'
      BY <2>1 DEF LInv, ConnsOK, StagesOK
    <3>2. TablesOK' /\ EntriesOK'
      BY <2>1 DEF LInv, TablesOK, EntriesOK
    <3> QED
      BY <3>1, <3>2
  <2>5. PlacesOK'
    <3>1. PlacesOK
      BY DEF LInv
    <3> QED
      BY <2>1, <3>1 DEF PlacesOK, Proved
  <2>3. SessionsOK'
    BY <2>1 DEF LInv, SessionsOK, QueuesReleased
  <2>4. AcceptOK' /\ OpenOK'
    BY <2>1 DEF LInv, AcceptOK, Unaccepted, OpenOK
  <2> QED
    BY <2>2, <2>3, <2>4, <2>5 DEF LInv
<1>2. CASE \E a \in Addresses : readLoop(a)
  BY <1>2, ReadLoopKeeps
<1>3. CASE Push \/ AfterPush
  BY <1>3, PushKeeps, AfterPushKeeps
<1>4. CASE AcceptStep
  BY <1>4, AcceptTakesKeeps, AcceptIdentifiesKeeps DEF AcceptStep
<1>5. CASE shutdown
  BY <1>5, ShutdownKeeps
<1>6. ASSUME NEW s \in Sessions, ShutdownCloses(s) PROVE LInv'
  BY <1>6, ShutdownClosesKeeps
<1>7. ASSUME NEW s \in Sessions, HandshakeStep(s) PROVE LInv'
  BY <1>7, HandshakeEvolves, ReadsKeep, ValidatedKeeps, CloseOldKeeps DEF
     HandshakeStep
<1>8. ASSUME NEW s \in Sessions, ReaderStep(s) PROVE LInv'
  BY <1>8, ReaderEvolves, ReadsKeep, RebindsKeeps DEF ReaderStep
<1>9. ASSUME NEW s \in Sessions, EndStep(s) \/ Close(s) PROVE LInv'
  BY <1>9, EndEvolves, TransportCloses, RemoveKeeps DEF EndStep
<1> QED
  BY <1>1, <1>2, <1>3, <1>4, <1>5, <1>6, <1>7, <1>8, <1>9 DEF ListenerNext

(***************************************************************************)
(* The capacities: a step adds to a queue only when there is room, and     *)
(* opens no session but the one the read loop starts.                      *)
(***************************************************************************)
Fits(x) == x.remote \in Addresses \cup {NoAddress} /\ Len(x.in) <= QueueSize

\* What a step may do to a session, unless it starts it.
Shrinks(x, y) == (Fits(x) => Fits(y)) /\ (y.state = "open" => x.state = "open")

LEMMA OneShrinks ==
    ASSUME LInv, NEW s, NEW x, SessionChanges(s, x), s \in Sessions => Shrinks(sess[s], x)
    PROVE  \A y \in Sessions : Shrinks(sess[y], sess'[y])
<1>1. \A y \in Sessions : sess'[y] = IF y = s THEN x ELSE sess[y]
  BY DEF SessionChanges, LInv, SessionsOK
<1>2. \A y : Shrinks(sess[y], sess[y])
  BY DEF Shrinks
<1> QED
  BY <1>1, <1>2

LEMMA SameShrinks ==
    ASSUME NEW x, NEW y, y.in = x.in, y.remote = x.remote, y.state = x.state
    PROVE  Shrinks(x, y)
  BY DEF Shrinks, Fits

LEMMA CloseShrinks ==
    ASSUME NEW s, NEW x, SessionOK(s, x), NEW y,
           y = closeWithoutCallback(x) \/ y = SessionClose(x)
    PROVE  Shrinks(x, y) /\ y.state # "open"
<1> USE DEF SessionFields
<1>1. CASE x.state # "open"
  BY <1>1 DEF closeWithoutCallback, SessionClose, Shrinks
<1>2. CASE x.state = "open"
  <2>1. y.in = <<>> /\ y.state = "closed" /\ y.remote = x.remote
    BY <1>2 DEF closeWithoutCallback, SessionClose, SessionOK
  <2>2. 0 <= QueueSize
    BY SMT, ListenerAssumption
  <2> QED
    BY <2>1, <2>2 DEF Shrinks, Fits
<1> QED
  BY <1>1, <1>2

\* Sessions that are closed.
LEMMA ClosingShrinks ==
    ASSUME LInv, NEW s \in Sessions,
           SessionChanges(s, SessionClose(sess[s])) \/ SessionChanges(s, closeWithoutCallback(sess[s]))
    PROVE  \A y \in Sessions : Shrinks(sess[y], sess'[y])
<1>1. SessionOK(s, sess[s])
  BY SessionTyped
<1> QED
  BY <1>1, OneShrinks, CloseShrinks

LEMMA HandshakeShrinks ==
    ASSUME LInv, NEW s \in Sessions, HandshakeStep(s)
    PROVE  \A y \in Sessions : Shrinks(sess[y], sess'[y])
<1>1. SessionOK(s, sess[s]) /\ DOMAIN sess = Sessions /\ ConnOK(conn[s])
  BY SessionTyped
<1>2. CASE UNCHANGED sess
  BY <1>2 DEF Shrinks
<1>3. CASE HandshakeReads(s)
  <2> DEFINE x == [sess[s] EXCEPT !.in = Tail(sess[s].in)]
  <2>1. SessionChanges(s, x) /\ sess[s].in # <<>>
    BY <1>1, <1>3 DEF HandshakeReads, SessionChanges
  <2>2. x.in = Tail(sess[s].in) /\ x.remote = sess[s].remote /\ x.state = sess[s].state
    BY <1>1 DEF SessionOK, SessionFields
  <2>3. Len(Tail(sess[s].in)) = Len(sess[s].in) - 1 /\ Len(sess[s].in) \in Nat
    BY SMT, <1>1, <2>1 DEF SessionOK
  <2> HIDE DEF x
  <2>4. Shrinks(sess[s], x)
    BY SMTT(30), <2>2, <2>3, ListenerAssumption DEF Shrinks, Fits
  <2> QED
    BY <2>1, <2>4, OneShrinks
<1>4. CASE connectionValidated(s)
  <2> DEFINE x == [sess[s] EXCEPT !.validated = TRUE]
  <2>1. SessionChanges(s, x)
    BY <1>1, <1>4 DEF connectionValidated, SessionChanges
  <2>2. x.in = sess[s].in /\ x.remote = sess[s].remote /\ x.state = sess[s].state
    BY <1>1 DEF SessionOK, SessionFields
  <2> HIDE DEF x
  <2> QED
    BY <2>1, <2>2, OneShrinks, SameShrinks
<1>5. CASE CloseOld(s)
  <2> DEFINE o == conn[s].old
  <2>1. o \in Sessions
    BY <1>1, <1>5 DEF CloseOld, ConnOK
  <2>2. SessionChanges(o, SessionClose(sess[o]))
    BY <1>1, <1>5, <2>1 DEF CloseOld, SessionChanges
  <2> HIDE DEF o
  <2> QED
    BY <2>1, <2>2, ClosingShrinks
<1> QED
  BY <1>2, <1>3, <1>4, <1>5 DEF HandshakeStep, StartHandshake, InstallKeys,
     completeHandshake

LEMMA ReaderShrinks ==
    ASSUME LInv, NEW s \in Sessions, ReaderStep(s)
    PROVE  \A y \in Sessions : Shrinks(sess[y], sess'[y])
<1>1. SessionOK(s, sess[s]) /\ DOMAIN sess = Sessions /\ ConnOK(conn[s])
  BY SessionTyped
<1>2. CASE UNCHANGED sess
  BY <1>2 DEF Shrinks
<1>3. CASE ReadRecord(s)
  <2> DEFINE x == [sess[s] EXCEPT !.in = Tail(sess[s].in)]
  <2>1. SessionChanges(s, x) /\ sess[s].in # <<>>
    BY <1>1, <1>3 DEF ReadRecord, SessionChanges
  <2>2. x.in = Tail(sess[s].in) /\ x.remote = sess[s].remote /\ x.state = sess[s].state
    BY <1>1 DEF SessionOK, SessionFields
  <2>3. Len(Tail(sess[s].in)) = Len(sess[s].in) - 1 /\ Len(sess[s].in) \in Nat
    BY SMT, <1>1, <2>1 DEF SessionOK
  <2> HIDE DEF x
  <2>4. Shrinks(sess[s], x)
    BY SMTT(30), <2>2, <2>3, ListenerAssumption DEF Shrinks, Fits
  <2> QED
    BY <2>1, <2>4, OneShrinks
<1>4. CASE DispatchRebinds(s)
  <2> DEFINE b == conn[s].from
             d == Displaced(table, s, b)
             x == [sess[s] EXCEPT !.remote = b, !.late = @ \/ sess[s].state = "closed"]
  <2>1. \A y \in Sessions : sess'[y] = IF y = s THEN x
                                       ELSE IF y = d THEN closeWithoutCallback(sess[y])
                                       ELSE sess[y]
    BY <1>1, <1>4 DEF DispatchRebinds, rebindSession
  <2>2. x.in = sess[s].in /\ x.remote = b /\ x.state = sess[s].state
    BY <1>1 DEF SessionOK, SessionFields
  <2>3. b \in Addresses
    BY <1>1, <1>4 DEF DispatchRebinds, ConnOK
  <2> HIDE DEF x, d
  <2>4. Shrinks(sess[s], x)
    BY <2>2, <2>3 DEF Shrinks, Fits
  <2>5. \A y \in Sessions : Shrinks(sess[y], closeWithoutCallback(sess[y]))
    BY SessionTyped, CloseShrinks
  <2>6. \A y : Shrinks(sess[y], sess[y])
    BY DEF Shrinks
  <2> QED
    BY <2>1, <2>4, <2>5, <2>6
<1> QED
  BY <1>2, <1>3, <1>4 DEF ReaderStep, startRecordReader, Dispatch, DispatchFails,
     finishRecordReader

LEMMA EndShrinks ==
    ASSUME LInv, NEW s \in Sessions, EndStep(s) \/ Close(s) \/ ShutdownCloses(s)
    PROVE  \A y \in Sessions : Shrinks(sess[y], sess'[y])
<1>1. SessionOK(s, sess[s]) /\ DOMAIN sess = Sessions
  BY SessionTyped
<1>2. CASE UNCHANGED sess
  BY <1>2 DEF Shrinks
<1>3. CASE FailCloses(s) \/ CloseTransport(s) \/ ShutdownCloses(s)
  <2>1. SessionChanges(s, SessionClose(sess[s])) \/ SessionChanges(s, closeWithoutCallback(sess[s]))
    BY <1>1, <1>3 DEF FailCloses, CloseTransport, ShutdownCloses, SessionChanges
  <2> QED
    BY <2>1, ClosingShrinks
<1>4. CASE RemoveSession(s)
  <2> DEFINE x == [sess[s] EXCEPT !.removing = FALSE]
  <2>1. SessionChanges(s, x)
    BY <1>1, <1>4 DEF RemoveSession, SessionChanges
  <2>2. x.in = sess[s].in /\ x.remote = sess[s].remote /\ x.state = sess[s].state
    BY <1>1 DEF SessionOK, SessionFields
  <2> HIDE DEF x
  <2> QED
    BY <2>1, <2>2, OneShrinks, SameShrinks
<1> QED
  BY <1>2, <1>3, <1>4 DEF EndStep, TimerFails, FailClears, CloseClears, Close

LEMMA QueueShrinks ==
    ASSUME LInv, Push \/ AfterPush
    PROVE  \A y \in Sessions : Shrinks(sess[y], sess'[y])
<1>1. DOMAIN sess = Sessions
  BY DEF LInv, SessionsOK
<1>2. CASE UNCHANGED sess
  BY <1>2 DEF Shrinks
<1>3. CASE Push /\ ~UNCHANGED sess
  <2> DEFINE s == Head(reader.targets)
             x == [sess[s] EXCEPT !.in = Append(sess[s].in, reader.from)]
  <2>1. SessionChanges(s, x) /\ Len(sess[s].in) < QueueSize
    BY <1>1, <1>3 DEF Push, SessionChanges
  <2> HIDE DEF s
  <2>2. ASSUME s \in Sessions PROVE Shrinks(sess[s], x)
    <3>1. SessionOK(s, sess[s])
      BY <2>2, SessionTyped
    <3>2. x.in = Append(sess[s].in, reader.from) /\ x.remote = sess[s].remote
          /\ x.state = sess[s].state
      BY <3>1 DEF SessionOK, SessionFields
    <3>3. Len(Append(sess[s].in, reader.from)) = Len(sess[s].in) + 1 /\ Len(sess[s].in) \in Nat
      BY SMT, <3>1 DEF SessionOK
    <3> HIDE DEF x
    <3> QED
      BY SMTT(30), <2>1, <3>2, <3>3, ListenerAssumption DEF Shrinks, Fits
  <2> HIDE DEF x
  <2> QED
    BY <2>1, <2>2, OneShrinks
<1>4. CASE AfterPush
  <2> DEFINE s == reader.pushed
             x == [sess[s] EXCEPT !.in = Pushed(s)]
  <2>1. SessionChanges(s, x)
    BY <1>1, <1>4 DEF AfterPush, SessionChanges
  <2> HIDE DEF s
  <2>2. ASSUME s \in Sessions PROVE Shrinks(sess[s], x)
    <3>1. SessionOK(s, sess[s])
      BY <2>2, SessionTyped
    <3>2. x.in = Pushed(s) /\ x.remote = sess[s].remote /\ x.state = sess[s].state
      BY <3>1 DEF SessionOK, SessionFields
    <3>3. Len(Pushed(s)) <= Len(sess[s].in) /\ Len(Pushed(s)) \in Nat /\ Len(sess[s].in) \in Nat
      BY SMT, <3>1 DEF SessionOK, Pushed
    <3> HIDE DEF x
    <3> QED
      BY SMTT(30), <3>2, <3>3, ListenerAssumption DEF Shrinks, Fits
  <2> HIDE DEF x
  <2> QED
    BY <2>1, <2>2, OneShrinks
<1> QED
  BY <1>2, <1>3, <1>4

LEMMA AcceptShrinks ==
    ASSUME LInv, AcceptStep
    PROVE  \A y \in Sessions : Shrinks(sess[y], sess'[y])
<1>1. DOMAIN sess = Sessions
  BY DEF LInv, SessionsOK
<1>2. CASE UNCHANGED sess
  BY <1>2 DEF Shrinks
<1>3. CASE AcceptTakes
  <2> DEFINE s == Head(listener.accept)
  <2>1. s \in Sessions
    BY SMTT(30), <1>3 DEF AcceptTakes, LInv, AcceptOK
  <2>2. UNCHANGED sess \/ SessionChanges(s, SessionClose(sess[s]))
    BY <1>1, <1>3, <2>1 DEF AcceptTakes, SessionChanges
  <2> HIDE DEF s
  <2> QED
    BY <1>2, <2>1, <2>2, ClosingShrinks
<1>4. CASE AcceptIdentifies
  <2> DEFINE s == acceptor
  <2>1. s \in Sessions
    BY <1>4, NilIsNoSession DEF AcceptIdentifies, LInv, AcceptOK
  <2>2. SessionOK(s, sess[s])
    BY <2>1, SessionTyped
  <2>3. ASSUME NEW cid, Refused(s, cid) PROVE \A y \in Sessions : Shrinks(sess[y], sess'[y])
    <3> DEFINE z == [sess[s] EXCEPT !.cid = cid]
    <3>1. SessionChanges(s, SessionClose(z))
      BY <1>1, <2>1, <2>3 DEF Refused, SessionChanges
    <3>2. /\ z.in = sess[s].in /\ z.remote = sess[s].remote /\ z.state = sess[s].state
          /\ DOMAIN z = SessionFields
      BY <2>2 DEF SessionOK, SessionFields
    <3>3. z.removing = sess[s].removing
      BY <2>2 DEF SessionOK, SessionFields
    <3> HIDE DEF z
    <3>4. SessionOK(s, z) /\ Shrinks(sess[s], z)
      BY <2>2, <3>2, <3>3, SameShrinks DEF SessionOK
    <3>5. Shrinks(z, SessionClose(z))
      BY <3>4, CloseShrinks
    <3>6. Shrinks(sess[s], SessionClose(z))
      BY <3>4, <3>5 DEF Shrinks
    <3> QED
      BY <3>1, <3>6, OneShrinks
  <2>4. ASSUME NEW cid, Accepted(s, cid) PROVE \A y \in Sessions : Shrinks(sess[y], sess'[y])
    <3> DEFINE z == [sess[s] EXCEPT !.cid = cid, !.late = sess[s].late \/ sess[s].state = "closed"]
    <3>1. SessionChanges(s, z)
      BY <1>1, <2>1, <2>4 DEF Accepted, SessionChanges
    <3>2. z.in = sess[s].in /\ z.remote = sess[s].remote /\ z.state = sess[s].state
      BY <2>2 DEF SessionOK, SessionFields
    <3> HIDE DEF z
    <3> QED
      BY <3>1, <3>2, OneShrinks, SameShrinks
  <2> QED
    BY <1>4, <2>3, <2>4 DEF AcceptIdentifies
<1> QED
  BY <1>3, <1>4 DEF AcceptStep

\* A session that is about to be closed by the one that replaced it stays so
\* until it is closed.
OldKept(x) ==
    conn[x].old = Nil \/ conn'[x].old = conn[x].old \/ sess'[conn[x].old].state # "open"

LEMMA OneOld ==
    ASSUME LInv, NEW s \in Sessions, NEW c, Changes(s, c), c.old = conn[s].old \/ conn[s].old = Nil
    PROVE  \A x \in Sessions : OldKept(x)
  BY DEF Changes, OldKept, LInv, ConnsOK

LEMMA OldsKept ==
    ASSUME LInv, [ListenerNext]_listenerVars
    PROVE  \A x \in Sessions : OldKept(x)
<1>1. DOMAIN conn = Sessions /\ \A s \in Sessions : ConnOK(conn[s])
  BY DEF LInv, ConnsOK
<1>2. CASE UNCHANGED conn
  BY <1>2 DEF OldKept
<1>3. ASSUME NEW s \in Sessions, HandshakeStep(s) PROVE \A x \in Sessions : OldKept(x)
  <2>1. CASE StartHandshake(s)
    <3> DEFINE c == IF conn[s].closed
                    THEN [conn[s] EXCEPT !.hs = "done", !.err = TRUE, !.cancelled = TRUE]
                    ELSE [conn[s] EXCEPT !.hs = "running", !.handshaking = TRUE]
    <3>1. Changes(s, c)
      BY <1>1, <2>1 DEF StartHandshake, Changes
    <3>2. c.old = conn[s].old
      BY <1>1 DEF ConnOK, ConnFields
    <3> HIDE DEF c
    <3> QED
      BY <3>1, <3>2, OneOld
  <2>2. CASE InstallKeys(s)
    <3> DEFINE c == [conn[s] EXCEPT !.hs = "installed", !.secrets = TRUE]
    <3>1. Changes(s, c)
      BY <1>1, <2>2 DEF InstallKeys, Changes
    <3>2. c.old = conn[s].old
      BY <1>1 DEF ConnOK, ConnFields
    <3> HIDE DEF c
    <3> QED
      BY <3>1, <3>2, OneOld
  <2>3. CASE connectionValidated(s)
    <3>1. conn[s].old = Nil
      BY <1>1, <2>3 DEF connectionValidated, ConnOK
    <3>2. \A x \in Sessions : x # s => conn'[x] = conn[x]
      BY <1>1, <2>3 DEF connectionValidated
    <3> QED
      BY <3>1, <3>2 DEF OldKept
  <2>4. CASE CloseOld(s)
    <3> DEFINE o == conn[s].old
    <3>1. o \in Sessions
      BY <1>1, <2>4 DEF CloseOld, ConnOK
    <3>2. SessionOK(o, sess[o]) /\ DOMAIN sess = Sessions
      BY <3>1, SessionTyped
    <3>3. sess'[o] = SessionClose(sess[o])
      BY <2>4, <3>1, <3>2 DEF CloseOld
    <3>4. sess'[o].state # "open"
      BY <3>2, <3>3, CloseShrinks
    <3>5. \A x \in Sessions : x # s => conn'[x] = conn[x]
      BY <1>1, <2>4 DEF CloseOld
    <3> QED
      BY <3>4, <3>5 DEF OldKept
  <2>5. CASE completeHandshake(s)
    <3>1. PICK err : Changes(s, Completed(conn[s], err))
      BY <2>5 DEF completeHandshake, Changes
    <3>2. conn[s].old = Nil
      BY <2>5 DEF completeHandshake
    <3> QED
      BY <3>1, <3>2, OneOld
  <2>6. CASE HandshakeReads(s)
    BY <1>2, <2>6 DEF HandshakeReads
  <2> QED
    BY <1>3, <2>1, <2>2, <2>3, <2>4, <2>5, <2>6 DEF HandshakeStep
<1>4. ASSUME NEW s \in Sessions, ReaderStep(s) PROVE \A x \in Sessions : OldKept(x)
  <2>1. ASSUME startRecordReader(s) PROVE \A x \in Sessions : conn'[x].old = conn[x].old
    BY <1>1, <2>1 DEF startRecordReader, ConnOK, ConnFields
  <2>2. ASSUME ReadRecord(s) PROVE \A x \in Sessions : conn'[x].old = conn[x].old
    BY <1>1, <2>2 DEF ReadRecord, ConnOK, ConnFields
  <2>3. ASSUME Dispatch(s) \/ DispatchRebinds(s) PROVE \A x \in Sessions : conn'[x].old = conn[x].old
    BY SMTT(30), <1>1, <2>3 DEF Dispatch, DispatchRebinds, Dispatched, ConnOK,
       ConnFields
  <2>4. ASSUME DispatchFails(s) PROVE \A x \in Sessions : conn'[x].old = conn[x].old
    BY <1>1, <2>4 DEF DispatchFails, ConnOK, ConnFields
  <2>5. ASSUME finishRecordReader(s) PROVE \A x \in Sessions : conn'[x].old = conn[x].old
    BY SMTT(30), <1>1, <2>5 DEF finishRecordReader, ConnOK, ConnFields
  <2> QED
    BY <1>4, <2>1, <2>2, <2>3, <2>4, <2>5 DEF ReaderStep, OldKept
<1>5. ASSUME NEW s \in Sessions, EndStep(s) \/ Close(s) PROVE \A x \in Sessions : OldKept(x)
  <2>1. ASSUME TimerFails(s) PROVE \A x \in Sessions : conn'[x].old = conn[x].old
    BY <1>1, <2>1 DEF TimerFails, ConnOK, ConnFields
  <2>2. ASSUME FailClears(s) PROVE \A x \in Sessions : conn'[x].old = conn[x].old
    BY <1>1, <2>2 DEF FailClears, ConnOK, ConnFields
  <2>3. ASSUME FailCloses(s) PROVE \A x \in Sessions : conn'[x].old = conn[x].old
    BY <1>1, <2>3 DEF FailCloses, ConnOK, ConnFields
  <2>4. ASSUME CloseClears(s) PROVE \A x \in Sessions : conn'[x].old = conn[x].old
    BY <1>1, <2>4 DEF CloseClears, ConnOK, ConnFields
  <2>5. ASSUME CloseTransport(s) PROVE \A x \in Sessions : conn'[x].old = conn[x].old
    BY <1>1, <2>5 DEF CloseTransport, ConnOK, ConnFields
  <2>6. ASSUME Close(s) PROVE \A x \in Sessions : conn'[x].old = conn[x].old
    BY <1>1, <2>6 DEF Close, ConnOK, ConnFields
  <2>7. ASSUME RemoveSession(s) PROVE \A x \in Sessions : conn'[x].old = conn[x].old
    BY <1>1, <2>7 DEF RemoveSession, ConnOK, ConnFields
  <2> QED
    BY <1>5, <2>1, <2>2, <2>3, <2>4, <2>5, <2>6, <2>7 DEF EndStep, OldKept
<1>6. CASE AcceptStep
  <2>1. CASE AcceptTakes
    BY <1>2, <2>1 DEF AcceptTakes
  <2>2. CASE AcceptIdentifies
    <3>1. acceptor \in Sessions /\ conn[acceptor].hs = "none"
      BY <2>2, NilIsNoSession DEF AcceptIdentifies, LInv, AcceptOK, Unaccepted
    <3>2. conn[acceptor].old = Nil
      BY <1>1, <3>1 DEF ConnOK
    <3>3. UNCHANGED conn \/ Changes(acceptor, NewConn)
      BY <2>2 DEF AcceptIdentifies, Accepted, Refused, Changes
    <3> QED
      BY <1>2, <3>1, <3>2, <3>3, OneOld
  <2> QED
    BY <1>6, <2>1, <2>2 DEF AcceptStep
<1>7. ASSUME NEW a \in Addresses, readLoop(a) PROVE UNCHANGED conn
  BY <1>7 DEF readLoop, RouteCID, RouteInitial, RouteExisting, NewSession
<1>8. ASSUME Push \/ AfterPush \/ shutdown \/ UNCHANGED listenerVars PROVE UNCHANGED conn
  BY <1>8 DEF Push, AfterPush, shutdown, listenerVars
<1>9. ASSUME NEW s \in Sessions, ShutdownCloses(s) PROVE UNCHANGED conn
  BY <1>9 DEF ShutdownCloses
<1> QED
  BY <1>2, <1>3, <1>4, <1>5, <1>6, <1>7, <1>8, <1>9 DEF ListenerNext

(***************************************************************************)
(* The operations on the tables keep their type.                           *)
(***************************************************************************)
TableType ==
    [sessions : [Addresses -> SessionOrNil], pending : [Addresses -> SessionOrNil],
     cids : [CIDs -> SessionOrNil]]

LEMMA TableOperations ==
    ASSUME NEW t \in TableType, NEW s \in SessionOrNil
    PROVE  /\ \A a \in Addresses : /\ [t EXCEPT !.sessions[a] = s] \in TableType
                                   /\ [t EXCEPT !.pending[a] = s] \in TableType
           /\ \A cs : /\ addCIDs(t, s, cs) \in TableType
                      /\ unregisterSessionCIDs(t, s, cs) \in TableType
           /\ removeSession(t, s) \in TableType
<1>1. \A f \in [Addresses -> SessionOrNil] : /\ [t EXCEPT !.sessions = f] \in TableType
                                             /\ [t EXCEPT !.pending = f] \in TableType
  BY DEF TableType
<1>2. \A f \in [CIDs -> SessionOrNil] : [t EXCEPT !.cids = f] \in TableType
  BY DEF TableType
<1>3. Nil \in SessionOrNil
  BY NilIsNoSession
<1>4. ASSUME NEW cs
      PROVE  addCIDs(t, s, cs) \in TableType /\ unregisterSessionCIDs(t, s, cs) \in TableType
  <2> DEFINE f == [c \in CIDs |-> IF c \in cs THEN s ELSE t.cids[c]]
             g == [c \in CIDs |-> IF c \in cs /\ t.cids[c] = s THEN Nil ELSE t.cids[c]]
  <2>1. f \in [CIDs -> SessionOrNil] /\ g \in [CIDs -> SessionOrNil]
    BY <1>3 DEF TableType
  <2>2. addCIDs(t, s, cs) = [t EXCEPT !.cids = f]
    BY DEF addCIDs
  <2>3. unregisterSessionCIDs(t, s, cs) = [t EXCEPT !.cids = g]
    BY DEF unregisterSessionCIDs
  <2> QED
    BY <1>2, <2>1, <2>2, <2>3
<1>5. ASSUME NEW a \in Addresses
      PROVE  [t EXCEPT !.sessions[a] = s] \in TableType /\ [t EXCEPT !.pending[a] = s] \in TableType
  BY DEF TableType
<1>6. removeSession(t, s) \in TableType
  <2> DEFINE f == [a \in Addresses |-> IF t.sessions[a] = s THEN Nil ELSE t.sessions[a]]
             g == [a \in Addresses |-> IF t.pending[a] = s THEN Nil ELSE t.pending[a]]
             h == [c \in CIDs |-> IF t.cids[c] = s THEN Nil ELSE t.cids[c]]
  <2>1. /\ f \in [Addresses -> SessionOrNil] /\ g \in [Addresses -> SessionOrNil]
        /\ h \in [CIDs -> SessionOrNil]
    BY <1>3 DEF TableType
  <2>2. removeSession(t, s) = [t EXCEPT !.sessions = f, !.pending = g, !.cids = h]
    BY DEF removeSession
  <2> HIDE DEF f, g, h
  <2>3. [t EXCEPT !.sessions = f, !.pending = g, !.cids = h] \in TableType
    BY <2>1 DEF TableType
  <2> QED
    BY <2>2, <2>3
<1> QED
  BY <1>4, <1>5, <1>6

LEMMA RebindTyped ==
    ASSUME NEW t \in TableType, NEW s \in Sessions, NEW a \in Addresses, NEW b \in Addresses
    PROVE  rebindTable(t, s, a, b) \in TableType
<1> DEFINE left == IF t.sessions[a] = s THEN [t EXCEPT !.sessions[a] = Nil] ELSE t
           displaced == Displaced(left, s, b)
           freed == IF displaced = Nil THEN left ELSE unregisterSessionCIDs(left, displaced, CIDs)
<1>1. Nil \in SessionOrNil /\ s \in SessionOrNil
  BY NilIsNoSession
<1>2. left \in TableType
  BY <1>1, TableOperations
<1>3. rebindTable(t, s, a, b) = [freed EXCEPT !.sessions[b] = s]
  BY DEF rebindTable
<1> HIDE DEF left
<1>4. displaced \in SessionOrNil
  BY <1>1, <1>2 DEF Displaced, TableType
<1> HIDE DEF displaced
<1>5. freed \in TableType
  BY <1>2, <1>4, TableOperations
<1> HIDE DEF freed
<1>6. [freed EXCEPT !.sessions[b] = s] \in TableType
  BY <1>1, <1>5 DEF TableType
<1> QED
  BY <1>3, <1>6

=============================================================================
