------------------------------ MODULE Listener ------------------------------
(***************************************************************************)
(* A Listener and the connections it hands out (listener.go, and the       *)
(* lifecycle of a Conn in conn.go and early_io.go).                        *)
(*                                                                         *)
(* The processes are the read loop, a goroutine in Accept, Close of the    *)
(* Listener and, for every connection, its handshake goroutine, its record *)
(* reader, a goroutine in failConnection and one in Close.  A step is what *)
(* one of them does while it holds l.mu or readerMu, or between two locks. *)
(* Sessions are numbered; Nil is no session.                               *)
(***************************************************************************)
EXTENDS Integers, FiniteSets, Sequences, Functions

CONSTANTS
    Addresses, CIDs, QueueSize,
    SessionCount,    \* bound on the associations
    Worlds           \* a sequence: where behaviours start, with their bounds

ASSUME ListenerAssumption ==
    /\ SessionCount \in Nat \ {0}
    /\ QueueSize \in Nat \ {0}
    /\ \A c \in CIDs : c # <<>>
\* MaxPendingConnections is positive; an established association has a known
\* address and at most one ID.
ASSUME WorldsAssumption ==
    \A i \in DOMAIN Worlds :
        /\ Worlds[i].max \in Nat \ {0}
        /\ Worlds[i].address \in Addresses
        /\ \A c, d \in Range(Worlds[i].cid) : c = d

VARIABLES
    table,      \* l.sessions, l.pending and l.cidSessions
    sess,       \* the packetSession values
    listener,   \* closed, the accept channel, what shutdown has still to close
    reader,     \* the datagram the read loop routed and its remaining targets
    acceptor,   \* the goroutine in Accept
    conn        \* the Conn of each session

listenerVars == <<table, sess, listener, reader, acceptor, conn>>

World == Worlds[listener.world]

Sessions == 1 .. SessionCount
NoAddress == "no address"
Nil == 0
SessionOrNil == Sessions \cup {Nil}

(***************************************************************************)
(* The tables.                                                             *)
(***************************************************************************)
Registered(t) == {c \in CIDs : t.cids[c] # Nil}
Size(t) == Cardinality({a \in Addresses : t.sessions[a] # Nil})
              + Cardinality({a \in Addresses : t.pending[a] # Nil})

\* bytes.HasPrefix
HasPrefix(bytes, c) == Len(c) <= Len(bytes) /\ SubSeq(bytes, 1, Len(c)) = c
PrefixRelated(c, d) == HasPrefix(c, d) \/ HasPrefix(d, c)

\* The bytes after the header start with the ID; prefix-free IDs make the
\* length table and the scan find the same one.
sessionForCID(t, bytes) ==
    LET found == {c \in Registered(t) : HasPrefix(bytes, c)}
    IN  IF found = {} THEN Nil ELSE t.cids[CHOOSE c \in found : TRUE]

acceptsEmptyConnectionID(s) == s # Nil /\ sess[s].cid = << <<>> >>

\* registerSessionCID: the ID of an accepted session.
canRegister(t, s, c) ==
    \A d \in Registered(t) : PrefixRelated(c, d) => d = c /\ t.cids[d] = s

\* registerSessionCIDs: all the IDs or none.
canRegisterAll(t, s, cs) ==
    /\ \A c \in cs : \A d \in (Registered(t) \cup cs) \ {c} : ~PrefixRelated(c, d)
    /\ \A c \in cs : t.cids[c] \in {Nil, s}
addCIDs(t, s, cs) ==
    [t EXCEPT !.cids = [c \in CIDs |-> IF c \in cs THEN s ELSE @[c]]]
unregisterSessionCIDs(t, s, cs) ==
    [t EXCEPT !.cids = [c \in CIDs |-> IF c \in cs /\ @[c] = s THEN Nil ELSE @[c]]]

removeSession_KeepsCIDs(t, s) ==
    [t EXCEPT !.sessions = [a \in Addresses |-> IF @[a] = s THEN Nil ELSE @[a]],
              !.pending = [a \in Addresses |-> IF @[a] = s THEN Nil ELSE @[a]]]
removeSession(t, s) ==
    [t EXCEPT !.sessions = [a \in Addresses |-> IF @[a] = s THEN Nil ELSE @[a]],
              !.pending = [a \in Addresses |-> IF @[a] = s THEN Nil ELSE @[a]],
              !.cids = [c \in CIDs |-> IF @[c] = s THEN Nil ELSE @[c]]]

\* rebindSession's tables; the session it displaces is closed by its caller.
Displaced(t, s, a) == IF t.sessions[a] = s THEN Nil ELSE t.sessions[a]
rebindTable(t, s, old, new) ==
    LET left == IF t.sessions[old] = s THEN [t EXCEPT !.sessions[old] = Nil] ELSE t
        displaced == Displaced(left, s, new)
        freed == IF displaced = Nil THEN left
                 ELSE unregisterSessionCIDs(left, displaced, CIDs)
    IN  [freed EXCEPT !.sessions[new] = s]

(***************************************************************************)
(* Sessions.                                                               *)
(***************************************************************************)
NoSession ==
    [state |-> "unused", remote |-> NoAddress, validated |-> FALSE,
     cid |-> <<>>, in |-> <<>>, removing |-> FALSE, late |-> FALSE]
newPacketSession(a) == [NoSession EXCEPT !.state = "open", !.remote = a]

\* closeOnce: the queue is emptied, later calls do nothing.
closeWithoutCallback(x) ==
    IF x.state = "open" THEN [x EXCEPT !.state = "closed", !.in = <<>>] ELSE x
\* Close also calls onClose, a step of its own (RemoveSession).
SessionClose(x) ==
    IF x.state = "open" THEN [closeWithoutCallback(x) EXCEPT !.removing = TRUE] ELSE x

FreeSessions == {s \in Sessions : s <= World.sessions /\ sess[s].state = "unused"}
NextSession == CHOOSE s \in FreeSessions : TRUE
HasRoom_OneMore(t) == ~listener.closed /\ Size(t) <= World.max /\ FreeSessions # {}
HasRoom(t) == ~listener.closed /\ Size(t) < World.max /\ FreeSessions # {}

RemoveSession(s) ==
    /\ sess[s].removing
    /\ table' = removeSession(table, s)
    /\ sess' = [sess EXCEPT ![s].removing = FALSE]
    /\ UNCHANGED <<listener, reader, acceptor, conn>>

(***************************************************************************)
(* The read loop.                                                          *)
(***************************************************************************)
Idle == [targets |-> <<>>, from |-> NoAddress, pushed |-> Nil, arrived |-> 0]
Remaining(from, targets, arrived) ==
    [targets |-> targets, from |-> IF targets = <<>> THEN NoAddress ELSE from,
     pushed |-> Nil, arrived |-> arrived]
Routed(from, targets) == Remaining(from, targets, reader.arrived + 1)

NonNil(ss) == SelectSeq(ss, LAMBDA s : s # Nil)

RouteCID(from, bytes) ==
    LET owner == sessionForCID(table, bytes)
        byTuple == SelectSeq(<<table.sessions[from], table.pending[from]>>,
                             acceptsEmptyConnectionID)
    IN  /\ reader' = Routed(from, IF owner # Nil THEN <<owner>> ELSE byTuple)
        /\ UNCHANGED <<table, sess, listener, acceptor, conn>>

\* A new session goes to the accept channel or, when that is full, nowhere.
Offered == Len(listener.accept) < World.max
RouteExisting(from) ==
    /\ reader' = Routed(from, NonNil(<<table.sessions[from], table.pending[from]>>))
    /\ UNCHANGED <<table, sess, listener, acceptor, conn>>
NewSession(from, where) ==
    LET s == NextSession
        t == [table EXCEPT ![where][from] = s]
    IN  /\ HasRoom(table)
        /\ IF Offered
           THEN /\ table' = t
                /\ sess' = [sess EXCEPT ![s] = newPacketSession(from)]
                /\ listener' = [listener EXCEPT !.accept = Append(@, s)]
                /\ reader' = Routed(from, NonNil(<<t.sessions[from], t.pending[from]>>))
           ELSE /\ sess' = [sess EXCEPT ![s] = closeWithoutCallback(newPacketSession(from))]
                /\ reader' = Routed(from, NonNil(<<table.sessions[from]>>))
                /\ UNCHANGED <<table, listener>>
        /\ UNCHANGED <<acceptor, conn>>

Unclaimed(from) == table.sessions[from] = Nil /\ table.pending[from] = Nil
MayReplace(from) ==
    /\ table.sessions[from] # Nil
    /\ table.pending[from] = Nil
    /\ sess[table.sessions[from]].validated

RouteInitial_Replaces(from) ==
    IF HasRoom(table) THEN NewSession(from, "sessions") ELSE RouteExisting(from)
RouteInitial(from) ==
    IF HasRoom(table) /\ Unclaimed(from) THEN NewSession(from, "sessions")
    ELSE IF HasRoom(table) /\ MayReplace(from) THEN NewSession(from, "pending")
    ELSE RouteExisting(from)

readLoop(from) ==
    /\ reader.targets = <<>> /\ reader.pushed = Nil /\ reader.arrived < World.arrivals
    /\ \/ \E bytes \in World.cids : RouteCID(from, bytes)
       \/ RouteInitial(from)
       \/ RouteExisting(from)

\* enqueue: a send to the channel, then a look at the closed flag.
Push ==
    /\ reader.targets # <<>> /\ reader.pushed = Nil
    /\ LET s == Head(reader.targets)
           sent == Len(sess[s].in) < QueueSize
       IN  \/ /\ sent
              /\ sess' = [sess EXCEPT ![s].in = Append(@, reader.from)]
              /\ reader' = [reader EXCEPT !.pushed = s, !.targets = Tail(@)]
           \/ /\ ~sent \/ sess[s].state = "closed"
              /\ reader' = Remaining(reader.from, Tail(reader.targets), reader.arrived)
              /\ UNCHANGED sess
    /\ UNCHANGED <<table, listener, acceptor, conn>>
Pushed_Unchecked(s) == sess[s].in
Pushed(s) == IF sess[s].state = "closed" THEN <<>> ELSE sess[s].in
AfterPush ==
    /\ reader.pushed # Nil
    /\ sess' = [sess EXCEPT ![reader.pushed].in = Pushed(reader.pushed)]
    /\ reader' = Remaining(reader.from, reader.targets, reader.arrived)
    /\ UNCHANGED <<table, listener, acceptor, conn>>

\* The failures and calls of Close so far.
Endings == Cardinality({s \in Sessions : conn[s].failer # "no"})
          + Cardinality({s \in Sessions : conn[s].closer # "no"})
          + (IF listener.closed THEN 1 ELSE 0)

(***************************************************************************)
(* Close of the Listener, or the error that ends the read loop.            *)
(***************************************************************************)
InTables_ActiveOnly(t) == {t.sessions[a] : a \in Addresses} \ {Nil}
InTables(t) == ({t.sessions[a] : a \in Addresses}
                  \cup {t.pending[a] : a \in Addresses}) \ {Nil}
EmptyTable ==
    [sessions |-> [a \in Addresses |-> Nil], pending |-> [a \in Addresses |-> Nil],
     cids |-> [c \in CIDs |-> Nil]]

shutdown ==
    /\ ~listener.closed /\ Endings < World.ends
    /\ listener' = [listener EXCEPT !.closed = TRUE, !.closing = InTables(table)]
    /\ table' = EmptyTable
    /\ UNCHANGED <<sess, reader, acceptor, conn>>
ShutdownCloses(s) ==
    /\ s \in listener.closing
    /\ listener' = [listener EXCEPT !.closing = @ \ {s}]
    /\ sess' = [sess EXCEPT ![s] = closeWithoutCallback(@)]
    /\ UNCHANGED <<table, reader, acceptor, conn>>

(***************************************************************************)
(* Accept.                                                                 *)
(***************************************************************************)
\* A closed Listener is seen before the wait, during it, or after it.
AcceptTakes ==
    /\ acceptor = Nil /\ listener.accept # <<>>
    /\ LET s == Head(listener.accept)
       IN  IF listener.closed
           THEN sess' = [sess EXCEPT ![s] = SessionClose(@)] /\ UNCHANGED acceptor
           ELSE acceptor' = s /\ UNCHANGED sess
    /\ listener' = [listener EXCEPT !.accept = Tail(@)]
    /\ UNCHANGED <<table, reader, conn>>

\* GetConnectionID fails, returns no ID, an empty one or one to register; the
\* session gets its ID before the table is checked.
NewConn == [hs |-> "new", err |-> FALSE, closed |-> FALSE, cancelled |-> FALSE,
            handshaking |-> FALSE, secrets |-> FALSE, old |-> Nil,
            reading |-> "no", from |-> NoAddress, failer |-> "no", closer |-> "no"]
Accepted(s, cid) ==
    /\ sess' = [sess EXCEPT ![s].cid = cid, ![s].late = @ \/ sess[s].state = "closed"]
    /\ conn' = [conn EXCEPT ![s] = NewConn]
    /\ UNCHANGED <<listener, reader>>
Refused(s, cid) ==
    /\ sess' = [sess EXCEPT ![s] = SessionClose([@ EXCEPT !.cid = cid])]
    /\ UNCHANGED <<table, listener, reader, conn>>
AcceptIdentifies ==
    LET s == acceptor IN
    /\ s # Nil
    /\ acceptor' = Nil
    /\ \/ Refused(s, <<>>)
       \/ \E cid \in World.generated \cap {<<>>, << <<>> >>} :
             Accepted(s, cid) /\ UNCHANGED table
       \/ \E c \in {d \in CIDs : <<d>> \in World.generated} :
             IF canRegister(table, s, c)
             THEN Accepted(s, <<c>>) /\ table' = addCIDs(table, s, {c})
             ELSE Refused(s, <<c>>)

(***************************************************************************)
(* The handshake goroutine of a connection.                                *)
(***************************************************************************)
StartHandshake(s) ==
    /\ conn[s].hs = "new"
    /\ conn' = [conn EXCEPT ![s] =
          IF @.closed THEN [@ EXCEPT !.hs = "done", !.err = TRUE, !.cancelled = TRUE]
          ELSE [@ EXCEPT !.hs = "running", !.handshaking = TRUE]]
    /\ UNCHANGED <<table, sess, listener, reader, acceptor>>

HandshakeReads(s) ==
    /\ conn[s].hs \in {"running", "installed", "validated"} /\ sess[s].in # <<>>
    /\ sess' = [sess EXCEPT ![s].in = Tail(@)]
    /\ UNCHANGED <<table, listener, reader, acceptor, conn>>
\* serverFinalize, up to the call of handshakeValidated.
InstallKeys(s) ==
    /\ conn[s].hs = "running"
    /\ conn' = [conn EXCEPT ![s].hs = "installed", ![s].secrets = TRUE]
    /\ UNCHANGED <<table, sess, listener, reader, acceptor>>
connectionValidated(s) ==
    LET a == sess[s].remote
        promoted == table.pending[a] = s
    IN  /\ conn[s].hs = "installed"
        /\ sess' = [sess EXCEPT ![s].validated = TRUE]
        /\ table' = IF promoted
                    THEN [table EXCEPT !.sessions[a] = s, !.pending[a] = Nil]
                    ELSE table
        /\ conn' = [conn EXCEPT ![s].hs = "validated",
                                ![s].old = IF promoted THEN table.sessions[a] ELSE Nil]
        /\ UNCHANGED <<listener, reader, acceptor>>
CloseOld(s) ==
    LET old == conn[s].old IN
    /\ old # Nil
    /\ sess' = [sess EXCEPT ![old] = SessionClose(@)]
    /\ conn' = [conn EXCEPT ![s].old = Nil]
    /\ UNCHANGED <<table, listener, reader, acceptor>>

\* runHandshake returns, with success only after the steps above; what Close
\* and failConnection did meanwhile also fails the handshake.
HandshakeError_OfRunOnly(c, failed) == failed
HandshakeError(c, failed) == failed \/ c.closed \/ c.cancelled
Completed(c, err) ==
    [c EXCEPT !.hs = "done", !.handshaking = FALSE, !.err = err,
              !.cancelled = c.cancelled \/ err, !.secrets = c.secrets /\ ~err]
completeHandshake(s) ==
    /\ conn[s].hs \in {"running", "installed", "validated"} /\ conn[s].old = Nil
    /\ \E failed \in BOOLEAN :
          /\ conn[s].hs # "validated" => failed
          /\ conn' = [conn EXCEPT ![s] = Completed(conn[s], HandshakeError(conn[s], failed))]
    /\ UNCHANGED <<table, sess, listener, reader, acceptor>>

(***************************************************************************)
(* The record reader.                                                      *)
(***************************************************************************)
\* ReadDatagram of an early connection may start the reader after the handshake
\* has failed: it looks at the connection's end state before.
startRecordReader(s) ==
    /\ conn[s].hs = "done" /\ conn[s].reading = "no" /\ ~conn[s].closed
    /\ conn' = [conn EXCEPT ![s].reading = "waiting"]
    /\ UNCHANGED <<table, sess, listener, reader, acceptor>>
ReadRecord(s) ==
    /\ conn[s].reading = "waiting" /\ sess[s].in # <<>>
    /\ sess' = [sess EXCEPT ![s].in = Tail(@)]
    /\ conn' = [conn EXCEPT ![s].reading = "dispatching", ![s].from = Head(sess[s].in)]
    /\ UNCHANGED <<table, listener, reader, acceptor>>

\* finishRecordReader after a deadline, or after the session is closed.
finishRecordReader(s) ==
    /\ conn[s].reading = "waiting"
    /\ \E timeout \in BOOLEAN :
          /\ timeout \/ sess[s].state = "closed"
          /\ conn' = [conn EXCEPT ![s].reading = "no",
                                  ![s].cancelled = @ \/ (~timeout /\ ~conn[s].closed)]
    /\ UNCHANGED <<table, sess, listener, reader, acceptor>>

Dispatched(s) == [conn EXCEPT ![s].reading = "waiting", ![s].from = NoAddress]
Dispatch(s) ==
    /\ conn[s].reading = "dispatching"
    /\ conn' = Dispatched(s)
    /\ UNCHANGED <<table, sess, listener, reader, acceptor>>

\* A path_response of the new path: rebindSession does not look at the state
\* of the session.
rebindSession(s, new) ==
    LET displaced == Displaced(table, s, new) IN
    /\ table' = rebindTable(table, s, sess[s].remote, new)
    /\ sess' = [x \in Sessions |->
          IF x = s THEN [sess[s] EXCEPT !.remote = new, !.late = @ \/ sess[s].state = "closed"]
          ELSE IF x = displaced THEN closeWithoutCallback(sess[x]) ELSE sess[x]]
DispatchRebinds(s) ==
    /\ conn[s].reading = "dispatching" /\ conn[s].secrets
    /\ conn[s].from # sess[s].remote
    /\ rebindSession(s, conn[s].from)
    /\ conn' = Dispatched(s)
    /\ UNCHANGED <<listener, reader, acceptor>>

(***************************************************************************)
(* failConnection, called by the reader or by a timer, and Close.          *)
(***************************************************************************)
\* The goroutine of the reader ends without clearing readerRunning.
DispatchFails(s) ==
    /\ conn[s].reading = "dispatching" /\ conn[s].failer = "no" /\ Endings < World.ends
    /\ conn' = [conn EXCEPT ![s].reading = "stopped", ![s].failer = "cancelled",
                            ![s].cancelled = TRUE]
    /\ UNCHANGED <<table, sess, listener, reader, acceptor>>
TimerFails(s) ==
    /\ conn[s].secrets /\ conn[s].hs \in {"validated", "done"}
    /\ conn[s].failer = "no" /\ Endings < World.ends
    /\ conn' = [conn EXCEPT ![s].failer = "cancelled", ![s].cancelled = TRUE]
    /\ UNCHANGED <<table, sess, listener, reader, acceptor>>
\* clearTrafficSecrets takes dispatchMu.
FailClears(s) ==
    /\ conn[s].failer = "cancelled"
    /\ conn[s].handshaking \/ conn[s].reading # "dispatching"
    /\ conn' = [conn EXCEPT ![s].failer = "cleared", ![s].secrets = @ /\ conn[s].handshaking]
    /\ UNCHANGED <<table, sess, listener, reader, acceptor>>
FailCloses(s) ==
    /\ conn[s].failer = "cleared"
    /\ sess' = [sess EXCEPT ![s] = SessionClose(@)]
    /\ conn' = [conn EXCEPT ![s].failer = "returned"]
    /\ UNCHANGED <<table, listener, reader, acceptor>>

Close(s) ==
    /\ conn[s].hs # "none" /\ ~conn[s].closed /\ Endings < World.ends
    /\ conn' = [conn EXCEPT ![s].closed = TRUE, ![s].cancelled = TRUE,
                            ![s].closer = IF conn[s].handshaking THEN "cleared" ELSE "alerted"]
    /\ UNCHANGED <<table, sess, listener, reader, acceptor>>
CloseClears(s) ==
    /\ conn[s].closer = "alerted" /\ conn[s].reading # "dispatching"
    /\ conn' = [conn EXCEPT ![s].closer = "cleared", ![s].secrets = FALSE]
    /\ UNCHANGED <<table, sess, listener, reader, acceptor>>
CloseTransport(s) ==
    /\ conn[s].closer = "cleared"
    /\ sess' = [sess EXCEPT ![s] = SessionClose(@)]
    /\ conn' = [conn EXCEPT ![s].closer = "returned"]
    /\ UNCHANGED <<table, listener, reader, acceptor>>

(***************************************************************************)
(* The specification.                                                      *)
(***************************************************************************)
NoConn == [NewConn EXCEPT !.hs = "none"]

\* A Listener without associations, or with one it accepted from a that has
\* completed its handshake.
Established(a, w) ==
    /\ table = addCIDs([EmptyTable EXCEPT !.sessions[a] = 1], 1, Range(w.cid))
    /\ sess = [s \in Sessions |->
                  IF s = 1 THEN [newPacketSession(a) EXCEPT !.validated = TRUE, !.cid = w.cid]
                  ELSE NoSession]
    /\ conn = [s \in Sessions |->
                  IF s = 1 THEN [NewConn EXCEPT !.hs = "done", !.secrets = TRUE, !.reading = "waiting"]
                  ELSE NoConn]
Unused ==
    /\ table = EmptyTable
    /\ sess = [s \in Sessions |-> NoSession]
    /\ conn = [s \in Sessions |-> NoConn]
ListenerInit ==
    /\ \E i \in DOMAIN Worlds :
          /\ listener = [closed |-> FALSE, accept |-> <<>>, closing |-> {}, world |-> i]
          /\ IF Worlds[i].established THEN Established(Worlds[i].address, Worlds[i]) ELSE Unused
    /\ reader = Idle
    /\ acceptor = Nil

AcceptStep ==
    \/ AcceptTakes
    \/ AcceptIdentifies
HandshakeStep(s) ==
    \/ StartHandshake(s)
    \/ HandshakeReads(s)
    \/ InstallKeys(s)
    \/ connectionValidated(s)
    \/ CloseOld(s)
    \/ completeHandshake(s)
ReaderStep(s) ==
    \/ startRecordReader(s)
    \/ ReadRecord(s)
    \/ Dispatch(s)
    \/ DispatchRebinds(s)
    \/ DispatchFails(s)
    \/ finishRecordReader(s)
EndStep(s) ==
    \/ TimerFails(s)
    \/ FailClears(s)
    \/ FailCloses(s)
    \/ CloseClears(s)
    \/ CloseTransport(s)
    \/ RemoveSession(s)
ListenerNext ==
    \/ \E a \in Addresses : readLoop(a)
    \/ Push
    \/ AfterPush
    \/ AcceptStep
    \/ shutdown
    \/ \E s \in Sessions :
          \/ ShutdownCloses(s)
          \/ HandshakeStep(s)
          \/ ReaderStep(s)
          \/ EndStep(s)
          \/ Close(s)
ListenerSpec == ListenerInit /\ [][ListenerNext]_listenerVars

(***************************************************************************)
(* Properties.                                                             *)
(***************************************************************************)
Entries(t) == InTables(t) \cup ({t.cids[c] : c \in CIDs} \ {Nil})

\* Sessions that the one which took their place is about to close.
Replaced == {conn[x].old : x \in Sessions}

\* The tables, queues and states have their types, the queues and the accept
\* channel stay within their capacity, and MaxPendingConnections bounds the
\* open associations, whether or not Accept has returned them.
ListenerTypeOK ==
    /\ table \in [sessions : [Addresses -> SessionOrNil], pending : [Addresses -> SessionOrNil],
                  cids : [CIDs -> SessionOrNil]]
    /\ \A s \in Sessions :
          /\ sess[s].state \in {"unused", "open", "closed"}
          /\ sess[s].remote \in Addresses \cup {NoAddress}
          /\ Len(sess[s].in) <= QueueSize
    /\ Len(listener.accept) <= World.max
    /\ Cardinality({s \in Sessions : sess[s].state = "open"} \ Replaced) <= World.max

\* The registered connection IDs are prefix-free, so a datagram that starts
\* with one of them has one owner whatever order the lookup tries them in.
PrefixFree ==
    \A c, d \in Registered(table) : PrefixRelated(c, d) => c = d

\* Accept promises that closing a Conn removes its association from the
\* Listener: while it is open, the tables name only open sessions and sessions
\* about to be removed.  The two exceptions of the code: a rebind after the
\* close, and an ID registered by Accept for a session displaced before that.
RoutesAreLive ==
    ~listener.closed =>
        \A s \in Entries(table) :
            sess[s].state = "open" \/ sess[s].removing \/ sess[s].late

\* A connection that failed or was closed keeps no traffic secrets once the
\* calls that end it have returned, whichever of the handshake, failConnection
\* and Close came first.
SecretsCleared ==
    \A s \in Sessions :
        LET c == conn[s]
        IN  /\ c.hs \in {"none", "new", "done"}
            /\ c.closer = "returned" \/ c.failer = "returned" \/ (c.hs = "done" /\ c.err)
            => ~c.secrets

\* A closed session holds no datagram: the buffers of its queue went back to
\* the pool, unless the read loop is between its send and its look at closed.
QueuesReleased ==
    \A s \in Sessions :
        sess[s].state = "closed" /\ reader.pushed # s => sess[s].in = <<>>

\* Close of the Listener closes every association it has, one that Accept holds
\* or has still to take included: what is open is about to be closed, by Close
\* or by the session that replaced it.
ShutdownClosesAll ==
    listener.closed =>
        \A s \in Sessions :
            sess[s].state = "open" =>
                s \in listener.closing \cup Replaced

\* An open association leaves its address only by its own Close or move, by
\* one that proved its handshake or its path there, or by shutdown: a
\* ClientHello alone never replaces it.
ReplacedByValidated ==
    [][\A a \in Addresses :
          LET s == table.sessions[a]
              new == table'.sessions[a]
          IN  s # Nil /\ sess[s].state = "open" /\ new # s =>
                \/ new = Nil /\ (sess'[s].remote # a \/ sess'[s].state = "closed" \/ listener'.closed)
                \/ new # Nil /\ sess'[new].validated]_listenerVars
=============================================================================
