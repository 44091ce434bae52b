---------------------------- MODULE PostHandshake ----------------------------
(***************************************************************************)
(* What an established association does after its handshake: session       *)
(* tickets, post-handshake client authentication, connection IDs, the      *)
(* return routability check of a new path, key updates and the order of    *)
(* application data among them (conn_dispatch.go, post_handshake_auth.go,  *)
(* connection_id.go, return_routability.go, session.go, conn.go).          *)
(*                                                                         *)
(* The server end is the Conn of session 1 of the Listener: its records    *)
(* come through the Listener's tables, its IDs are registered there and a  *)
(* new path rebinds it there, beside the other sessions of the Listener.   *)
(* A record of the client is routed, queued and dispatched in one step; it *)
(* is the network that delays, reorders and loses records.                 *)
(*                                                                         *)
(* A record number is the sending epoch (0 and 1 are the code's 3 and 4)   *)
(* times Span plus the sequence number in that epoch.                      *)
(***************************************************************************)
EXTENDS Listener, SequencesExt

CONSTANTS
    MaxConnectionIDs,
    MaxBuffered,         \* MaxBufferedApplicationDatagrams
    MaxPending,          \* maxPendingOrderingRecords
    Span                 \* more than the records of an epoch

VARIABLES
    end,    \* end[e]: the Conn of each end
    net,    \* the records in the network
    todo    \* what the applications and the network may still do

pairVars == <<end, net, todo>>
vars == <<listenerVars, pairVars>>

Ends == {"client", "server"}
Peer(e) == IF e = "client" THEN "server" ELSE "client"
Kinds == {"ticket", "request", "response", "newCID", "requestCID"}
EpochOf(num) == num \div Span

\* The contents of records.
Content(typ, message, n) ==
    [typ |-> typ, message |-> message, n |-> n, seq |-> 0, part |-> 1, parts |-> 1, ids |-> <<>>]
Message(name, n, ids) ==
    [Content("handshake", name, n) EXCEPT
        !.ids = ids, !.parts = IF name \in World.long THEN 2 ELSE 1]

(***************************************************************************)
(* Sending.  A handler computes the new state of its end, and collects in  *)
(* out the records it writes and in rebind the address it moves to.        *)
(***************************************************************************)
EmitTo(x, epoch, content, address, cid) ==
    [x EXCEPT !.next[epoch + 1] = @ + 1,
              !.out = Append(@, [num |-> epoch * Span + x.next[epoch + 1], content |-> content,
                                 address |-> address, cid |-> cid])]
Emit(x, epoch, content) == EmitTo(x, epoch, content, <<>>, x.active)
ack(x, num) == Emit(x, x.epoch, Content("ack", "", num))
Fatal(x, why) == [Emit(x, x.epoch, Content("alert", "fatal", 0)) EXCEPT !.failed = why]

\* retransmitFlight and writeFlight: record i of a flight gets one more number;
\* it is sealed with the cipher of the flight, whatever the current one is.
SealEpoch_Current(x, f) == x.epoch
SealEpoch(x, f) == f.epoch
Transmit(x, kind, i) ==
    LET f == x.flights[kind][1]
        epoch == SealEpoch(x, f)
    IN  [Emit(x, epoch, f.records[i]) EXCEPT
            !.flights[kind][1].numbers[i] = @ \cup {epoch * Span + x.next[epoch + 1]}]
Unacked(f) == {i \in DOMAIN f.records : i \notin f.acked}
TransmitAll(x, kind, is) ==
    FoldLeft(LAMBDA y, i : IF i \in is THEN Transmit(y, kind, i) ELSE y, x,
             [i \in DOMAIN x.flights[kind][1].records |-> i])
Retransmit(x, kind) ==
    LET sent == TransmitAll(x, kind, Unacked(x.flights[kind][1]))
    IN  [sent EXCEPT !.flights[kind][1].retransmitted = TRUE, !.resent = TRUE]

\* buildProtectedFlight, writeFlight and commitMessageSequences.
Fragments(m) == [p \in 1 .. m.parts |-> [m EXCEPT !.part = p]]
StartFlight(x, kind, messages) ==
    LET numbered == [i \in DOMAIN messages |-> [messages[i] EXCEPT !.seq = x.mseq + i - 1]]
        records == FlattenSeq([i \in DOMAIN numbered |-> Fragments(numbered[i])])
        f == [records |-> records, numbers |-> [i \in DOMAIN records |-> {}], acked |-> {},
              epoch |-> x.epoch, retransmitted |-> FALSE]
    IN  TransmitAll([x EXCEPT !.flights[kind] = <<f>>, !.mseq = @ + Len(messages)],
                    kind, DOMAIN records)

\* ackPostHandshakeFlightLocked and processCIDACKsLocked: any ACK makes an
\* incomplete flight that was not retransmitted yet go out again.
AckFlight_FirstCompletes(x, kind, num) ==
    IF \E f \in Range(x.flights[kind]) : \E i \in DOMAIN f.records : num \in f.numbers[i]
    THEN [x EXCEPT !.flights[kind] = <<>>] ELSE x
AckFlight(x, kind, num) ==
    IF x.flights[kind] = <<>> THEN x
    ELSE LET f == x.flights[kind][1]
             acked == f.acked \cup {i \in DOMAIN f.records : num \in f.numbers[i]}
             y == [x EXCEPT !.flights[kind][1].acked = acked]
         IN  IF acked = DOMAIN f.records THEN [x EXCEPT !.flights[kind] = <<>>]
             ELSE IF f.retransmitted THEN y
             ELSE Retransmit(y, kind)

\* dispatchACK and applyACK, for an ACK of num in a record of epoch.
dispatchACK(x, num, epoch) ==
    LET y == IF num \in x.update THEN [x EXCEPT !.epoch = @ + 1, !.update = {}] ELSE x
    IN  IF EpochOf(num) > epoch THEN Fatal(x, "ack epoch")
        ELSE FoldLeft(LAMBDA z, kind : AckFlight(z, kind, num), y,
                      <<"ticket", "request", "response", "newCID", "requestCID">>)

(***************************************************************************)
(* Application data, and its order among the protected messages.           *)
(***************************************************************************)
Between(first, num, last) == first < num /\ num < last

\* queueApplicationDatagramBacking, for each of nums; World.maxData is
\* MaxBufferedApplicationData, in datagrams.
Queue(x, nums) ==
    IF Len(x.unread) + Len(nums) > Min({MaxBuffered, World.maxData}) THEN Fatal(x, "limit")
    ELSE [x EXCEPT !.unread = @ \o nums]
HoldsNoMore(waiting) == Len(waiting) >= Min({MaxPending, World.maxData})

\* bufferPostHandshakeAuthApplicationLocked
AuthHolds(x, num) ==
    /\ x.auth # <<>>
    /\ x.auth[1].records # {}
    /\ EpochOf(num) = EpochOf(Min(x.auth[1].records))

dispatchApplicationData(x, num) ==
    LET y == [x EXCEPT !.recent = @ \cup {num}]
    IN  IF \E range \in x.ranges : Between(range[1], num, range[2])
        THEN Fatal(x, "interleaved")
        ELSE IF x.partial # {}
        THEN IF HoldsNoMore(x.waiting) THEN Fatal(x, "limit")
             ELSE [y EXCEPT !.waiting = Append(@, num)]
        ELSE IF AuthHolds(x, num)
        THEN IF HoldsNoMore(x.auth[1].waiting) THEN Fatal(x, "limit")
             ELSE [y EXCEPT !.auth[1].waiting = Append(@, num)]
        ELSE Queue(y, <<num>>)

RememberRange(x, first, last) ==
    IF \E num \in x.recent : Between(first, num, last) THEN Fatal(x, "interleaved")
    ELSE [x EXCEPT !.ranges = @ \cup {<<first, last>>}]
rememberProtectedHandshakeRange(x, first, last) ==
    LET y == RememberRange(x, first, last)
    IN  IF y.failed # "" \/ y.partial # {} THEN y
        ELSE Queue([y EXCEPT !.waiting = <<>>], y.waiting)

\* reassembleProtectedHandshake: a message of one record is complete at once;
\* the reassembler keeps nothing of the messages it completed.
Complete(x, m, first, last) ==
    LET y == rememberProtectedHandshakeRange(x, first, last)
    IN  [y EXCEPT !.completed = IF y.failed = "" THEN @ \cup {m.seq} ELSE @]
reassemble(x, m, num) ==
    LET old == {p \in x.partial : p.seq = m.seq}
        records == {num} \cup UNION {p.records : p \in old}
        parts == {m.part} \cup UNION {p.parts : p \in old}
        rest == [x EXCEPT !.partial = @ \ old]
    IN  IF \E p \in old : \E other \in p.records : EpochOf(other) # EpochOf(num)
        THEN Fatal(x, "key change")
        ELSE IF parts = 1 .. m.parts THEN Complete(rest, m, Min(records), Max(records))
        ELSE [rest EXCEPT !.partial = @ \cup {[seq |-> m.seq, parts |-> parts, records |-> records]}]
Completes(x, y, m) == y.failed = "" /\ {p \in y.partial : p.seq = m.seq} = {}

(***************************************************************************)
(* Session tickets.                                                        *)
(***************************************************************************)
\* Without ticket_request a ticket replaces what the cache has and a repeated
\* message is stored again; with it a ticket is added once, and only as many
\* as were requested.
StoresTicket_Always(x, m) == TRUE
StoresTicket(x, m) ==
    World.ticketRequest # <<>> =>
        m.seq \notin x.processed /\ Cardinality(x.processed) < World.ticketRequest[1]
Put(x, ticket) == [x EXCEPT !.cache = <<ticket>>]
putTicket(x, ticket) == [x EXCEPT !.cache = Append(@, ticket)]
processNewSessionTicket(x, m) ==
    IF ~StoresTicket(x, m) THEN x
    ELSE IF World.ticketRequest # <<>>
         THEN [putTicket(x, m.seq) EXCEPT !.processed = @ \cup {m.seq}]
         ELSE Put(x, m.seq)

(***************************************************************************)
(* Post-handshake authentication.  A context stands for the request and    *)
(* for the transcript up to it.                                            *)
(***************************************************************************)
Answer(context) ==
    IF World.certificate
    THEN <<Message("certificate", context, <<>>), Message("verify", context, <<>>),
           Message("finished", context, <<>>)>>
    ELSE <<Message("empty", context, <<>>), Message("finished", context, <<>>)>>
processPostHandshakeCertificateRequest_Forgets(x, m) ==
    IF m.seq <= x.lastAuthRequest THEN x
    ELSE [StartFlight(x, "response", Answer(m.n)) EXCEPT
             !.lastAuthRequest = m.seq, !.flights["response"] = <<>>]
processPostHandshakeCertificateRequest(x, m) ==
    IF m.seq <= x.lastAuthRequest THEN x
    ELSE IF x.flights["response"] # <<>> THEN Fatal(x, "overlapping")
    ELSE [StartFlight(x, "response", Answer(m.n)) EXCEPT !.lastAuthRequest = m.seq]

\* processPostHandshakeAuthMessageLocked and finishPostHandshakeAuthLocked.
AuthMessage(x, m) ==
    LET a == x.auth[1]
        y == RememberRange(x, Min(a.records), Max(a.records))
    IN  IF x.failed # "" \/ x.auth = <<>> THEN x
        ELSE IF m.n # a.context THEN Fatal([x EXCEPT !.auth = <<>>], "context")
        ELSE IF m.message # "finished" THEN [x EXCEPT !.auth[1].expected = m.seq + 1]
        ELSE IF World.required /\ \A k \in a.inbox : k.message # "certificate"
        THEN Fatal([x EXCEPT !.auth = <<>>], "incomplete")
        ELSE IF y.failed # "" THEN y
        ELSE IF \E num \in Range(a.waiting) : Between(Min(a.records), num, Max(a.records))
        THEN Fatal(x, "interleaved")
        ELSE Queue([y EXCEPT !.auth = <<>>, !.flights["request"] = <<>>,
                             !.answered = a.start .. m.seq, !.identities = @ \cup {m.n}],
                   a.waiting)

\* processPostHandshakeAuthFragment: the inbox gives out the messages in order.
InOrder(inbox, expected) ==
    {m \in inbox : m.seq >= expected
                   /\ \A s \in expected .. m.seq : \E k \in inbox : k.seq = s}
processPostHandshakeAuthFragment(x, m, num) ==
    IF x.auth = <<>>
    THEN IF m.seq \in x.answered THEN ack(x, num) ELSE Fatal(x, "unexpected")
    ELSE LET a == x.auth[1]
             starts == a.start = -1 /\ m.message \in {"certificate", "empty"}
             inbox == a.inbox \cup (IF m.seq >= a.expected THEN {m} ELSE {})
             b == [a EXCEPT !.start = IF starts THEN m.seq ELSE @,
                            !.expected = IF starts THEN m.seq ELSE @,
                            !.records = @ \cup {num},
                            !.inbox = inbox]
             ready == SetToSortSeq(InOrder(b.inbox, b.expected),
                                   LAMBDA k, l : k.seq < l.seq)
         IN  IF a.records # {} /\ EpochOf(num) # EpochOf(Min(a.records))
             THEN Fatal(x, "key change")
             ELSE FoldLeft(AuthMessage, ack([x EXCEPT !.auth = <<b>>], num), ready)

(***************************************************************************)
(* Connection IDs.                                                         *)
(***************************************************************************)
\* mergeConnectionIDs fails unless the IDs stay prefix-free.
Mergeable(existing, ids) ==
    \A c \in Range(ids) : \A d \in existing \cup Range(ids) : PrefixRelated(c, d) => c = d
Activate(x, cid) == [x EXCEPT !.active = cid]
AddSpare(x, cid) ==
    IF cid = x.active \/ cid \in Range(x.spares) \/ 1 + Len(x.spares) >= MaxConnectionIDs
    THEN x ELSE [x EXCEPT !.spares = Append(@, cid)]
processNewConnectionID(x, m) ==
    LET known == FoldLeft(AddSpare, [x EXCEPT !.lastNewCID = m.seq, !.requestOpen = FALSE], m.ids)
        first == m.ids[1]
    IN  IF m.seq <= x.lastNewCID THEN x
        ELSE IF ~Mergeable({x.active} \cup Range(x.spares), m.ids) THEN Fatal(x, "illegal IDs")
        ELSE IF m.n = 0 THEN known    \* spare
        ELSE Activate([known EXCEPT !.spares = SelectSeq(@, LAMBDA c : c # first)], first)
processRequestConnectionID(x, m) ==
    IF m.seq <= x.lastRequestCID THEN x
    ELSE [x EXCEPT !.lastRequestCID = m.seq, !.responding = Append(@, m.n)]

(***************************************************************************)
(* The return routability check of the server.  A record counts 1 to the   *)
(* budget of an unproved address, a challenge world.challenge.             *)
(***************************************************************************)
IdleCheck(generation) ==
    [phase |-> "idle", generation |-> generation, timer |-> 0, new |-> NoAddress,
     cookie |-> 0, probe |-> <<>>, received |-> 0, sent |-> 0]
clearReturnRoutability(x) == [x EXCEPT !.path = IdleCheck(@.generation + 1)]
ArmTimer(x) ==
    [x EXCEPT !.path.generation = @ + 1, !.path.timer = x.path.generation + 1]

Remote == sess[1].remote
\* A fresh cookie: one more than any before.
Challenge(x, phase) ==
    [x EXCEPT !.path.phase = phase, !.path.cookie = x.cookies + 1, !.cookies = @ + 1]
allowSend(x) == x.path.sent + World.challenge <= 3 * x.path.received
observeReturnRoutabilityRecord(x, from) ==
    IF from = Remote THEN x
    ELSE IF x.path.phase # "idle"
    THEN IF from = x.path.new THEN [x EXCEPT !.path.received = @ + 1] ELSE x
    ELSE LET y == Challenge([x EXCEPT !.path.new = from, !.path.received = 1], "old")
         IN  ArmTimer(Emit(y, y.epoch, Content("path", "challenge", y.path.cookie)))
startBasicReturnRoutability(x) ==
    LET y == Challenge([x EXCEPT !.path.probe = IF x.spares = <<>> THEN @ ELSE x.spares[1]], "new")
        cid == IF x.spares = <<>> THEN x.active ELSE x.spares[1]
        z == [y EXCEPT !.path.sent = @ + World.challenge]
    IN  ArmTimer(IF ~allowSend(x) THEN y
                 ELSE EmitTo(z, z.epoch, Content("path", "challenge", z.path.cookie),
                             <<x.path.new>>, cid))

\* rebindValidatedPathLocked: the ID of the probe, or the first spare.
rebindValidatedPath(x, address, probe) ==
    LET moved == [x EXCEPT !.rebind = <<address>>]
        use == IF probe # <<>> THEN Range(x.spares) \cap ({probe} \ {x.active})
               ELSE IF x.spares = <<>> THEN {} ELSE {x.spares[1]}
    IN  IF use = {} THEN moved
        ELSE LET cid == CHOOSE c \in use : TRUE
             IN  Activate([moved EXCEPT !.spares = SelectSeq(@, LAMBDA c : c # cid)], cid)

Expected_AnyResponse(x, c, from) == x.path.phase # "idle"
Expected(x, c, from) ==
    /\ c.n = x.path.cookie
    /\ \/ x.path.phase = "old" /\ from = Remote
       \/ x.path.phase = "new" /\ from = x.path.new
handleReturnRoutability(x, e, c, from) ==
    IF c.message = "challenge"
    THEN EmitTo(x, x.epoch,
                Content("path", IF e = "client" \/ from = Remote THEN "response" ELSE "drop", c.n),
                <<from>>, x.active)
    ELSE IF ~Expected(x, c, from) THEN x
    ELSE IF x.path.phase = "new"
    THEN IF c.message = "drop" THEN x
         ELSE rebindValidatedPath(clearReturnRoutability(x), x.path.new, x.path.probe)
    ELSE IF c.message = "response" THEN clearReturnRoutability(x)
    ELSE startBasicReturnRoutability(x)
returnRoutabilityTimerExpired(x, generation) ==
    IF x.path.generation # generation \/ x.path.phase = "idle" THEN x
    ELSE IF x.path.phase = "old" THEN startBasicReturnRoutability(x)
    ELSE clearReturnRoutability(x)

(***************************************************************************)
(* Dispatch of a record.                                                   *)
(***************************************************************************)
processKeyUpdate(x, m, num) ==
    IF x.auth # <<>> /\ x.auth[1].records # {} THEN Fatal(x, "update in answer")
    ELSE IF x.partial # {} THEN Fatal(x, "update in message")
    ELSE IF m.seq <= x.lastUpdate THEN ack(x, num)
    ELSE ack([x EXCEPT !.received = @ + 1, !.lastUpdate = m.seq], num)

\* Tickets and requests are acknowledged before they are reassembled, messages
\* about connection IDs after they were processed.
dispatchPostHandshakeCertificateRequest(x, m, num) ==
    LET acked == ack(x, num)
        y == reassemble(acked, m, num)
    IN  IF Completes(acked, y, m) THEN processPostHandshakeCertificateRequest(y, m) ELSE y
dispatchNewSessionTicket(x, m, num) ==
    LET acked == ack(x, num)
        y == reassemble(acked, m, num)
    IN  IF Completes(acked, y, m) THEN processNewSessionTicket(y, m) ELSE y
dispatchConnectionIDMessage(x, m, num) ==
    LET y == reassemble(x, m, num)
        z == IF ~Completes(x, y, m) THEN y
             ELSE IF m.message = "newCID" THEN processNewConnectionID(y, m)
             ELSE processRequestConnectionID(y, m)
    IN  IF z.failed # "" THEN z ELSE ack(z, num)
dispatchHandshake(x, m, num) ==
    CASE m.message = "ticket" -> dispatchNewSessionTicket(x, m, num)
      [] m.message = "request" -> dispatchPostHandshakeCertificateRequest(x, m, num)
      [] m.message \in {"newCID", "requestCID"} -> dispatchConnectionIDMessage(x, m, num)
      [] m.message = "keyUpdate" -> processKeyUpdate(x, m, num)
      [] OTHER -> processPostHandshakeAuthFragment(x, m, num)

dispatchAlert(x, c, num) ==
    IF c.message = "close_notify" THEN [x EXCEPT !.closure = Append(@, num)]
    ELSE [x EXCEPT !.failed = "alert"]
Ignored(x, num) == x.closure # <<>> /\ x.closure[1] < num
dispatchDatagram(x, e, r) ==
    LET c == r.content
        y == IF e = "server" THEN observeReturnRoutabilityRecord(x, r.address) ELSE x
    IN  IF EpochOf(r.num) > x.received \/ r.cid \notin x.accepted \/ Ignored(x, r.num) THEN x
        ELSE CASE c.typ = "app" -> dispatchApplicationData(y, r.num)
               [] c.typ = "alert" -> dispatchAlert(y, c, r.num)
               [] c.typ = "ack" -> dispatchACK(y, c.n, EpochOf(r.num))
               [] c.typ = "path" -> handleReturnRoutability(y, e, c, r.address)
               [] c.typ = "handshake" -> dispatchHandshake(y, c, r.num)

(***************************************************************************)
(* Steps.  A record of the server goes to its remote address, or to the    *)
(* path it checks; one of the client comes from where the client is.       *)
(***************************************************************************)
ServerAlive ==
    sess[1].state = "open" /\ conn[1].secrets /\ ~conn[1].cancelled
Alive(e) == end[e].failed = "" /\ (e = "server" => ServerAlive)

Addressed(e, o) ==
    [to |-> Peer(e), num |-> o.num, cid |-> o.cid, content |-> o.content,
     address |-> IF e = "client" THEN end["client"].at
                 ELSE IF o.address = <<>> THEN Remote ELSE o.address[1]]
Written(e, x) == {Addressed(e, o) : o \in Range(x.out)}
\* clearTrafficSecrets, of an end that failed or was closed.
Cleared(x) ==
    [x EXCEPT !.flights = [k \in Kinds |-> <<>>], !.partial = {}, !.recent = {}, !.ranges = {},
              !.waiting = <<>>, !.unread = <<>>, !.auth = <<>>, !.update = {},
              !.path = IdleCheck(@.generation + 1)]
Settled(x) ==
    LET y == [x EXCEPT !.out = <<>>, !.rebind = <<>>]
    IN  IF x.failed = "" THEN y ELSE Cleared(y)

\* An error of the server's reader or timer starts failConnection (Listener).
Failing(x) ==
    IF x.failed = "" \/ end["server"].failed # "" THEN conn[1]
    ELSE [conn[1] EXCEPT !.reading = "stopped", !.failer = "cancelled", !.cancelled = TRUE]

Step(e, new, taken) ==
    /\ Alive(e)
    /\ \E x \in {new} :
          /\ \A k \in 1 .. 2 : x.next[k] <= World.records
          /\ end' = [end EXCEPT ![e] = Settled(x)]
          /\ net' = (net \ taken) \cup Written(e, x)
          /\ conn' = IF e = "server" THEN [conn EXCEPT ![1] = Failing(x)] ELSE conn
    /\ UNCHANGED <<listener, reader, acceptor>>
InPlace == UNCHANGED <<table, sess>>

Receive(r) ==
    LET e == r.to IN
    /\ r \in net
    /\ IF e = "server" THEN sessionForCID(table, r.cid) = 1 /\ conn[1].reading = "waiting"
       ELSE r.address = end[e].at
    /\ \E x \in {dispatchDatagram(end[e], e, r)} :
          /\ Step(e, x, {r})
          /\ IF x.rebind # <<>> THEN rebindSession(1, x.rebind[1]) ELSE InPlace
    /\ UNCHANGED todo

\* Lost by the network, or sent to where nobody is.
Unroutable(r) ==
    \/ ~Alive(r.to)
    \/ r.to = "server" /\ sessionForCID(table, r.cid) # 1
    \/ r.to = "client" /\ r.address # end["client"].at
Lose(r) ==
    /\ r \in net
    /\ Unroutable(r) \/ todo.losses > 0
    /\ net' = net \ {r}
    /\ todo' = [todo EXCEPT !.losses = IF Unroutable(r) THEN @ ELSE @ - 1]
    /\ UNCHANGED <<end, listenerVars>>

\* A network may show a record with another source; the client may move.
Stray(r, a) ==
    /\ r \in net /\ r.to = "server" /\ "stray" \in todo.calls /\ a # end["client"].at
    /\ net' = (net \ {r}) \cup {[r EXCEPT !.address = a]}
    /\ todo' = [todo EXCEPT !.calls = @ \ {"stray"}]
    /\ UNCHANGED <<end, listenerVars>>
Move(a) ==
    /\ "move" \in todo.calls /\ a # end["client"].at
    /\ end' = [end EXCEPT !["client"].at = a, !["client"].visited = @ \cup {a}]
    /\ todo' = [todo EXCEPT !.calls = @ \ {"move"}]
    /\ UNCHANGED <<net, listenerVars>>

(***************************************************************************)
(* Calls of the applications, timers and goroutines.                       *)
(***************************************************************************)
Call(name, e, x) ==
    /\ name \in todo.calls
    /\ Step(e, x, {})
    /\ todo' = [todo EXCEPT !.calls = @ \ {name}]

sendNewSessionTickets ==
    Call("ticket", "server", StartFlight(end["server"], "ticket", <<Message("ticket", 0, <<>>)>>))
      /\ InPlace
RequestClientCertificate(name) ==
    LET x == end["server"]
        state == [context |-> x.contexts + 1, start |-> -1, expected |-> 0, records |-> {},
                  inbox |-> {}, waiting |-> <<>>]
        y == StartFlight(x, "request", <<Message("request", x.contexts + 1, <<>>)>>)
    IN  /\ x.auth = <<>>
        /\ Call(name, "server", [y EXCEPT !.contexts = @ + 1, !.auth = <<state>>])
        /\ InPlace

\* SendNewConnectionIDs adds the IDs to its own and registers them before the
\* message leaves, and takes them back if either fails.
NewIDs(x, ids) == Range(ids) \ x.accepted
MaySendIDs(x, ids) ==
    /\ x.flights["newCID"] = <<>>
    /\ Mergeable(x.accepted, ids)
    /\ Cardinality(x.accepted \cup Range(ids)) <= MaxConnectionIDs
    /\ canRegisterAll(table, 1, NewIDs(x, ids))
RegisteredIDs_Later(x, ids) == table
RegisteredIDs(x, ids) == addCIDs(table, 1, NewIDs(x, ids))
SentIDs(x, ids, immediate) ==
    StartFlight([x EXCEPT !.accepted = @ \cup Range(ids)], "newCID",
                <<Message("newCID", immediate, ids)>>)
SendNewConnectionIDs(ids, immediate) ==
    LET x == end["server"] IN
    /\ MaySendIDs(x, ids)
    /\ Call("newCIDs", "server", SentIDs(x, ids, immediate))
    /\ table' = RegisteredIDs(x, ids)
    /\ UNCHANGED sess

\* The goroutine that answers a RequestConnectionId: it asks GetConnectionID
\* for what MaxConnectionIDs leaves, then calls SendNewConnectionIDs, whose
\* error is dropped.
GenerateConnectionIDs(ids) ==
    LET x == end["server"]
        available == MaxConnectionIDs - Cardinality(x.accepted)
    IN  /\ x.responding # <<>> /\ x.generated = <<>>
        /\ Len(ids) <= Head(x.responding) /\ Len(ids) <= available
        /\ Step("server", [x EXCEPT !.responding = Tail(@), !.generated = <<ids>>], {})
        /\ InPlace /\ UNCHANGED todo
respondToConnectionIDRequest ==
    LET ids == end["server"].generated[1]
        x == [end["server"] EXCEPT !.generated = <<>>]
    IN  /\ end["server"].generated # <<>>
        /\ IF MaySendIDs(x, ids)
           THEN Step("server", SentIDs(x, ids, 0), {}) /\ table' = RegisteredIDs(x, ids)
           ELSE Step("server", [x EXCEPT !.refused = TRUE], {}) /\ UNCHANGED table
        /\ UNCHANGED <<sess, todo>>

RequestConnectionIDs ==
    LET x == end["client"]
        y == StartFlight(x, "requestCID", <<Message("requestCID", 1, <<>>)>>)
    IN  /\ ~x.requestOpen /\ x.flights["requestCID"] = <<>>
        /\ Call("requestCIDs", "client", [y EXCEPT !.requestOpen = TRUE])
        /\ InPlace
UseNextConnectionID(e) ==
    LET x == end[e] IN
    /\ x.spares # <<>>
    /\ Call("useNext", e, Activate([x EXCEPT !.spares = Tail(@)], Head(x.spares)))
    /\ InPlace

WriteDatagram(name, e) ==
    Call(name, e, Emit(end[e], end[e].epoch, Content("app", "", 0))) /\ InPlace
ReadDatagram(e) ==
    /\ end[e].unread # <<>>
    /\ Call("read", e, [end[e] EXCEPT !.unread = Tail(@)])
    /\ InPlace
\* beginKeyUpdate and retransmitKeyUpdate; the rest is KeyUpdate's.
UpdateRecord(x, seq) ==
    [Emit(x, x.epoch, [Content("handshake", "keyUpdate", 0) EXCEPT !.seq = seq]) EXCEPT
        !.update = @ \cup {x.epoch * Span + x.next[x.epoch + 1]}]
SendKeyUpdate(e) ==
    LET x == end[e] IN
    /\ x.update = {} /\ x.epoch = 0
    /\ Call("keyUpdate", e, [UpdateRecord(x, x.mseq) EXCEPT !.mseq = @ + 1, !.updating = x.mseq])
    /\ InPlace
UpdateTimeout(e) ==
    /\ todo.timeouts > 0 /\ end[e].update # {}
    /\ Step(e, UpdateRecord(end[e], end[e].updating), {})
    /\ todo' = [todo EXCEPT !.timeouts = @ - 1]
    /\ InPlace

\* A new connection of the client takes a ticket from the cache.
Take ==
    LET x == end["client"] IN
    /\ x.cache # <<>>
    /\ Call("take", "client", [x EXCEPT !.cache = Front(@), !.taken = Append(@, Last(x.cache))])
    /\ InPlace

\* The retransmission goroutines; after a third timeout in a row they would
\* refragment the flight (HandshakeFlight).
Timeout(e, kind) ==
    /\ todo.timeouts > 0 /\ end[e].flights[kind] # <<>>
    /\ Step(e, Retransmit(end[e], kind), {})
    /\ todo' = [todo EXCEPT !.timeouts = @ - 1]
    /\ InPlace

\* A timer that has fired runs later, Stop or not.
TimerFires ==
    LET x == end["server"] IN
    /\ x.path.timer # 0
    /\ Step("server", [x EXCEPT !.path.timer = 0, !.fired = @ \cup {x.path.timer}], {})
    /\ InPlace /\ UNCHANGED todo
TimerRuns(generation) ==
    LET x == end["server"] IN
    /\ generation \in x.fired
    /\ Step("server", returnRoutabilityTimerExpired([x EXCEPT !.fired = @ \ {generation}], generation), {})
    /\ InPlace /\ UNCHANGED todo

\* Close writes close_notify before it clears the keys.
Closing(x) == [Emit(x, x.epoch, Content("alert", "close_notify", 0)) EXCEPT !.failed = "closed"]
ClientCloses == Call("close", "client", Closing(end["client"])) /\ InPlace
ServerCloses(s) ==
    /\ Close(s)
    /\ IF s = 1 /\ World.peer /\ Alive("server")
       THEN /\ end' = [end EXCEPT !["server"] = Settled(Closing(@))]
            /\ net' = net \cup Written("server", Closing(end["server"]))
       ELSE UNCHANGED <<end, net>>
    /\ UNCHANGED todo

(***************************************************************************)
(* The specification.                                                      *)
(***************************************************************************)
ClientCID == <<0>>
InitialEnd(accepted, active, spares, a) ==
    [next |-> <<0, 0>>, epoch |-> 0, received |-> 0, update |-> {}, updating |-> -1,
     lastUpdate |-> -1, mseq |-> 0, flights |-> [k \in Kinds |-> <<>>], resent |-> FALSE,
     partial |-> {}, completed |-> {}, recent |-> {}, ranges |-> {}, waiting |-> <<>>,
     unread |-> <<>>, closure |-> <<>>, failed |-> "", out |-> <<>>, rebind |-> <<>>,
     accepted |-> accepted, active |-> active, spares |-> spares, lastNewCID |-> -1,
     lastRequestCID |-> -1, requestOpen |-> FALSE, responding |-> <<>>, generated |-> <<>>,
     refused |-> FALSE, auth |-> <<>>, answered |-> {}, identities |-> {},
     lastAuthRequest |-> -1, contexts |-> 0, cache |-> <<>>, processed |-> {}, taken |-> <<>>,
     path |-> IdleCheck(0), cookies |-> 0, fired |-> {}, at |-> a, visited |-> {a}]
PairInit ==
    LET w == World IN
    /\ net = {}
    /\ todo = [calls |-> w.calls, losses |-> w.losses, timeouts |-> w.timeouts]
    /\ end = ("server" :> InitialEnd(Range(w.cid), ClientCID, w.spares, sess[1].remote)) @@
             ("client" :> InitialEnd({ClientCID} \cup Range(w.spares),
                                     IF w.cid = <<>> THEN <<>> ELSE w.cid[1], <<>>, sess[1].remote))
Init == ListenerInit /\ PairInit

Unpeered(s) == s # 1 \/ ~World.peer
\* The reader of session 1 meets what is no record of the client, and drops it.
DropsOther == ReadRecord(1) \/ Dispatch(1)
ListenerSide ==
    /\ \/ \E a \in Addresses : readLoop(a)
       \/ Push
       \/ AfterPush
       \/ AcceptStep
       \/ shutdown
       \/ DropsOther
       \/ \E s \in Sessions :
             \/ ShutdownCloses(s)
             \/ HandshakeStep(s)
             \/ Unpeered(s) /\ ReaderStep(s)
             \/ EndStep(s)
    /\ UNCHANGED pairVars
NetworkStep ==
    \/ \E r \in net : Receive(r)
    \/ \E r \in net : Lose(r)
    \/ \E r \in net, a \in Addresses : Stray(r, a)
    \/ \E a \in Addresses : Move(a)
FreshIDs == {<<c>> : c \in World.fresh}
CallStep ==
    \/ sendNewSessionTickets
    \/ \E name \in {"auth", "auth again"} : RequestClientCertificate(name)
    \/ \E ids \in FreshIDs, immediate \in {0, 1} : SendNewConnectionIDs(ids, immediate)
    \/ RequestConnectionIDs
    \/ UseNextConnectionID("client")
    \/ \E name \in {"serverData", "serverData again"} : WriteDatagram(name, "server")
    \/ WriteDatagram("clientData", "client")
    \/ \E e \in Ends : ReadDatagram(e)
    \/ \E e \in Ends : SendKeyUpdate(e)
    \/ Take
    \/ ClientCloses
    \/ \E s \in Sessions : ServerCloses(s)
BackgroundStep ==
    \/ \E e \in Ends, kind \in Kinds : Timeout(e, kind)
    \/ \E e \in Ends : UpdateTimeout(e)
    \/ \E ids \in FreshIDs \cup {<<>>} : GenerateConnectionIDs(ids)
    \/ respondToConnectionIDRequest
    \/ TimerFires
    \/ \E generation \in end["server"].fired : TimerRuns(generation)
Next ==
    \/ ListenerSide
    \/ NetworkStep
    \/ CallStep
    \/ BackgroundStep
Spec == Init /\ [][Next]_vars

(***************************************************************************)
(* Properties.                                                             *)
(***************************************************************************)
BothAlive == World.peer /\ ~listener.closed /\ \A e \in Ends : Alive(e)

\* Registered IDs are prefix-free, and every ID the client uses, keeps as a
\* spare or is about to learn is accepted by the server and routed to it: the
\* ID is registered before the message that announces it leaves.
Announced ==
    {end["client"].active} \cup Range(end["client"].spares)
      \cup UNION {Range(r.content.ids) : r \in {q \in net : q.to = "client"}}
RoutableIDs ==
    /\ PrefixFree
    /\ BothAlive => \A c \in Announced : c \in end["server"].accepted /\ table.cids[c] = 1

\* A new address becomes the peer's only if the client was there to answer the
\* challenge sent to it, whatever responses are late or timers run late; a
\* check always has a timer that will end it, and an unproved address gets at
\* most three times what came from it.  Without an answer a check goes on or
\* ends only when the timer of its own challenge has fired, not that of an
\* earlier one (returnRoutabilityTimerExpired compares the generations).
PathSafe ==
    LET path == end["server"].path IN
    BothAlive =>
        /\ Remote \in end["client"].visited
        /\ path.phase # "idle" =>
              path.timer = path.generation \/ path.generation \in end["server"].fired
        /\ path.sent <= 3 * path.received
PathGoesOn == end["server"].path.phase \notin {"idle", end["server"].path.phase'}
PathProved ==
    [][/\ PathSafe'
       /\ PathGoesOn /\ BothAlive' /\ net \subseteq net' =>
             end["server"].path.generation \in end["server"].fired]_vars

\* What waits for a message gets it.  Application data waits for a fragmented
\* message: the peer still has every missing fragment in a flight it resends,
\* unless the fragments are repeats of a message completed before.  A request
\* for connection IDs is open: it, its answer or the goroutine between them is
\* still there, unless the answer was refused.
StillSent(e, seq, part) ==
    \E kind \in Kinds : \E f \in Range(end[e].flights[kind]) :
        \E i \in Unacked(f) : f.records[i].seq = seq /\ f.records[i].part = part
NothingForgotten ==
    BothAlive =>
        /\ \A e \in Ends : \A p \in end[e].partial :
              p.seq \in end[e].completed
              \/ \E part \in 1 .. Span : part \notin p.parts /\ StillSent(Peer(e), p.seq, part)
        /\ end["client"].requestOpen =>
              \/ end["client"].flights["requestCID"] # <<>>
              \/ end["server"].responding # <<>> \/ end["server"].generated # <<>>
              \/ end["server"].flights["newCID"] # <<>>
              \/ end["server"].refused

\* Application data that waits for a message waits only for a message that is
\* not complete yet.
AppDataReleased ==
    BothAlive =>
        \A e \in Ends : end[e].waiting # <<>> =>
            \E p \in end[e].partial : p.seq \notin end[e].completed

\* While RequestClientCertificate waits, the request or the answer to it is
\* still being sent: it returns once the network delivers.
AuthAnswered ==
    BothAlive /\ end["server"].auth # <<>> =>
        end["server"].flights["request"] # <<>> \/ end["client"].flights["response"] # <<>>

\* With ticket_request a ticket is for one connection: the one Take gave out
\* neither returns to the cache nor is given out again when its NewSessionTicket
\* is received again.
TicketOnce ==
    LET x == end["client"] IN
    World.ticketRequest # <<>> => IsInjective(x.taken \o x.cache)

\* Two correct ends that lose, delay and reorder records fail only for the
\* reasons of the code: never because a message changed epoch or IDs collide;
\* data is interleaved with a message, or an answer comes that belongs to an
\* earlier request, only after a retransmission; an ACK has too low an epoch only
\* after a key update; a key update meets another message only if its sender has
\* begun both; requests overlap only after the earlier one was answered; a buffer
\* overflows only if the peer wrote more datagrams than it holds; an answer is
\* incomplete only without the required certificate; and an alert comes from a
\* peer that failed.
AppWrites(e) ==
    (World.calls \ todo.calls) \cap
        (IF e = "server" THEN {"serverData", "serverData again"} ELSE {"clientData"})
PairFailuresExplained ==
    \A e \in Ends :
        LET x == end[e]
            other == end[Peer(e)]
        IN  /\ x.failed \notin {"key change", "illegal IDs"}
            /\ x.failed \in {"interleaved", "context", "unexpected"} => other.resent
            /\ x.failed = "ack epoch" => x.epoch > 0
            /\ x.failed \in {"update in message", "update in answer"} =>
                  other.updating # -1 /\ other.mseq > 1
            /\ x.failed = "overlapping" => other.identities # {}
            /\ x.failed = "limit" =>
                  Cardinality(AppWrites(Peer(e))) > Min({MaxBuffered, World.maxData})
            /\ x.failed = "incomplete" => World.required /\ ~World.certificate
            /\ x.failed = "alert" => other.failed \notin {"", "alert", "closed"}
=============================================================================
