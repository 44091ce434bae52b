--------------------------- MODULE HandshakeProofs ---------------------------
(***************************************************************************)
(* What the handshake of module Handshake guarantees for every pair of     *)
(* configurations: each action of its next-state relation keeps            *)
(* HandshakeInv, and the invariants the runs check follow from it.         *)
(***************************************************************************)
EXTENDS HandshakeSteps

USE ZenonT(30)

-----------------------------------------------------------------------------
(* Every action keeps the invariant.                                       *)
LEMMA LastWordsList ==
    ASSUME NEW s
    PROVE  IsList(LastWords(s)) /\ (s.err = None => LastWords(s) = <<>>)
  BY SingleList DEF LastWords, AlertOf

LEMMA Nothing ==
    ASSUME NEW q, IsList(q), NEW r, IsList(r)
    PROVE  q \o <<>> \o r = q \o r /\ q \o <<>> = q
  BY ListConcat, SingleList

LEMMA ClientEnds ==
    ASSUME NEW d, ClientTyped(d), d.err # None
    PROVE  ClientTyped(Ended(d)) /\ Ended(d).pc = "failed" /\ Ended(d).err # None
<1>1. Changes(d, Ended(d), {"pc"}) /\ Ended(d).pc = "failed"
  BY ClientFields DEF Ended, Changes, ClientTyped
<1>2. QED
  BY <1>1, ClientKept, ClientFields DEF Changes, ClientTyped

LEMMA ClientFailing ==
    ASSUME HandshakeInv, NEW d, ClientTyped(d), d.err # None, ClientGoes(d, <<>>),
           s2c' = s2c \/ (s2c # <<>> /\ s2c' = Tail(s2c))
    PROVE  HandshakeInv'
<1>1. Inv(server, Ended(d), sv, c2s \o LastWords(d), s2c', amp)
  BY ClientEnds, LastWordsList, ClientFails DEF HandshakeInv
<1>2. c2s' = c2s \o LastWords(d) /\ cl' = Ended(d)
      /\ sc' = sc /\ sv' = sv /\ amp' = amp
  BY Nothing, LastWordsList DEF ClientGoes, HandshakeInv, Inv, Shape
<1>3. QED
  BY <1>1, <1>2 DEF HandshakeInv, server

(* A step that ends without an error sends what it has to send.            *)
LEMMA ClientGoing ==
    ASSUME HandshakeInv, NEW d, d.err = None, NEW out, IsList(out), ClientGoes(d, out)
    PROVE  /\ cl' = d /\ c2s' = c2s \o out
           /\ sc' = sc /\ sv' = sv /\ amp' = amp /\ server' = server
<1>1. IsList(c2s \o out) /\ LastWords(d) = <<>>
  BY ListConcat, LastWordsList DEF HandshakeInv, Inv, Shape
<1>2. c2s \o out \o <<>> = c2s \o out
  BY <1>1, Nothing
<1>3. QED
  BY <1>1, <1>2 DEF ClientGoes, Ended, server

LEMMA ClientStartKeeps == ASSUME HandshakeInv, ClientStart PROVE HandshakeInv'
<1> DEFINE c == clientStart(cl)
           d == [c EXCEPT !.pc = "hello"]
<1>1. cl.pc = "start" /\ ClientTyped(cl) /\ cl.err = None /\ sc \in Scenarios
  BY DEF ClientStart, HandshakeInv, Inv, Shape
<1>2. ClientTyped(c)
  BY <1>1, StartStep
<1>3. /\ ClientGoes(d, IF c.err = None THEN <<Plain(CH(c.wire))>> ELSE <<>>)
      /\ s2c' = s2c
  BY DEF ClientStart
<1> HIDE DEF c
<1>4. Changes(c, d, {"pc"}) /\ d.pc = "hello"
  BY <1>2, ClientFields DEF Changes, ClientTyped
<1> HIDE DEF d
<1>5. ClientTyped(d) /\ d.err = c.err
  BY <1>2, <1>4, ClientKept, ClientFields DEF Changes, ClientTyped
<1>6. CASE c.err # None
  BY <1>3, <1>5, <1>6, ClientFailing
<1>7. CASE c.err = None
  <2> DEFINE x == Plain(CH(c.wire))
  <2> HIDE DEF x
  <2>1. ClientGoes(d, <<x>>)
    BY <1>3, <1>7 DEF x
  <2>2. cl' = d /\ c2s' = c2s \o <<x>> /\ sc' = sc /\ sv' = sv /\ amp' = amp /\ server' = server
    BY <1>5, <1>7, <2>1, SingleList, ClientGoing
  <2>3. sv.pc = "start"
    BY <1>1 DEF HandshakeInv, Inv, Starting
  <2>4. Inv(server, d, sv, c2s \o <<x>>, s2c, amp)
    BY <1>1, <1>4, <1>5, <1>7, <2>3, ClientSendsHello DEF HandshakeInv
  <2>5. QED
    BY <1>3, <2>2, <2>4 DEF HandshakeInv
<1>8. QED
  BY <1>6, <1>7

LEMMA ClientEarlyWriteKeeps == ASSUME HandshakeInv, ClientEarlyWrite PROVE HandshakeInv'
<1> DEFINE d == [cl EXCEPT !.remaining = @ - 1, !.written = @ + 1]
           x == [key |-> EarlyKey(cl.session[1].id,
                        IF cl.inner = <<>> THEN cl.body ELSE cl.innerBody),
                 msg |-> [typ |-> "EarlyData"]]
<1>1. cl.pc = "hello" /\ cl.remaining > 0 /\ ClientTyped(cl) /\ cl.err = None
  BY DEF ClientEarlyWrite, CanWriteEarly, HandshakeInv, Inv, Shape
<1>2. ClientGoes(d, <<x>>) /\ s2c' = s2c
  BY DEF ClientEarlyWrite
<1>3. ClientTyped(d) /\ d.pc = "hello" /\ d.err = None
  BY SMTT(30), <1>1, ClientFields DEF ClientTyped
<1> HIDE DEF d, x
<1>4. cl' = d /\ c2s' = c2s \o <<x>> /\ sc' = sc /\ sv' = sv /\ amp' = amp /\ server' = server
  BY <1>2, <1>3, SingleList, ClientGoing
<1>5. Inv(server, d, sv, c2s \o <<x>>, s2c, amp)
  BY <1>1, <1>3, ClientSendsHello DEF HandshakeInv
<1>6. QED
  BY <1>2, <1>4, <1>5 DEF HandshakeInv

LEMMA ClientRetransmitKeeps == ASSUME HandshakeInv, ClientRetransmit PROVE HandshakeInv'
<1> DEFINE x == Plain(CH(cl.wire))
<1>1. cl.pc = "hello" /\ ClientTyped(cl) /\ cl.err = None
  BY DEF ClientRetransmit, HandshakeInv, Inv, Shape
<1>2. ClientGoes(cl, <<x>>) /\ s2c' = s2c
  BY DEF ClientRetransmit
<1> HIDE DEF x
<1>3. cl' = cl /\ c2s' = c2s \o <<x>> /\ sc' = sc /\ sv' = sv /\ amp' = amp /\ server' = server
  BY <1>1, <1>2, SingleList, ClientGoing
<1>4. Inv(server, cl, sv, c2s \o <<x>>, s2c, amp)
  BY <1>1, ClientSendsHello DEF HandshakeInv
<1>5. QED
  BY <1>2, <1>3, <1>4 DEF HandshakeInv

LEMMA ClientHelloRetryRequestKeeps ==
    ASSUME HandshakeInv, ClientHelloRetryRequest PROVE HandshakeInv'
<1> DEFINE c == clientHandleHelloRetryRequest(cl, Head(s2c).msg)
<1>1. /\ cl.pc = "hello" /\ ClientTyped(cl) /\ cl.err = None
      /\ s2c # <<>> /\ Head(s2c).msg.typ = "HelloRetryRequest" /\ s2c' = Tail(s2c)
  BY DEF ClientHelloRetryRequest, ClientReads, HandshakeInv, Inv, Shape
<1>2. ClientTyped(c) /\ (c.err = None => c.pc = "second")
  BY <1>1, HelloRetryRequestStep
<1>3. ClientGoes(c, IF c.err = None THEN <<Plain(CH(c.wire))>> ELSE <<>>)
  BY DEF ClientHelloRetryRequest
<1> HIDE DEF c
<1>4. CASE c.err # None
  BY <1>1, <1>2, <1>3, <1>4, ClientFailing
<1>5. CASE c.err = None
  <2> DEFINE x == Plain(CH(c.wire))
  <2>1. x.msg.typ = "ClientHello"
    BY DEF Plain, CH
  <2> HIDE DEF x
  <2>2. ClientGoes(c, <<x>>)
    BY <1>3, <1>5 DEF x
  <2>3. cl' = c /\ c2s' = c2s \o <<x>> /\ sc' = sc /\ sv' = sv /\ amp' = amp /\ server' = server
    BY <1>5, <2>2, SingleList, ClientGoing
  <2>4. Inv(server, c, sv, c2s \o <<x>>, Tail(s2c), amp)
    BY <1>1, <1>2, <1>5, <2>1, ClientSendsSecond DEF HandshakeInv
  <2>5. QED
    BY <1>1, <2>3, <2>4 DEF HandshakeInv
<1>6. QED
  BY <1>4, <1>5

LEMMA ClientReading ==
    ASSUME HandshakeInv, cl.pc \in {"hello", "second", "flight"}, s2c # <<>>,
           Head(s2c).msg.typ \notin {"Finished", "HelloRetryRequest"}, s2c' = Tail(s2c),
           NEW d, ClientTyped(d), d.pc = "flight", d.err = None, ClientGoes(d, <<>>)
    PROVE  HandshakeInv'
<1>1. cl' = d /\ c2s' = c2s \o <<>> /\ sc' = sc /\ sv' = sv /\ amp' = amp /\ server' = server
  BY SingleList, ClientGoing
<1>2. c2s \o <<>> = c2s
  BY Nothing DEF HandshakeInv, Inv, Shape
<1>3. Inv(server, d, sv, c2s, Tail(s2c), amp)
  BY ClientReadsOn DEF HandshakeInv
<1>4. QED
  BY <1>1, <1>2, <1>3 DEF HandshakeInv

LEMMA ClientServerHelloKeeps == ASSUME HandshakeInv, ClientServerHello PROVE HandshakeInv'
<1> DEFINE c == clientServerHello(cl, Head(s2c).msg)
<1>1. /\ cl.pc \in {"hello", "second"} /\ ClientTyped(cl) /\ cl.err = None
      /\ s2c # <<>> /\ Head(s2c).msg.typ = "ServerHello" /\ s2c' = Tail(s2c)
  BY DEF ClientServerHello, ClientReads, HandshakeInv, Inv, Shape
<1>2. ClientTyped(c) /\ (c.err = None => c.pc = "flight")
  BY <1>1, ServerHelloStep
<1>3. ClientGoes(c, <<>>)
  BY DEF ClientServerHello
<1> HIDE DEF c
<1>4. CASE c.err # None
  BY <1>1, <1>2, <1>3, <1>4, ClientFailing
<1>5. CASE c.err = None
  BY <1>1, <1>2, <1>3, <1>5, ClientReading
<1>6. QED
  BY <1>4, <1>5

LEMMA ClientFlightMessageKeeps ==
    ASSUME HandshakeInv, NEW typ, typ \notin {"Finished", "HelloRetryRequest"}, NEW d,
           ClientFlightMessage(typ, d),
           StagedClient.err = None => ClientTyped(d) /\ d.pc = StagedClient.pc
    PROVE  HandshakeInv'
<1> DEFINE c == IF StagedClient.err # None THEN StagedClient ELSE d
<1>1. /\ cl.pc = "flight" /\ ClientTyped(cl) /\ cl.err = None
      /\ s2c # <<>> /\ Head(s2c).msg.typ = typ /\ s2c' = Tail(s2c)
  BY DEF ClientFlightMessage, ClientReads, HandshakeInv, Inv, Shape
<1>2. ClientTyped(StagedClient) /\ StagedClient.pc = "flight"
  BY <1>1, StagedStep DEF StagedClient
<1>3. ClientTyped(c) /\ (c.err = None => c.pc = "flight")
  BY <1>2
<1>4. ClientGoes(c, <<>>)
  BY DEF ClientFlightMessage
<1> HIDE DEF c
<1>5. CASE c.err # None
  BY <1>1, <1>3, <1>4, <1>5, ClientFailing
<1>6. CASE c.err = None
  BY <1>1, <1>3, <1>4, <1>6, ClientReading
<1>7. QED
  BY <1>5, <1>6

LEMMA ClientFlightKeeps ==
    ASSUME HandshakeInv,
           \/ ClientEncryptedExtensions \/ ClientCertificateRequest
           \/ ClientServerCertificate \/ ClientServerCertificateVerify
    PROVE  HandshakeInv'
<1> DEFINE s == StagedClient
           m == ServerMessage
<1>1. ClientTyped(cl) /\ (cl.pc = "flight" => cl.err = None)
  BY DEF HandshakeInv, Inv, Shape
<1>2. cl.pc = "flight"
  BY DEF ClientEncryptedExtensions, ClientCertificateRequest, ClientServerCertificate,
     ClientServerCertificateVerify, ClientFlightMessage, ClientReads
<1>3. ClientTyped(s)
  BY <1>1, <1>2, StagedStep DEF StagedClient
<1> HIDE DEF s, m
<1>4. s.err = None =>
        /\ ClientTyped(clientEncryptedExtensions(s, m)) /\ clientEncryptedExtensions(s, m).pc = s.pc
        /\ ClientTyped(clientCertificateRequest(s, m)) /\ clientCertificateRequest(s, m).pc = s.pc
        /\ ClientTyped(clientServerCertificate(s, m)) /\ clientServerCertificate(s, m).pc = s.pc
        /\ ClientTyped(clientServerCertificateVerify(s, m))
        /\ clientServerCertificateVerify(s, m).pc = s.pc
  BY <1>3, EncryptedExtensionsStep, FlightStep
<1>5. CASE ClientEncryptedExtensions
  BY <1>4, <1>5, ClientFlightMessageKeeps DEF ClientEncryptedExtensions, s, m
<1>6. CASE ClientCertificateRequest
  BY <1>4, <1>6, ClientFlightMessageKeeps DEF ClientCertificateRequest, s, m
<1>7. CASE ClientServerCertificate
  BY <1>4, <1>7, ClientFlightMessageKeeps DEF ClientServerCertificate, s, m
<1>8. CASE ClientServerCertificateVerify
  BY <1>4, <1>8, ClientFlightMessageKeeps DEF ClientServerCertificateVerify, s, m
<1>9. QED
  BY <1>5, <1>6, <1>7, <1>8

LEMMA ClientServerFinishedKeeps ==
    ASSUME HandshakeInv, ClientServerFinished PROVE HandshakeInv'
<1> DEFINE m == Head(s2c).msg
           s == Staged(cl, m)
           c == IF s.err # None THEN s ELSE clientServerFinished(s, m)
           f == clientSendAuthAndFinished(c)
           d == clientAwaitFinalACK(f.state)
           q == Protect(c, f.out)
<1>1. /\ cl.pc = "flight" /\ ClientTyped(cl) /\ cl.err = None
      /\ s2c # <<>> /\ Head(s2c).msg.typ = "Finished" /\ Head(s2c).key = cl.secret
      /\ s2c' = Tail(s2c)
  BY DEF ClientServerFinished, ClientReads, HandshakeInv, Inv, Shape
<1>2. IF c.err # None THEN ClientGoes(c, <<>>) ELSE ClientGoes(d, q)
  BY DEF ClientServerFinished, Then
<1>3. ClientTyped(s) /\ s.secret = cl.secret
  BY <1>1, StagedStep
<1> HIDE DEF s
<1>4. ClientTyped(c) /\ c.secret = cl.secret
  BY <1>3, ServerFinishedStep
<1> HIDE DEF c
<1>5. CASE c.err # None
  BY <1>1, <1>2, <1>4, <1>5, ClientFailing
<1>6. CASE c.err = None
  <2>1. /\ ClientTyped(f.state) /\ f.state.pc = "ack" /\ f.state.err = None
        /\ IsList(f.out) /\ f.out # <<>> /\ LastOf(f.out).typ = "Finished"
    BY <1>4, <1>6, AuthAndFinishedStep
  <2> HIDE DEF f
  <2>2. ClientTyped(d) /\ d.pc = "ack" /\ d.err = None
    BY <2>1, FinalizeStep
  <2>3. IsList(q) /\ EndsIn(q, "Finished") /\ LastOf(q).key = cl.secret
    <3>1. /\ IsList(q) /\ q # <<>> /\ LastOf(q).key = c.secret
          /\ LastOf(q).msg = LastOf(f.out)
      BY <2>1, ProtectList
    <3>2. QED
      BY <1>4, <2>1, <3>1 DEF EndsIn
  <2>4. ClientGoes(d, q)
    BY <1>2, <1>6
  <2> HIDE DEF d, q
  <2>5. cl' = d /\ c2s' = c2s \o q /\ sc' = sc /\ sv' = sv /\ amp' = amp /\ server' = server
    BY <2>2, <2>3, <2>4, ClientGoing
  <2>6. Inv(server, d, sv, c2s \o q, Tail(s2c), amp)
    BY <1>1, <2>2, <2>3, ClientAnswers DEF HandshakeInv
  <2>7. QED
    BY <1>1, <2>5, <2>6 DEF HandshakeInv
<1>7. QED
  BY <1>5, <1>6

LEMMA ClientFinalACKKeeps == ASSUME HandshakeInv, ClientFinalACK PROVE HandshakeInv'
<1> DEFINE c == clientFinalize(cl)
           d == [c EXCEPT !.pc = "done"]
<1>1. /\ cl.pc = "ack" /\ ClientTyped(cl) /\ cl.err = None
      /\ s2c # <<>> /\ s2c' = Tail(s2c)
  BY DEF ClientFinalACK, ClientReads, HandshakeInv, Inv, Shape
<1>2. ClientGoes(d, <<>>)
  BY DEF ClientFinalACK
<1>3. ClientTyped(c)
  BY <1>1, FinalizeStep
<1> HIDE DEF c
<1>4. Changes(c, d, {"pc"}) /\ d.pc = "done"
  BY <1>3, ClientFields DEF Changes, ClientTyped
<1> HIDE DEF d
<1>5. ClientTyped(d)
  BY <1>3, <1>4, ClientKept
<1>6. CASE d.err # None
  BY <1>1, <1>2, <1>5, <1>6, ClientFailing
<1>7. CASE d.err = None
  <2>1. cl' = d /\ c2s' = c2s \o <<>> /\ sc' = sc /\ sv' = sv /\ amp' = amp /\ server' = server
    BY <1>2, <1>7, SingleList, ClientGoing
  <2>2. c2s \o <<>> = c2s
    BY Nothing DEF HandshakeInv, Inv, Shape
  <2>3. Inv(server, d, sv, c2s, Tail(s2c), amp)
    BY <1>1, <1>4, <1>5, <1>7, ClientCompletes DEF HandshakeInv
  <2>4. QED
    BY <1>1, <2>1, <2>2, <2>3 DEF HandshakeInv
<1>8. QED
  BY <1>6, <1>7

(* An alert, or no answer.                                                 *)
LEMMA ClientGivesUp ==
    ASSUME HandshakeInv, ClientAlert \/ ClientTimeout
    PROVE  HandshakeInv'
<1>1. ClientTyped(cl)
  BY DEF HandshakeInv, Inv, Shape
<1>2. \A x \in {"peer_alert", "timeout"} : ClientTyped(Fail(cl, x)) /\ Fail(cl, x).err # None
  <2>1. SUFFICES ASSUME NEW x \in {"peer_alert", "timeout"}
                 PROVE  ClientTyped(Fail(cl, x)) /\ Fail(cl, x).err # None
    OBVIOUS
  <2>2. Changes(cl, Fail(cl, x), {"err"}) /\ Fail(cl, x).err = x
    BY <1>1, FailChanges, ClientFields DEF ClientTyped
  <2>3. QED
    BY <1>1, <2>2, ClientKept DEF None
<1>3. CASE ClientAlert
  <2>1. ClientGoes(Fail(cl, "peer_alert"), <<>>) /\ s2c # <<>> /\ s2c' = Tail(s2c)
    BY <1>3 DEF ClientAlert, ClientReads
  <2>2. QED
    BY <1>2, <2>1, ClientFailing
<1>4. CASE ClientTimeout
  <2>1. ClientGoes(Fail(cl, "timeout"), <<>>) /\ s2c' = s2c
    BY <1>4 DEF ClientTimeout
  <2>2. QED
    BY <1>2, <2>1, ClientFailing
<1>5. QED
  BY <1>3, <1>4

-----------------------------------------------------------------------------
(* What becomes of the server's state when a step of it is over.           *)
ServerNext(s) == [Ended(s) EXCEPT !.unsent = IF s.err = None THEN @ ELSE <<>>]

LEMMA ServerEnds ==
    ASSUME NEW s, ServerTyped(s)
    PROVE  /\ ServerTyped(ServerNext(s)) /\ ServerNext(s).err = s.err
           /\ s.err # None => ServerNext(s).pc = "failed"
           /\ s.err = None => Changes(s, ServerNext(s), {})
<1>1. CASE s.err # None
  <2>1. Changes(s, Ended(s), {"pc"}) /\ Ended(s).pc = "failed"
    BY <1>1, ServerFields DEF Ended, Changes, ServerTyped
  <2>2. ServerNext(s) = [Ended(s) EXCEPT !.unsent = <<>>]
    BY <1>1 DEF ServerNext
  <2> DEFINE e == Ended(s)
             t == ServerNext(s)
  <2> HIDE DEF e, t
  <2>3. Changes(s, e, {"pc"}) /\ e.pc = "failed" /\ t = [e EXCEPT !.unsent = <<>>]
    BY <2>1, <2>2 DEF e, t
  <2>4. DOMAIN t = DOMAIN ServerInit /\ t.err = s.err /\ t.pc = "failed"
        /\ t.unsent = <<>> /\ t.earlyStatus = s.earlyStatus
    BY <2>3, ServerFields DEF Changes, ServerTyped
  <2>5. QED
    BY <1>1, <2>4, SingleList DEF ServerTyped, t
<1>2. CASE s.err = None
  <2>1. ServerNext(s) = [s EXCEPT !.unsent = s.unsent]
    BY <1>2 DEF ServerNext, Ended
  <2>2. Changes(s, ServerNext(s), {})
    BY <2>1 DEF Changes
  <2>3. ServerTyped(ServerNext(s)) /\ ServerNext(s).err = s.err
    BY <2>2, ServerKept, ServerFields DEF Changes, ServerTyped
  <2>4. QED
    BY <1>2, <2>2, <2>3
<1>3. QED
  BY <1>1, <1>2

LEMMA ServerFailing ==
    ASSUME HandshakeInv, cl.pc # "start", NEW s, ServerTyped(s), s.err # None,
           NEW g \in Guards, Budgeted(g), ServerGoes(s, g, <<>>), IsList(c2s')
    PROVE  HandshakeInv'
<1>1. ServerTyped(ServerNext(s)) /\ ServerNext(s).err # None /\ ServerNext(s).pc = "failed"
  BY ServerEnds
<1>2. s2c' = s2c \o LastWords(s) /\ IsList(s2c \o LastWords(s))
  BY Nothing, LastWordsList, ListConcat DEF ServerGoes, HandshakeInv, Inv, Shape
<1>3. sv' = ServerNext(s) /\ sc' = sc /\ cl' = cl /\ amp' = Spend(g, 0)
  BY SingleList DEF ServerGoes, ServerNext
<1>4. Spend(g, 0) \in Guards /\ Budgeted(Spend(g, 0))
  BY SpendSteps
<1>5. Inv(server, cl, ServerNext(s), c2s', s2c', Spend(g, 0))
  BY <1>1, <1>2, <1>4, ServerFails DEF HandshakeInv
<1>6. QED
  BY <1>3, <1>5 DEF HandshakeInv, server

LEMMA ServerGoing ==
    ASSUME HandshakeInv, NEW s, ServerTyped(s), s.err = None,
           NEW g \in Guards, Budgeted(g), NEW out, IsList(out), ServerGoes(s, g, out)
    PROVE  /\ sv' = ServerNext(s) /\ Changes(s, ServerNext(s), {})
           /\ ServerTyped(ServerNext(s))
           /\ s2c' = s2c \o out /\ IsList(s2c \o out)
           /\ sc' = sc /\ cl' = cl /\ amp' = Spend(g, Len(out)) /\ server' = server
<1>1. Changes(s, ServerNext(s), {}) /\ ServerTyped(ServerNext(s))
  BY ServerEnds
<1>2. IsList(s2c \o out) /\ LastWords(s) = <<>>
  BY ListConcat, LastWordsList DEF HandshakeInv, Inv, Shape
<1>3. s2c \o out \o <<>> = s2c \o out
  BY <1>2, Nothing
<1>4. QED
  BY <1>1, <1>2, <1>3 DEF ServerGoes, ServerNext, server

LEMMA ServerWritesFlightKeeps ==
    ASSUME HandshakeInv, sv.pc \in {"start", "hrr"}, c2s # <<>>, c2s' = Tail(c2s),
           NEW s, ServerTyped(s), s.err = None => Launched(s),
           NEW g \in Guards, Budgeted(g), sv.pc = "hrr" => g.validated,
           ServerWritesFlight(s, g)
    PROVE  HandshakeInv'
<1>1. cl.pc # "start" /\ IsList(c2s) /\ IsList(s2c) /\ sc \in Scenarios
  BY DEF HandshakeInv, Inv, Starting, Shape
<1>2. IsList(c2s')
  BY <1>1, ListTail
<1>3. CASE s.err # None
  <2>1. ServerGoes(s, g, <<>>)
    BY <1>3 DEF ServerWritesFlight
  <2>2. QED
    BY <1>1, <1>2, <1>3, <2>1, ServerFailing
<1>4. CASE s.err = None /\ ~allowSend(g, sc.flight)
  <2>1. ServerGoes(s, g, <<>>)
    BY <1>4 DEF ServerWritesFlight
  <2>2. sv.pc = "start"
    BY <1>4 DEF allowSend
  <2>3. /\ sv' = ServerNext(s) /\ Changes(s, ServerNext(s), {}) /\ ServerTyped(ServerNext(s))
        /\ s2c' = s2c \o <<>> /\ sc' = sc /\ cl' = cl /\ amp' = Spend(g, 0) /\ server' = server
    BY <1>4, <2>1, SingleList, ServerGoing
  <2>4. s2c' = s2c
    BY <1>1, <2>3, Nothing
  <2> DEFINE t == ServerNext(s)
  <2> HIDE DEF t
  <2>5. Launched(t) /\ t.err = None /\ ServerTyped(t)
    <3>1. /\ t.pc = s.pc /\ t.unsent = s.unsent /\ t.secret = s.secret /\ t.psk = s.psk
          /\ t.stage = s.stage /\ t.clientCert = s.clientCert /\ t.ticket = s.ticket
          /\ t.err = s.err
      BY <2>3, ServerFields DEF Changes, ServerTyped, t
    <3>2. Launched(s)
      BY <1>4
    <3>3. QED
      BY <1>4, <2>3, <3>1, <3>2 DEF Launched, t
  <2>6. Spend(g, 0) \in Guards /\ Budgeted(Spend(g, 0))
    BY SpendSteps
  <2>7. Inv(server, cl, t, Tail(c2s), s2c, Spend(g, 0))
    BY <2>2, <2>5, <2>6, ServerHolds DEF HandshakeInv
  <2>8. QED
    BY <2>3, <2>4, <2>7 DEF HandshakeInv, t
<1>5. CASE s.err = None /\ allowSend(g, sc.flight)
  <2> DEFINE u == [s EXCEPT !.unsent = <<>>]
             b == Spend(g, sc.flight)
  <2>1. sv' = u /\ s2c' = s2c \o s.unsent /\ amp' = b /\ sc' = sc /\ cl' = cl
    BY <1>5 DEF ServerWritesFlight
  <2>2. Changes(s, u, {"unsent"}) /\ u.unsent = <<>>
    BY ServerFields DEF Changes, ServerTyped
  <2>3. b \in Guards /\ Budgeted(b)
    BY <1>1, <1>5, HandshakeAssumption, SpendSteps
  <2> HIDE DEF u, b
  <2>4. Inv(server, cl, u, Tail(c2s), s2c \o s.unsent, b)
    BY <1>5, <2>2, <2>3, ServerLaunches DEF HandshakeInv
  <2>5. QED
    BY <2>1, <2>4 DEF HandshakeInv, server
<1>6. QED
  BY <1>3, <1>4, <1>5

LEMMA ServerReceiveClientHelloKeeps ==
    ASSUME HandshakeInv, ServerReceiveClientHello PROVE HandshakeInv'
<1> DEFINE s == ServerFirstHello(sv, Head(c2s).msg.hello)
           p == rotateIfNeeded(protector, now)
           g == recordReceived(amp)
           r == serverSendHelloRetryRequest(s, <<seal(p, now, s.body)>>)
           w == SelectShareAndProtocol(s)
           f == ServerFlight(w)
<1>1. /\ sv.pc = "start" /\ c2s # <<>> /\ c2s' = Tail(c2s)
      /\ IsList(c2s) /\ IsList(s2c) /\ s2c = <<>> /\ cl.pc # "start"
      /\ ServerTyped(sv) /\ sv.err = None /\ sv.psk = None /\ sv.ticket = <<>> /\ sv.hrrUsed
      /\ amp \in Guards /\ Budgeted(amp) /\ amp.received = 0 /\ amp.sent = 0
      /\ sc \in Scenarios
  BY DEF ServerReceiveClientHello, ServerReads, HandshakeInv, Inv, Shape, Starting,
     Authenticating
<1>2. IsList(c2s')
  BY <1>1, ListTail
<1>3. /\ ServerTyped(s)
      /\ s.err = None /\ s.hrrUsed => s.psk = None /\ s.ticket = <<>>
      /\ s.err = None => Permitted(s)
  BY <1>1, FirstHelloStep
<1>4. g \in Guards /\ Budgeted(g) /\ allowSend(g, 1)
  BY SMTT(30), <1>1, GuardSteps DEF allowSend
<1>5. /\ s.err # None => ServerGoes(s, g, <<>>)
      /\ s.err = None /\ ~s.hrrUsed => ServerWritesFlight(f, g)
      /\ s.err = None /\ s.hrrUsed =>
            ServerGoes(r, g, IF allowSend(g, 1) /\ r.err = None
                             THEN <<Plain(r.hrr[1])>> ELSE <<>>)
  BY DEF ServerReceiveClientHello
<1> HIDE DEF s, g
<1>6. CASE s.err # None
  BY <1>1, <1>2, <1>3, <1>4, <1>5, <1>6, ServerFailing
<1>7. CASE s.err = None /\ ~s.hrrUsed
  <2>1. Changes(s, w, {"err", "alpn", "share"})
    BY FirstHelloChanges
  <2> HIDE DEF w
  <2>2. ServerTyped(w) /\ Permitted(w)
    BY <1>3, <1>7, <2>1, ServerKept, ServerFields DEF Changes, ServerTyped, Permitted
  <2>3. ServerTyped(f) /\ (f.err = None => Launched(f))
    BY <2>2, FlightIsLaunched
  <2> HIDE DEF f
  <2>4. QED
    BY <1>1, <1>4, <1>5, <1>7, <2>3, ServerWritesFlightKeeps
<1>8. CASE s.err = None /\ s.hrrUsed
  <2>1. /\ ServerTyped(r) /\ r.psk = None /\ r.ticket = <<>>
        /\ r.err = None => r.pc = "hrr" /\ r.hrr[1].typ = "HelloRetryRequest"
    BY <1>3, <1>8, RetryRequestStep
  <2> HIDE DEF r
  <2>2. CASE r.err # None
    BY <1>1, <1>2, <1>4, <1>5, <1>8, <2>1, <2>2, ServerFailing
  <2>3. CASE r.err = None
    <3> DEFINE x == Plain(r.hrr[1])
               t == ServerNext(r)
    <3>1. x.msg.typ = "HelloRetryRequest"
      BY <2>1, <2>3 DEF Plain
    <3> HIDE DEF x
    <3>2. ServerGoes(r, g, <<x>>)
      BY <1>4, <1>5, <1>8, <2>3 DEF x
    <3>3. /\ sv' = t /\ Changes(r, t, {}) /\ ServerTyped(t) /\ s2c' = s2c \o <<x>>
          /\ sc' = sc /\ cl' = cl /\ amp' = Spend(g, 1) /\ server' = server
      BY <1>4, <2>1, <2>3, <3>2, SingleList, ServerGoing
    <3> HIDE DEF t
    <3>4. s2c' = <<x>>
      BY <1>1, <3>3, ListConcat, SingleList
    <3>5. t.pc = "hrr" /\ t.err = None /\ t.psk = None /\ t.ticket = <<>>
      BY <2>1, <2>3, <3>3, ServerFields DEF Changes, ServerTyped
    <3>6. Spend(g, 1) \in Guards /\ Budgeted(Spend(g, 1))
      BY <1>4, SpendSteps
    <3>7. Inv(server, cl, t, Tail(c2s), <<x>>, Spend(g, 1))
      BY <1>1, <3>1, <3>3, <3>5, <3>6, ServerRetries DEF HandshakeInv
    <3>8. QED
      BY <1>1, <3>3, <3>4, <3>7 DEF HandshakeInv
  <2>4. QED
    BY <2>2, <2>3
<1>9. QED
  BY <1>6, <1>7, <1>8

LEMMA ServerReceiveSecondClientHelloKeeps ==
    ASSUME HandshakeInv, ServerReceiveSecondClientHello PROVE HandshakeInv'
<1> DEFINE s == serverReceiveSecondClientHello(sv, Head(c2s).msg.hello)
           g == recordReceived(amp)
           r == serverRenegotiateAfterHRR(s)
           f == ServerFlight(r)
<1>1. /\ sv.pc = "hrr" /\ c2s # <<>> /\ c2s' = Tail(c2s) /\ IsList(c2s) /\ cl.pc # "start"
      /\ ServerTyped(sv) /\ sv.psk = None /\ sv.ticket = <<>>
      /\ amp \in Guards /\ Budgeted(amp) /\ sc \in Scenarios
  BY DEF ServerReceiveSecondClientHello, ServerReads, HandshakeInv, Inv, Shape,
     Starting, Authenticating
<1>2. IsList(c2s')
  BY <1>1, ListTail
<1>3. ServerTyped(s) /\ s.psk = None /\ s.ticket = <<>>
  BY <1>1, SecondHelloStep
<1>4. /\ g \in Guards /\ Budgeted(g)
      /\ validate(g) \in Guards /\ Budgeted(validate(g)) /\ validate(g).validated
  BY <1>1, GuardSteps
<1>5. /\ s.err # None => ServerGoes(s, g, <<>>)
      /\ s.err = None => ServerWritesFlight(f, validate(g))
  BY DEF ServerReceiveSecondClientHello
<1> HIDE DEF s, g
<1>6. CASE s.err # None
  BY <1>1, <1>2, <1>3, <1>4, <1>5, <1>6, ServerFailing
<1>7. CASE s.err = None
  <2>1. ServerTyped(r) /\ (r.err = None => Permitted(r))
    BY <1>1, <1>3, <1>7, RenegotiateStep
  <2> HIDE DEF r
  <2>2. ServerTyped(f) /\ (f.err = None => Launched(f))
    BY <2>1, FlightIsLaunched
  <2> HIDE DEF f
  <2>3. QED
    BY <1>1, <1>4, <1>5, <1>7, <2>2, ServerWritesFlightKeeps
<1>8. QED
  BY <1>6, <1>7

(* A message other than the one that ends the client's flight.             *)
LEMMA ServerReading ==
    ASSUME HandshakeInv, sv.pc \in {"hrr", "flight"}, c2s # <<>>, c2s' = Tail(c2s),
           sv.pc = "hrr" => Head(c2s).msg.typ # "ClientHello",
           sv.pc = "flight" => ~(Head(c2s).msg.typ = "Finished" /\ Head(c2s).key = sv.secret),
           NEW s, Changes(sv, s, {"err", "stage", "clientCert", "verified", "transcript",
                                  "delivered", "buffered", "queued"}),
           s.err = None /\ sv.pc = "flight" /\ server.clientAuth = "require" /\ sv.psk # None =>
              s.stage = "Finished" /\ s.clientCert # None,
           ServerGoes(s, recordReceived(amp), <<>>)
    PROVE  HandshakeInv'
<1> DEFINE g == recordReceived(amp)
<1>1. /\ cl.pc # "start" /\ IsList(c2s) /\ IsList(s2c) /\ ServerTyped(sv)
      /\ amp \in Guards /\ Budgeted(amp)
  BY DEF HandshakeInv, Inv, Shape, Starting
<1>2. IsList(c2s')
  BY <1>1, ListTail
<1>3. g \in Guards /\ Budgeted(g)
  BY <1>1, GuardSteps
<1> HIDE DEF g
<1>4. ServerTyped(s) /\ s.pc = sv.pc /\ s.unsent = sv.unsent /\ s.secret = sv.secret
      /\ s.psk = sv.psk /\ s.ticket = sv.ticket
  BY <1>1, ServerKept, ServerFields DEF Changes, ServerTyped
<1>5. ServerGoes(s, g, <<>>)
  BY DEF g
<1>6. CASE s.err # None
  BY <1>1, <1>2, <1>3, <1>4, <1>5, <1>6, ServerFailing
<1>7. CASE s.err = None
  <2> DEFINE t == ServerNext(s)
  <2>1. /\ sv' = t /\ Changes(s, t, {}) /\ ServerTyped(t) /\ s2c' = s2c \o <<>>
        /\ sc' = sc /\ cl' = cl /\ amp' = Spend(g, 0) /\ server' = server
    BY <1>3, <1>4, <1>5, <1>7, SingleList, ServerGoing
  <2> HIDE DEF t
  <2>2. s2c' = s2c
    BY <1>1, <2>1, Nothing
  <2>3. /\ t.pc = sv.pc /\ t.err = None /\ t.unsent = sv.unsent /\ t.secret = sv.secret
        /\ t.psk = sv.psk /\ t.ticket = sv.ticket
        /\ t.stage = s.stage /\ t.clientCert = s.clientCert
    BY <1>4, <1>7, <2>1, ServerFields DEF Changes, ServerTyped
  <2>4. Spend(g, 0) \in Guards /\ Budgeted(Spend(g, 0))
    BY <1>3, SpendSteps
  <2>5. Inv(server, cl, t, Tail(c2s), s2c, Spend(g, 0))
    BY <1>7, <2>1, <2>3, <2>4, ServerReadsOn DEF HandshakeInv
  <2>6. QED
    BY <2>1, <2>2, <2>5 DEF HandshakeInv
<1>8. QED
  BY <1>6, <1>7

LEMMA ServerFlightMessageKeeps ==
    ASSUME HandshakeInv, ServerClientCertificate \/ ServerClientCertificateVerify
    PROVE  HandshakeInv'
<1> DEFINE F == {"err", "stage", "clientCert", "verified", "transcript", "delivered",
                "buffered", "queued"}
           x == Fail(sv, "unexpected_message")
           y == serverClientCertificate(sv, ClientMessage)
           z == serverClientCertificateVerify(sv, ClientMessage)
<1>1. Changes(sv, x, F) /\ Changes(sv, y, F) /\ Changes(sv, z, F)
  BY DEF Changes, Fail, Add, serverClientCertificate, serverClientCertificateVerify
<1>2. ServerTyped(sv) /\ x.err # None
  BY ServerFields DEF HandshakeInv, Inv, Shape, ServerTyped, Fail, None
<1>3. /\ sv.pc = "flight" /\ c2s # <<>> /\ c2s' = Tail(c2s)
      /\ Head(c2s).msg.typ \in {"Certificate", "CertificateVerify"}
  BY DEF ServerClientCertificate, ServerClientCertificateVerify, ServerFlightMessage,
     ServerReads
<1>4. server.clientAuth = "require" /\ sv.psk # None => sv.stage = "Finished"
  BY <1>3 DEF HandshakeInv, Inv, Authenticating
<1>5. CASE ServerClientCertificate
  <2> DEFINE s == IF sv.stage = "Certificate" THEN y ELSE x
  <2>1. ServerGoes(s, recordReceived(amp), <<>>)
    BY <1>5 DEF ServerClientCertificate, ServerFlightMessage,
       clientHandshakeStage_accept
  <2> HIDE DEF x, y
  <2>2. Changes(sv, s, F) /\ (s.err = None => ~(server.clientAuth = "require" /\ sv.psk # None))
    BY <1>1, <1>2, <1>4
  <2> HIDE DEF s
  <2>3. QED
    BY <1>3, <2>1, <2>2, ServerReading
<1>6. CASE ServerClientCertificateVerify
  <2> DEFINE s == IF sv.stage = "CertificateVerify" THEN z ELSE x
  <2>1. ServerGoes(s, recordReceived(amp), <<>>)
    BY <1>6 DEF ServerClientCertificateVerify, ServerFlightMessage,
       clientHandshakeStage_accept
  <2> HIDE DEF x, z
  <2>2. Changes(sv, s, F) /\ (s.err = None => ~(server.clientAuth = "require" /\ sv.psk # None))
    BY <1>1, <1>2, <1>4
  <2> HIDE DEF s
  <2>3. QED
    BY <1>3, <2>1, <2>2, ServerReading
<1>7. QED
  BY <1>5, <1>6

(* Early data is read with other keys than the client's flight.            *)
LEMMA ServerEarlyRecordKeeps == ASSUME HandshakeInv, ServerEarlyRecord PROVE HandshakeInv'
<1> DEFINE F == {"err", "stage", "clientCert", "verified", "transcript", "delivered",
                "buffered", "queued"}
           s == queueEarlyApplicationData(sv)
<1>1. /\ sv.pc = "flight" /\ c2s # <<>> /\ c2s' = Tail(c2s)
      /\ Head(c2s).key = EarlyKey(sv.psk, sv.body)
      /\ ServerGoes(s, recordReceived(amp), <<>>)
  BY DEF ServerEarlyRecord, ServerReads
<1>2. Head(c2s).key # sv.secret
  <2>1. "suite" \notin DOMAIN (EarlyKey(sv.psk, sv.body)[1])
    BY DEF EarlyKey
  <2>2. "suite" \in DOMAIN sv.secret[1]
    BY <1>1 DEF HandshakeInv, Inv, Flying
  <2>3. QED
    BY <1>1, <2>1, <2>2
<1>3. Changes(sv, s, F) /\ Changes(sv, s, {"err", "delivered", "buffered", "queued"})
  BY DEF Changes, queueEarlyApplicationData, Fail
<1> HIDE DEF s
<1>4. ServerTyped(sv)
  BY DEF HandshakeInv, Inv, Shape
<1>5. s.stage = sv.stage /\ s.clientCert = sv.clientCert
  BY <1>3, <1>4, ServerFields DEF Changes, ServerTyped
<1>6. server.clientAuth = "require" /\ sv.psk # None =>
         s.stage = "Finished" /\ s.clientCert # None
  BY <1>1, <1>5 DEF HandshakeInv, Inv, Authenticating
<1>7. QED
  BY <1>1, <1>2, <1>3, <1>6, ServerReading

LEMMA ServerIgnoresKeeps == ASSUME HandshakeInv, ServerIgnores PROVE HandshakeInv'
<1>1. /\ sv.pc \in {"hrr", "flight"} /\ c2s # <<>> /\ c2s' = Tail(c2s)
      /\ sv.pc = "hrr" => Head(c2s).msg.typ # "ClientHello"
      /\ sv.pc = "flight" => Head(c2s).key # sv.secret
      /\ ServerGoes(sv, recordReceived(amp), <<>>)
  BY DEF ServerIgnores, ServerReads
<1>2. sv.pc = "flight" /\ server.clientAuth = "require" /\ sv.psk # None =>
         sv.stage = "Finished" /\ sv.clientCert # None
  BY DEF HandshakeInv, Inv, Authenticating
<1>3. Changes(sv, sv, {"err", "stage", "clientCert", "verified", "transcript",
                       "delivered", "buffered", "queued"})
  BY DEF Changes
<1>4. QED
  BY <1>1, <1>2, <1>3, ServerReading

LEMMA ThreeChecks ==
    ASSUME NEW b1, NEW b2, NEW b3, NEW e1, NEW e2, NEW e3,
           e1 # None, e2 # None, e3 # None,
           FirstError(<< <<b1, e1>>, <<b2, e2>>, <<b3, e3>> >>) = None
    PROVE  ~b1 /\ ~b2 /\ ~b3
<1> DEFINE checks == << <<b1, e1>>, <<b2, e2>>, <<b3, e3>> >>
<1>1. /\ DOMAIN checks = {1, 2, 3}
      /\ checks[1] = <<b1, e1>> /\ checks[2] = <<b2, e2>> /\ checks[3] = <<b3, e3>>
  BY SMTT(30)
<1>2. FirstError(checks) = None
  OBVIOUS
<1> HIDE DEF checks
<1>3. checks[1][2] = e1 /\ checks[2][2] = e2 /\ checks[3][2] = e3
      /\ checks[1][1] = b1 /\ checks[2][1] = b2 /\ checks[3][1] = b3
  BY SMTT(30), <1>1
<1>4. \A i \in DOMAIN checks : checks[i][2] # None
  BY <1>1, <1>3
<1>5. \A i \in DOMAIN checks : ~checks[i][1]
  BY SMTT(30), <1>1, <1>2, <1>4, FirstErrorNone
<1>6. QED
  BY <1>1, <1>3, <1>5

(* A server that requires a certificate and has chosen no PSK checks both  *)
(* the certificate and the signature before it accepts the Finished.       *)
LEMMA ClientFinishedStep ==
    ASSUME NEW m, ServerTyped(sv), sv.err = None
    PROVE  LET s == serverClientFinished(sv, m)
           IN  /\ Changes(sv, s, {"err", "transcript"})
               /\ s.err = None /\ server.clientAuth = "require" /\ sv.psk = None =>
                     sv.clientCert # None /\ sv.verified
<1> DEFINE b1 == ~ServerUsingPSK(sv) /\ server.clientAuth = "require" /\ sv.clientCert = None
           b2 == ~ServerUsingPSK(sv) /\ sv.clientCert # None /\ ~sv.verified
           b3 == m # Finished(sv)
           checks == << <<b1, "certificate_required">>, <<b2, "unexpected_message">>,
                        <<b3, "decrypt_error">> >>
           s == serverClientFinished(sv, m)
<1>1. Changes(sv, s, {"err", "transcript"})
  BY DEF Changes, serverClientFinished, Fail, Add
<1>2. s.err = None => ClientFinishedError(sv, m) = None
  BY ServerFields DEF serverClientFinished, Fail, ServerTyped, None
<1>3. ClientFinishedError(sv, m) = FirstError(checks)
  BY DEF ClientFinishedError
<1>4. "certificate_required" # None /\ "unexpected_message" # None /\ "decrypt_error" # None
  BY DEF None
<1> HIDE DEF b1, b2, b3
<1>5. FirstError(checks) = None => ~b1 /\ ~b2
  BY <1>4, ThreeChecks
<1>6. FirstError(checks) = None /\ server.clientAuth = "require" /\ sv.psk = None =>
         sv.clientCert # None /\ sv.verified
  BY <1>5 DEF ServerUsingPSK, b1, b2
<1> HIDE DEF checks, s
<1>7. QED
  BY <1>1, <1>2, <1>3, <1>6 DEF s

LEMMA ServerClientFinishedKeeps ==
    ASSUME HandshakeInv, ServerClientFinished PROVE HandshakeInv'
<1> DEFINE m == Head(c2s).msg
           x == Fail(sv, "unexpected_message")
           y == serverClientFinished(sv, m)
           s == IF clientHandshakeStage_accept(sv, "Finished") THEN y ELSE x
           g == recordReceived(amp)
           f == serverFinalize(s)
           out == Protect(s, <<[typ |-> "ACK"]>>)
<1>1. /\ sv.pc = "flight" /\ c2s # <<>> /\ c2s' = Tail(c2s) /\ sv.err = None
      /\ cl.pc # "start" /\ IsList(c2s) /\ IsList(s2c) /\ ServerTyped(sv)
      /\ amp \in Guards /\ Budgeted(amp)
  BY DEF ServerClientFinished, ServerReads, HandshakeInv, Inv, Shape, Starting
<1>2. IsList(c2s')
  BY <1>1, ListTail
<1>3. IF s.err # None THEN ServerGoes(s, g, <<>>) ELSE ServerGoes(f, validate(g), out)
  BY DEF ServerClientFinished
<1>4. /\ g \in Guards /\ Budgeted(g)
      /\ validate(g) \in Guards /\ Budgeted(validate(g)) /\ validate(g).validated
  BY <1>1, GuardSteps
<1>5. /\ Changes(sv, s, {"err", "transcript"})
      /\ s.err = None /\ server.clientAuth = "require" /\ sv.psk = None =>
            sv.clientCert # None /\ sv.verified
  <2>1. Changes(sv, x, {"err", "transcript"}) /\ x.err # None
    BY <1>1, ServerFields DEF Changes, Fail, ServerTyped, None
  <2>2. /\ Changes(sv, y, {"err", "transcript"})
        /\ y.err = None /\ server.clientAuth = "require" /\ sv.psk = None =>
              sv.clientCert # None /\ sv.verified
    BY <1>1, ClientFinishedStep
  <2> HIDE DEF x, y
  <2>3. QED
    BY <2>1, <2>2
<1> HIDE DEF s, g
<1>6. ServerTyped(s)
  BY <1>1, <1>5, ServerKept
<1>7. CASE s.err # None
  BY <1>1, <1>2, <1>3, <1>4, <1>6, <1>7, ServerFailing
<1>8. CASE s.err = None
  <2>1. Changes(s, f, {"pc", "delivered", "buffered", "queued"}) /\ f.pc = "done"
    BY <1>6, ServerFields DEF Changes, ServerTyped, serverFinalize
  <2> HIDE DEF f
  <2>2. ServerTyped(f) /\ f.err = None /\ f.clientCert = sv.clientCert
        /\ f.verified = sv.verified /\ f.ticket = sv.ticket
    BY <1>1, <1>5, <1>6, <1>8, <2>1, ServerKept, ServerFields DEF Changes, ServerTyped
  <2>3. IsList(out) /\ Len(out) \in Nat
    <3>1. IsList(out)
      BY SingleList, ProtectList
    <3> HIDE DEF out
    <3>2. QED
      BY SMTT(30), <3>1 DEF IsList
  <2> HIDE DEF out
  <2> DEFINE t == ServerNext(f)
             b == Spend(validate(g), Len(out))
  <2>4. ServerGoes(f, validate(g), out)
    BY <1>3, <1>8
  <2>5. /\ sv' = t /\ Changes(f, t, {}) /\ ServerTyped(t)
        /\ s2c' = s2c \o out /\ IsList(s2c \o out)
        /\ sc' = sc /\ cl' = cl /\ amp' = b /\ server' = server
    BY <1>4, <2>2, <2>3, <2>4, ServerGoing
  <2>6. b \in Guards /\ Budgeted(b)
    BY <1>4, <2>3, SpendSteps DEF allowSend
  <2> HIDE DEF t, b
  <2>7. /\ t.pc = "done" /\ t.err = None /\ t.clientCert = sv.clientCert
        /\ t.verified = sv.verified /\ t.ticket = sv.ticket
    BY <2>1, <2>2, <2>5, ServerFields DEF Changes, ServerTyped
  <2>8. server.clientAuth = "require" =>
           /\ t.clientCert # None
           /\ t.verified \/ \E v \in Range(t.ticket) : v.authFresh
    BY <1>1, <1>5, <1>8, <2>7 DEF HandshakeInv, Inv, Authenticating
  <2>9. Inv(server, cl, t, c2s', s2c \o out, b)
    BY <1>1, <1>2, <2>5, <2>6, <2>7, <2>8, ServerStops DEF HandshakeInv
  <2>10. QED
    BY <2>5, <2>9 DEF HandshakeInv
<1>9. QED
  BY <1>7, <1>8

LEMMA ServerEarlyWriteKeeps == ASSUME HandshakeInv, ServerEarlyWrite PROVE HandshakeInv'
<1> DEFINE t == [sv EXCEPT !.early05 = 1]
<1>1. /\ sv.pc = "flight" /\ sv' = t
      /\ sv.hrrUsed \/ allowSend(amp, 1)
      /\ amp' = IF sv.hrrUsed THEN amp ELSE Spend(amp, 1)
      /\ sc' = sc /\ cl' = cl /\ c2s' = c2s /\ s2c' = s2c
  BY DEF ServerEarlyWrite
<1>2. amp \in Guards /\ Budgeted(amp)
  BY DEF HandshakeInv, Inv, Shape
<1>3. amp' \in Guards /\ Budgeted(amp')
  BY <1>1, <1>2, SpendSteps
<1>4. Changes(sv, t, {"early05", "queued"})
  BY DEF Changes
<1> HIDE DEF t
<1>5. Inv(server, cl, t, c2s, s2c, amp')
  BY <1>1, <1>3, <1>4, ServerWrites DEF HandshakeInv
<1>6. QED
  BY <1>1, <1>5 DEF HandshakeInv, server

LEMMA ServerEarlyReadKeeps == ASSUME HandshakeInv, ServerEarlyRead PROVE HandshakeInv'
<1> DEFINE t == [sv EXCEPT !.queued = @ - 1]
<1>1. /\ sv.pc = "flight" /\ sv' = t /\ amp' = amp
      /\ sc' = sc /\ cl' = cl /\ c2s' = c2s /\ s2c' = s2c
  BY DEF ServerEarlyRead
<1>2. amp \in Guards /\ Budgeted(amp)
  BY DEF HandshakeInv, Inv, Shape
<1>3. Changes(sv, t, {"early05", "queued"})
  BY DEF Changes
<1> HIDE DEF t
<1>4. Inv(server, cl, t, c2s, s2c, amp)
  BY <1>1, <1>2, <1>3, ServerWrites DEF HandshakeInv
<1>5. QED
  BY <1>1, <1>4 DEF HandshakeInv, server

LEMMA ServerRetransmitKeeps == ASSUME HandshakeInv, ServerRetransmit PROVE HandshakeInv'
<1> DEFINE t == [sv EXCEPT !.unsent = <<>>]
           b == Spend(amp, sc.flight)
<1>1. /\ sv.pc = "flight" /\ sv.unsent # <<>> /\ allowSend(amp, sc.flight)
      /\ ServerWritesFlight(sv, amp) /\ c2s' = c2s
  BY DEF ServerRetransmit
<1>2. amp \in Guards /\ Budgeted(amp) /\ sv.err = None /\ ServerTyped(sv) /\ sc \in Scenarios
  BY <1>1 DEF HandshakeInv, Inv, Shape
<1>3. sv' = t /\ s2c' = s2c \o sv.unsent /\ amp' = b /\ sc' = sc /\ cl' = cl
  BY <1>1, <1>2 DEF ServerWritesFlight
<1>4. b \in Guards /\ Budgeted(b)
  BY <1>1, <1>2, HandshakeAssumption, SpendSteps
<1>5. Changes(sv, t, {"unsent"}) /\ t.unsent = <<>>
  BY <1>2, ServerFields DEF Changes, ServerTyped
<1> HIDE DEF t, b
<1>6. Inv(server, cl, t, c2s, s2c \o sv.unsent, b)
  BY <1>1, <1>4, <1>5, ServerReleases DEF HandshakeInv
<1>7. QED
  BY <1>1, <1>3, <1>6 DEF HandshakeInv, server

(* An alert, or no answer.                                                 *)
LEMMA ServerGivesUp ==
    ASSUME HandshakeInv, ServerAlert \/ ServerTimeout
    PROVE  HandshakeInv'
<1>1. /\ ServerTyped(sv) /\ amp \in Guards /\ Budgeted(amp) /\ IsList(c2s) /\ IsList(s2c)
      /\ cl.pc = "start" => c2s = <<>> /\ sv.pc = "start"
      /\ sv.pc = "failed" <=> sv.err # None
  BY DEF HandshakeInv, Inv, Shape, Starting
<1>2. \A x \in {"peer_alert", "timeout"} : ServerTyped(Fail(sv, x)) /\ Fail(sv, x).err # None
  <2>1. SUFFICES ASSUME NEW x \in {"peer_alert", "timeout"}
                 PROVE  ServerTyped(Fail(sv, x)) /\ Fail(sv, x).err # None
    OBVIOUS
  <2>2. Changes(sv, Fail(sv, x), {"err"}) /\ Fail(sv, x).err = x
    BY <1>1, FailChanges, ServerFields DEF ServerTyped
  <2>3. QED
    BY <1>1, <2>2, ServerKept DEF None
<1>3. CASE ServerTimeout
  <2>1. ServerGoes(Fail(sv, "timeout"), amp, <<>>) /\ c2s' = c2s /\ cl.pc # "start"
    BY <1>3 DEF ServerTimeout, Stopped
  <2>2. IsList(c2s')
    BY <1>1, <2>1
  <2>3. QED
    BY <1>1, <1>2, <2>1, <2>2, ServerFailing
<1>4. CASE ServerAlert
  <2>1. /\ sv.pc \in {"flight", "done"} /\ c2s # <<>> /\ c2s' = Tail(c2s)
        /\ IF sv.pc = "done" THEN ServerGoes([sv EXCEPT !.pc = "closed"], amp, <<>>)
           ELSE ServerGoes(Fail(sv, "peer_alert"), amp, <<>>)
    BY <1>4 DEF ServerAlert, ServerReads
  <2>2. IsList(c2s') /\ cl.pc # "start"
    BY <1>1, <2>1, ListTail
  <2>3. CASE sv.pc # "done"
    BY <1>1, <1>2, <2>1, <2>2, <2>3, ServerFailing
  <2>4. CASE sv.pc = "done"
    <3> DEFINE s == [sv EXCEPT !.pc = "closed"]
               t == ServerNext(s)
    <3>1. Changes(sv, s, {"pc"}) /\ s.pc = "closed"
      BY <1>1, ServerFields DEF Changes, ServerTyped
    <3>2. ServerGoes(s, amp, <<>>)
      BY <2>1, <2>4
    <3> HIDE DEF s
    <3>3. ServerTyped(s) /\ s.err = None /\ s.clientCert = sv.clientCert
          /\ s.verified = sv.verified /\ s.ticket = sv.ticket
      BY <1>1, <2>4, <3>1, ServerKept, ServerFields DEF Changes, ServerTyped
    <3>4. /\ sv' = t /\ Changes(s, t, {}) /\ ServerTyped(t)
          /\ s2c' = s2c \o <<>> /\ IsList(s2c \o <<>>)
          /\ sc' = sc /\ cl' = cl /\ amp' = Spend(amp, 0) /\ server' = server
      BY <1>1, <3>2, <3>3, SingleList, ServerGoing
    <3> HIDE DEF t
    <3>5. /\ t.pc = "closed" /\ t.err = None /\ t.clientCert = sv.clientCert
          /\ t.verified = sv.verified /\ t.ticket = sv.ticket
      BY <3>1, <3>3, <3>4, ServerFields DEF Changes, ServerTyped
    <3>6. server.clientAuth = "require" =>
             /\ t.clientCert # None
             /\ t.verified \/ \E v \in Range(t.ticket) : v.authFresh
      BY <2>4, <3>5 DEF HandshakeInv, Inv, Authenticating
    <3>7. Spend(amp, 0) \in Guards /\ Budgeted(Spend(amp, 0))
      BY <1>1, SpendSteps
    <3>8. Inv(server, cl, t, c2s', s2c \o <<>>, Spend(amp, 0))
      BY <2>2, <3>4, <3>5, <3>6, <3>7, ServerStops DEF HandshakeInv
    <3>9. QED
      BY <3>4, <3>8 DEF HandshakeInv
  <2>5. QED
    BY <2>3, <2>4
<1>5. QED
  BY <1>3, <1>4

LEMMA HandshakeInvInit == Init => HandshakeInv
<1> SUFFICES ASSUME Init PROVE HandshakeInv
  OBVIOUS
<1>1. /\ sc \in Scenarios /\ cl = ClientInit /\ sv = ServerInit /\ c2s = <<>> /\ s2c = <<>>
      /\ amp = [received |-> 0, sent |-> 0, validated |-> FALSE]
  BY DEF Init
<1>2. /\ ClientTyped(cl) /\ cl.pc = "start" /\ cl.err = None
      /\ ServerTyped(sv) /\ sv.pc = "start" /\ sv.err = None /\ sv.hrrUsed
      /\ sv.psk = None /\ sv.ticket = <<>>
  BY <1>1, ClientFields, ServerInitTyped
<1>3. /\ amp \in Guards /\ Budgeted(amp)
      /\ amp.received = 0 /\ amp.sent = 0 /\ ~amp.validated
  BY SMTT(30), <1>1 DEF Guards, Budgeted
<1>4. IsList(c2s) /\ IsList(s2c)
  BY <1>1, SingleList
<1>5. Shape(cl, sv, c2s, s2c, amp)
  BY <1>2, <1>3, <1>4 DEF Shape
<1>6. Starting(cl, sv, c2s, s2c, amp) /\ Retrying(cl, sv, c2s, s2c)
      /\ Flying(cl, sv, c2s, s2c)
  BY <1>1, <1>2, <1>3 DEF Starting, Retrying, Flying
<1>7. Authenticating(server, sv)
  BY <1>2 DEF Authenticating
<1>8. QED
  BY <1>1, <1>3, <1>5, <1>6, <1>7 DEF HandshakeInv, Inv

LEMMA HandshakeInvNext == HandshakeInv /\ [Next]_vars => HandshakeInv'
<1> SUFFICES ASSUME HandshakeInv, [Next]_vars PROVE HandshakeInv'
  OBVIOUS
<1>1. ASSUME sc' = sc, cl' = cl, sv' = sv, c2s' = c2s, s2c' = s2c, amp' = amp
      PROVE  HandshakeInv'
  BY <1>1 DEF HandshakeInv, server
<1>2. CASE \/ ClientStart \/ ClientEarlyWrite \/ ClientHelloRetryRequest \/ ClientServerHello
           \/ ClientEncryptedExtensions \/ ClientCertificateRequest
           \/ ClientServerCertificate \/ ClientServerCertificateVerify
           \/ ClientServerFinished \/ ClientFinalACK \/ ClientAlert
           \/ ClientRetransmit \/ ClientTimeout
  BY <1>2, ClientStartKeeps, ClientEarlyWriteKeeps, ClientHelloRetryRequestKeeps,
     ClientServerHelloKeeps, ClientFlightKeeps, ClientServerFinishedKeeps,
     ClientFinalACKKeeps, ClientGivesUp, ClientRetransmitKeeps
<1>3. CASE \/ ServerReceiveClientHello \/ ServerReceiveSecondClientHello
           \/ ServerClientCertificate \/ ServerClientCertificateVerify
           \/ ServerClientFinished \/ ServerEarlyRecord \/ ServerEarlyRead
           \/ ServerEarlyWrite \/ ServerAlert \/ ServerIgnores \/ ServerRetransmit \/ ServerTimeout
  BY <1>3, ServerReceiveClientHelloKeeps, ServerReceiveSecondClientHelloKeeps,
     ServerFlightMessageKeeps, ServerClientFinishedKeeps, ServerEarlyRecordKeeps,
     ServerEarlyReadKeeps, ServerEarlyWriteKeeps, ServerGivesUp, ServerIgnoresKeeps, ServerRetransmitKeeps
<1>4. CASE Tick
  BY <1>1, <1>4 DEF Tick
<1>5. CASE OtherHandshake
  BY <1>1, <1>5 DEF OtherHandshake
<1>6. CASE Terminated
  BY <1>1, <1>6 DEF Terminated, vars
<1>7. CASE UNCHANGED vars
  BY <1>1, <1>7 DEF vars
<1>8. QED
  BY <1>2, <1>3, <1>4, <1>5, <1>6, <1>7 DEF Next

(* The invariant that the theorems below follow from.                      *)
THEOREM InvariantHolds == Spec => []HandshakeInv
<1>1. QED
  BY HandshakeInvInit, HandshakeInvNext, PTL DEF Spec

(* Whatever the configurations, an endpoint is failed exactly when it has  *)
(* an error, the early-data allowance never goes below zero, and the       *)
(* guard's counters are numbers.                                           *)
THEOREM TypeIsKept == Spec => []TypeOK
<1>1. HandshakeInv => TypeOK
  BY DEF HandshakeInv, Inv, Shape, ClientTyped, ServerTyped, EarlyStates, Guards,
     TypeOK
<1>2. QED
  BY <1>1, InvariantHolds, PTL

(* Whatever the configurations, two running endpoints never both wait: the *)
(* message one of them needs is in flight, or its flight is held back by   *)
(* amplificationConn.Write and the client is still repeating its hello.    *)
THEOREM SomeoneAlwaysMoves == Spec => []SomeoneCanMove
<1>1. HandshakeInv => SomeoneCanMove
  BY DEF HandshakeInv, Inv, Shape, Starting, Retrying, Flying, EndsIn, SomeoneCanMove,
     Stopped
<1>2. QED
  BY <1>1, InvariantHolds, PTL

(* A server that requires client certificates (serverClientFinished,       *)
(* acceptPSK) never completes with a client it has not authenticated now   *)
(* or when it issued the ticket that is resumed.                           *)
THEOREM ClientIsAuthenticated == Spec => []ClientAuthenticated
<1>1. HandshakeInv => ClientAuthenticated
  BY DEF HandshakeInv, Inv, Authenticating, ClientAuthenticated
<1>2. QED
  BY <1>1, InvariantHolds, PTL

(* For every size of the flight and every exchange, the server sends an    *)
(* address it has not validated at most three times what it received, and  *)
(* what amplificationGuard.allowSend refuses stays with the server.        *)
THEOREM AmplificationIsBounded == Spec => []AmplificationRespected
<1>1. HandshakeInv => AmplificationRespected
  BY DEF HandshakeInv, Inv, Budgeted, Flying, EndsIn, AmplificationRespected
<1>2. QED
  BY <1>1, InvariantHolds, PTL
==============================================================================
