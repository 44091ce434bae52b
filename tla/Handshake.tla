------------------------------ MODULE Handshake ------------------------------
(***************************************************************************)
(* The DTLS 1.3 handshake of one client and one server                     *)
(* (handshake_client.go, handshake_server.go, handshake_common.go,         *)
(* handshake_driver.go), for every pair of configurations in Scenarios:    *)
(* HelloRetryRequest and its cookie, PSK resumption and external PSKs,     *)
(* early data, encrypted ClientHello, certificate types, client            *)
(* authentication, the extensions that are negotiated on the way, the      *)
(* alerts a failure sends, and the amplification limit of a server that    *)
(* has not validated its client's address.                                 *)
(*                                                                         *)
(* Delivery is reliable and in order: loss, duplication, reordering and    *)
(* fragments are module HandshakeFlight's.  Here a datagram is one         *)
(* message with the key that protects it.  Keys, binders, signatures and   *)
(* Finished values are the records of what they are computed from, so that *)
(* two ends that disagree on any input compute different values.           *)
(***************************************************************************)
EXTENDS Negotiation, Integers

CONSTANTS
    Scenarios,   \* records [client, server, flight, delay]: two configurations,
                 \* the size of a PSK flight in ClientHellos, and how long the
                 \* clock may run before the second ClientHello arrives
    Lifetime     \* life of a cookie, in ticks

(* The early data allowance of a session is an unsigned number             *)
(* (session.go:220), and a Config that combines external PSKs with client   *)
(* authentication is refused (config.go:557).                              *)
ASSUME HandshakeAssumption ==
    /\ Lifetime \in Nat \ {0}
    /\ \A x \in Scenarios :
          /\ x.flight \in Nat \ {0} /\ x.delay \in Nat
          /\ x.client.session # <<>> => x.client.session[1].early \in Nat
          /\ x.server.clientAuth # "none" => x.server.psks = <<>>

VARIABLES
    sc,          \* the scenario: the two configurations
    cl,          \* clientHandshakeState and the client's Conn
    sv,          \* serverHandshakeState and the server's Conn
    c2s, s2c,    \* datagrams in flight
    amp,         \* amplificationGuard
    protector,   \* cookieProtector, shared by the server's connections
    now          \* the server's clock

vars == <<sc, cl, sv, c2s, s2c, amp, protector, now>>
client == sc.client
server == sc.server

-----------------------------------------------------------------------------
(* Steps that can fail: each Go step returns an error or goes on.          *)
Fail(s, alert) == [s EXCEPT !.err = alert]
Then(s, Step(_)) == IF s.err # None THEN s ELSE Step(s)

(* The first check that fails decides the alert.                           *)
FirstError(checks) ==
    LET failed == {i \in DOMAIN checks : checks[i][1]}
    IN  IF failed = {} THEN None ELSE checks[Min(failed)][2]

(* outboundAlert and runHandshake's deferred sender: an error without an   *)
(* alert of its own is only reported under handshake keys; a peer's alert, *)
(* a timeout or a closed connection is not reported at all.                *)
Unreported == {"peer_alert", "timeout"}
Unannotated == {"protocol_error", "general_error"}
AlertOf(s) ==
    IF \/ s.err \in Unreported
       \/ s.secret = <<>> /\ s.err \in Unannotated
    THEN <<>>
    ELSE <<[key |-> s.secret, msg |-> [typ |-> "Alert", alert |-> s.err]]>>

Plain(m) == [key |-> <<>>, msg |-> m]
Protect(s, messages) ==
    [i \in DOMAIN messages |-> [key |-> s.secret, msg |-> messages[i]]]
CH(body) == [typ |-> "ClientHello", hello |-> body]

(* transcriptHash.add: what a hash over the messages so far depends on.    *)
(* The values of CertificateVerify and Finished depend on nothing new.     *)
Add(s, m) ==
    [s EXCEPT !.transcript = Append(@,
        IF m.typ \in {"CertificateVerify", "Finished"}
        THEN [typ |-> m.typ] ELSE m)]

(* The confirmation is computed over the message with zeros in its place.  *)
Zeros == <<[random |-> None, over |-> <<>>]>>
echAcceptConfirmation(random, transcript, m) ==
    <<[random |-> random, over |-> Append(transcript, m)]>>

-----------------------------------------------------------------------------
(* The client: from the configuration to the first ClientHello.            *)
ClientInit ==
    [pc |-> "start", err |-> None, hello |-> <<>>, inner |-> <<>>,
     body |-> <<>>, innerBody |-> <<>>, offers |-> <<>>, session |-> <<>>,
     wire |-> <<>>, early |-> "none", remaining |-> 0, written |-> 0,
     retrySuite |-> None, acceptedAtHRR |-> FALSE, ech |-> "none",
     transcript |-> <<>>, innerTranscript |-> <<>>, secret |-> <<>>,
     suite |-> None, group |-> None, index |-> 0, psk |-> <<>>, cids |-> <<>>,
     rrc |-> FALSE, alpn |-> None, meta |-> FALSE, serverType |-> "x509",
     clientType |-> "x509", typeSelected |-> FALSE, limit |-> <<>>,
     limits |-> <<>>, earlyAccepted |-> FALSE, request |-> FALSE, peer |-> None,
     verified |-> FALSE, stage |-> "EncryptedExtensions",
     sentCert |-> None, finalized |-> FALSE]

(* clientMarshalHello: GREASE is part of the hello; a real encrypted hello *)
(* keeps the inner one and puts an outer one on the wire.                  *)
PlainHello(hello) ==
    [hello EXCEPT !.ech = IF client.ech = "grease" THEN generateGREASEECH ELSE NoECH]
InnerHello(hello) == [hello EXCEPT !.ech = InnerECH]
OuterHello(hello) ==
    computeOuterECH(makeECHOuter(InnerHello(hello)), InnerHello(hello),
                    client.echConfig, TRUE)
clientMarshalHello(c, hello) ==
    IF client.ech # "real"
    THEN [c EXCEPT !.hello = <<PlainHello(hello)>>,
                   !.body = <<marshal(PlainHello(hello))>>,
                   !.wire = <<marshal(PlainHello(hello))>>]
    ELSE [c EXCEPT !.inner = <<InnerHello(hello)>>,
                   !.innerBody = <<marshal(InnerHello(hello))>>,
                   !.hello = <<OuterHello(hello)>>,
                   !.body = <<marshal(OuterHello(hello))>>,
                   !.wire = <<marshal(OuterHello(hello))>>]

(* clientSendEarlyData: epoch-1 keys are installed as soon as the hello    *)
(* has advertised early data.                                              *)
clientSendEarlyData(c) ==
    IF ~c.hello[1].early THEN c
    ELSE [c EXCEPT !.early = "pending", !.remaining = c.session[1].early]

EarlyKey(psk, body) == <<[psk |-> psk, over |-> body]>>

clientStart(c) ==
    IF \/ client.meta /\ client.ech # "real"
       \/ client.serverTypes = <<"raw">> /\ ~client.verifiesRaw
    THEN Fail(c, "general_error")
    ELSE clientSendEarlyData(
            clientMarshalHello(
                [c EXCEPT !.session = usableClientSession(client),
                          !.offers  = pskOffers(client)],
                clientPrepareHello(client)))

(* clientHandleHelloRetryRequest: what the second hello offers of the PSKs *)
(* of the first.                                                           *)
SecondIdentities_StaleBinders(c, base, rejected, offers, suite, prior) ==
    IF ~rejected /\ offers # <<>> THEN IdentitiesOf(offers, <<>>) ELSE base.ids
SecondIdentities(c, base, rejected, offers, suite, prior) ==
    IF rejected THEN base.ids
    ELSE IF offers # <<>> THEN IdentitiesOf(offers, prior)
    ELSE IF /\ c.session # <<>> /\ base.ids # <<>>
            /\ HashOf[c.session[1].suite] = HashOf[suite]
         THEN IdentitiesOf(TicketOffers(c.session), prior)
         ELSE <<>>

RetryAccepted(c, raw) ==
    LET m == parseHelloRetryRequest(raw).m
    IN  /\ c.inner # <<>> /\ m.confirmation # <<>>
        /\ m.confirmation = echAcceptConfirmation(
              c.inner[1].random, <<CH(c.innerBody)>>,
              marshalHelloRetryRequest([m EXCEPT !.confirmation = Zeros]))
RetryRejected(c, raw) == c.inner # <<>> /\ ~RetryAccepted(c, raw)

(* The messages before the second hello, and the hello it starts from.     *)
RetryPrior(c, raw) ==
    <<CH(IF RetryAccepted(c, raw) THEN c.innerBody ELSE c.body), raw>>
RetryBase(c, raw) ==
    [(IF RetryAccepted(c, raw) THEN c.inner[1] ELSE c.hello[1]) EXCEPT !.early = FALSE]
RetryOffers(c, raw) ==
    filterPSKOffersByHash(c.offers, HashOf[parseHelloRetryRequest(raw).m.suite])

SecondHello(c, raw) ==
    LET m    == parseHelloRetryRequest(raw).m
        base == RetryBase(c, raw)
    IN  [base EXCEPT
            !.cookie = m.cookie,
            !.shares = IF m.group = None THEN @ ELSE <<[group |-> m.group, key |-> 2]>>,
            !.ids = SecondIdentities(c, base, RetryRejected(c, raw), RetryOffers(c, raw),
                                     m.suite, RetryPrior(c, raw))]
SecondWire(c, raw) ==
    LET second == SecondHello(c, raw)
    IN  IF ~RetryAccepted(c, raw) THEN second
        ELSE computeOuterECH([c.hello[1] EXCEPT !.cookie = second.cookie, !.early = FALSE,
                                                !.shares = second.shares],
                             second, client.echConfig, FALSE)

HelloRetryError(c, raw) ==
    LET parsed == parseHelloRetryRequest(raw)
        m      == parsed.m
        base   == RetryBase(c, raw)
    IN  FirstError(<<
            <<parsed.error # None, parsed.error>>,
            <<~Has(c.hello[1].suites, m.suite), "protocol_error">>,
            <<c.inner = <<>> /\ m.confirmation # <<>> /\ client.ech # "grease",
              "unsupported_extension">>,
            <<m.group # None /\ (\/ ~Has(base.groups, m.group)
                                 \/ \E s \in Range(base.shares) : s.group = m.group),
              "illegal_parameter">> >>)

clientHandleHelloRetryRequest(c, raw) ==
    LET accepted   == RetryAccepted(c, raw)
        second     == SecondHello(c, raw)
        transcript == Append(RetryPrior(c, raw), CH(<<marshal(second)>>))
    IN  IF HelloRetryError(c, raw) # None THEN Fail(c, HelloRetryError(c, raw))
        ELSE [c EXCEPT
                !.pc = "second",
                !.early = IF c.hello[1].early THEN "rejected" ELSE @,
                !.remaining = 0,
                !.retrySuite = parseHelloRetryRequest(raw).m.suite,
                !.acceptedAtHRR = accepted,
                !.ech = IF RetryRejected(c, raw) THEN "rejected" ELSE @,
                !.inner = IF accepted THEN <<second>> ELSE @,
                !.innerBody = IF accepted THEN <<marshal(second)>> ELSE @,
                !.hello = <<second>>,
                !.body = <<marshal(second)>>,
                !.wire = <<marshal(SecondWire(c, raw))>>,
                !.offers = RetryOffers(c, raw),
                !.transcript = transcript,
                !.innerTranscript = IF accepted THEN transcript ELSE <<>>]

(* clientConfirmECH: the confirmation in ServerHello decides which hello   *)
(* the handshake is about.                                                 *)
InnerTranscript(c) ==
    IF c.innerTranscript # <<>> THEN c.innerTranscript ELSE <<CH(c.innerBody)>>
Confirmed(c, raw) ==
    raw.confirmation = echAcceptConfirmation(c.inner[1].random, InnerTranscript(c),
                                             [raw EXCEPT !.confirmation = Zeros])
clientConfirmECH(c, raw) ==
    IF c.inner = <<>> \/ c.ech = "rejected" THEN c
    ELSE IF Confirmed(c, raw)
    THEN [c EXCEPT !.ech = "accepted", !.hello = c.inner, !.body = c.innerBody,
                   !.transcript = InnerTranscript(c)]
    ELSE IF c.acceptedAtHRR THEN Fail(c, "illegal_parameter")
    ELSE [c EXCEPT !.ech = "rejected"]

(* The PSK a selected identity names, if it names one.                     *)
SelectedOffer(c, index) ==
    IF index = 0 THEN <<>>
    ELSE IF c.offers = <<>> /\ index = 1 THEN TicketOffers(c.session)
    ELSE IF index <= Len(c.offers) THEN <<c.offers[index]>> ELSE <<>>

ServerHelloError(c, sh) ==
    LET hello == c.hello[1]
        offer == SelectedOffer(c, sh.index)
    IN  FirstError(<<
            <<~Has(hello.suites, sh.suite), "protocol_error">>,
            <<c.retrySuite # None /\ sh.suite # c.retrySuite, "illegal_parameter">>,
            <<sh.cid # <<>> /\ hello.cid = <<>>, "unsupported_extension">>,
            <<sh.rrc /\ ~hello.rrc, "unsupported_extension">>,
            <<sh.rrc /\ sh.cid = <<>>, "illegal_parameter">>,
            <<c.ech = "rejected" /\ sh.index # 0, "illegal_parameter">>,
            <<sh.index # 0 /\ offer = <<>>, "protocol_error">>,
            <<offer # <<>> /\ \E o \in Range(offer) : o.hash # HashOf[sh.suite],
              "protocol_error">>,
            <<\A s \in Range(hello.shares) : s.group # sh.group,
              "illegal_parameter">> >>)
clientValidateServerHello(c, sh) ==
    IF ServerHelloError(c, sh) # None THEN Fail(c, ServerHelloError(c, sh))
    ELSE [c EXCEPT !.suite = sh.suite, !.group = sh.group, !.index = sh.index,
                   !.psk = SelectedOffer(c, sh.index),
                   !.cids = IF sh.cid # <<>> THEN <<c.hello[1].cid, sh.cid>> ELSE <<>>,
                   !.rrc = sh.rrc]

(* The handshake traffic secrets: PSK, shared secret and transcript.       *)
HandshakeSecret(suite, psk, group, key, transcript) ==
    <<[suite |-> suite, psk |-> psk, group |-> group, key |-> key,
       over |-> transcript]>>

ClientTranscript(c, raw) ==
    Append(IF c.transcript = <<>> THEN <<CH(c.body)>> ELSE c.transcript, raw)
ShareKey(hello, group) == (CHOOSE s \in Range(hello.shares) : s.group = group).key
clientDeriveHandshakeKeys(c, sh, raw) ==
    [c EXCEPT !.pc = "flight", !.transcript = ClientTranscript(c, raw), !.remaining = 0,
              !.secret = HandshakeSecret(sh.suite,
                             IF c.psk = <<>> THEN None ELSE c.psk[1].id, sh.group,
                             ShareKey(c.hello[1], sh.group), ClientTranscript(c, raw))]

clientServerHello(c, raw) ==
    LET parsed == parseServerHello(raw)
    IN  IF parsed.error # None THEN Fail(c, parsed.error)
        ELSE Then(Then(clientConfirmECH(c, raw),
                       LAMBDA s : clientValidateServerHello(s, parsed.m)),
                  LAMBDA s : clientDeriveHandshakeKeys(s, parsed.m, raw))

(* The server's encrypted flight, message by message.                      *)
UsingPSK(c) == c.psk # <<>>

serverHandshakeStage_accept(c, typ) ==
    CASE c.stage = "EncryptedExtensions" /\ typ = "EncryptedExtensions" ->
            IF UsingPSK(c) THEN "Finished" ELSE "RequestOrCertificate"
      [] c.stage = "RequestOrCertificate" /\ typ = "CertificateRequest" -> "Certificate"
      [] c.stage \in {"RequestOrCertificate", "Certificate"} /\ typ = "Certificate" ->
            "CertificateVerify"
      [] c.stage = "CertificateVerify" /\ typ = "CertificateVerify" -> "Finished"
      [] c.stage = "Finished" /\ typ = "Finished" -> "complete"
      [] OTHER -> None

Staged(c, m) ==
    LET next == serverHandshakeStage_accept(c, m.typ)
    IN  IF next = None THEN Fail(c, "unexpected_message")
        ELSE [c EXCEPT !.stage = next]

(* validateEncryptedExtensions: every answer needs its offer.              *)
validateEncryptedExtensions(hello, ee) ==
    FirstError(<<
        <<ee.alpn # None /\ hello.alpn = <<>>, "unsupported_extension">>,
        <<ee.alpn # None /\ ~Has(hello.alpn, ee.alpn), "no_application_protocol">>,
        <<ee.early /\ ~hello.early, "unsupported_extension">>,
        <<ee.limit # 0 /\ hello.limit = 0, "unsupported_extension">>,
        <<ee.retry /\ hello.ech.typ = "none", "unsupported_extension">>,
        <<ee.tickets # <<>> /\ hello.tickets = <<>>, "unsupported_extension">>,
        <<ee.meta /\ ~hello.meta, "unsupported_extension">>,
        <<ee.serverType # <<>> /\ hello.serverTypes = <<>>, "unsupported_extension">>,
        <<\E t \in Range(ee.serverType) : ~Has(hello.serverTypes, t),
          "illegal_parameter">>,
        <<ee.clientType # <<>> /\ hello.clientTypes = <<>>, "unsupported_extension">>,
        <<\E t \in Range(ee.clientType) : ~Has(hello.clientTypes, t),
          "illegal_parameter">> >>)

TypeOf(selected) == IF selected = <<>> THEN "x509" ELSE selected[1]

Smaller(a, b) == IF a < b THEN a ELSE b
Requested(request, resumed) == IF resumed THEN request[1].resumption ELSE request[1].new
Resumed(c) == UsingPSK(c) /\ c.psk[1].session # <<>>

(* markEarlyDataRejected, unless EncryptedExtensions accept the offer.     *)
EarlyStatusAfter_Forgotten(c, ee) == c.early
EarlyStatusAfter(c, ee) ==
    IF c.hello[1].early /\ ~ee.early THEN "rejected" ELSE c.early

EncryptedExtensionsError(c, raw) ==
    LET hello  == c.hello[1]
        parsed == parseEncryptedExtensions(raw)
        ee     == parsed.m
    IN  FirstError(<<
            <<parsed.error # None, parsed.error>>,
            <<validateEncryptedExtensions(hello, ee) # None,
              validateEncryptedExtensions(hello, ee)>>,
            <<c.ech = "accepted" /\ client.meta /\ ~ee.meta, "missing_extension">>,
            <<ee.meta /\ c.ech # "accepted", "illegal_parameter">>,
            <<~UsingPSK(c) /\ c.ech # "rejected"
                 /\ ~supportsCertificateType(client.serverTypes, TypeOf(ee.serverType)),
              "unsupported_certificate">>,
            <<ee.retry /\ c.ech = "accepted", "unsupported_extension">>,
            <<ee.early /\ c.index # 1, "illegal_parameter">> >>)
TicketLimit(c, ee) ==
    IF ee.tickets = <<>> THEN <<>>
    ELSE <<Smaller(ee.tickets[1], Requested(c.hello[1].tickets, Resumed(c)))>>
clientEncryptedExtensions(c, raw) ==
    LET ee == parseEncryptedExtensions(raw).m
    IN  IF EncryptedExtensionsError(c, raw) # None
        THEN Fail(c, EncryptedExtensionsError(c, raw))
        ELSE Add([c EXCEPT
                !.alpn = ee.alpn, !.meta = ee.meta,
                !.serverType = TypeOf(ee.serverType),
                !.clientType = TypeOf(ee.clientType),
                !.typeSelected = ee.clientType # <<>>,
                !.limit = TicketLimit(c, ee),
                !.earlyAccepted = ee.early,
                !.limits = IF ee.limit = 0 THEN @ ELSE <<client.limit, ee.limit>>,
                !.early = EarlyStatusAfter(c, ee)], raw)

clientCertificateRequest(c, m) == Add([c EXCEPT !.request = TRUE], m)

(* A rejected encrypted hello is authenticated by the public name alone.   *)
ServerCertificateError(c, m) ==
    FirstError(<<
        <<c.serverType = "raw" /\ c.ech = "rejected", "bad_certificate">>,
        <<c.serverType = "raw" /\ ~client.verifiesRaw, "bad_certificate">>,
        <<c.serverType = "x509"
             /\ (IF c.ech = "rejected" THEN "public" ELSE client.name) \notin m.names,
          "bad_certificate">> >>)
clientServerCertificate(c, m) ==
    IF ServerCertificateError(c, m) # None THEN Fail(c, ServerCertificateError(c, m))
    ELSE Add([c EXCEPT !.peer = m.cert], m)

clientServerCertificateVerify(c, m) ==
    IF m.over # c.transcript THEN Fail(c, "decrypt_error")
    ELSE Add([c EXCEPT !.verified = TRUE], m)

Finished(s) == [typ |-> "Finished", over |-> <<s.secret, s.transcript>>]

ServerFinishedError(c, m) ==
    FirstError(<<
        <<~UsingPSK(c) /\ (c.peer = None \/ ~c.verified), "protocol_error">>,
        <<m # Finished(c), "decrypt_error">>,
        <<c.typeSelected /\ ~c.request /\ ~c.hello[1].pha, "illegal_parameter">> >>)
clientServerFinished(c, m) ==
    IF ServerFinishedError(c, m) # None THEN Fail(c, ServerFinishedError(c, m))
    ELSE Add([c EXCEPT !.early = IF c.earlyAccepted THEN "accepted" ELSE @], m)

(* selectClientCertificate: the one of the negotiated type, if there is    *)
(* one; never on a connection whose encrypted hello was rejected.          *)
selectClientCertificate(c) ==
    IF /\ c.ech # "rejected"
       /\ supportsCertificateType(client.clientTypes, c.clientType)
       /\ c.clientType \in client.certs
    THEN c.clientType ELSE None

(* buildCertificateMessages: a signature follows a non-empty Certificate.  *)
CertificateMessages(s, cert, names) ==
    LET m     == [typ |-> "Certificate", cert |-> cert, names |-> names]
        after == Add(s, m)
        cv    == [typ |-> "CertificateVerify", over |-> after.transcript]
    IN  IF cert = None THEN [state |-> after, out |-> <<m>>]
        ELSE [state |-> Add(after, cv), out |-> <<m, cv>>]

clientSendAuthAndFinished(c) ==
    LET cert == selectClientCertificate(c)
        auth == IF c.request THEN CertificateMessages(c, cert, {})
                ELSE [state |-> c, out |-> <<>>]
    IN  [state |-> [Add(auth.state, Finished(auth.state)) EXCEPT
                       !.pc = "ack",
                       !.sentCert = IF c.request THEN cert ELSE None],
         out |-> Append(auth.out, Finished(auth.state))]

(* clientFinalize, which early-data I/O runs before the final ACK.         *)
clientFinalize(c) ==
    IF c.finalized THEN c
    ELSE IF c.ech = "rejected" THEN Fail(c, "ech_required")
    ELSE [c EXCEPT !.finalized = TRUE]
clientAwaitFinalACK(c) ==
    IF client.earlyIO /\ c.ech # "rejected" THEN clientFinalize(c) ELSE c

-----------------------------------------------------------------------------
(* The server.                                                             *)
ServerInit ==
    [pc |-> "start", err |-> None, outer |-> <<>>, ch |-> <<>>, body |-> <<>>,
     initial |-> <<>>, initialBody |-> <<>>, limits |-> <<>>, ech |-> "none", suite |-> None, hrrUsed |-> TRUE,
     hrr |-> <<>>, requestedGroup |-> None, share |-> <<>>, alpn |-> None,
     psk |-> None, index |-> 0, ticket |-> <<>>, early |-> FALSE,
     earlyStatus |-> "none", cids |-> <<>>, rrc |-> FALSE, serverType |-> "x509",
     clientType |-> "x509", typeNegotiated |-> FALSE, meta |-> FALSE,
     tickets |-> 0, transcript |-> <<>>, secret |-> <<>>, unsent |-> <<>>,
     ready |-> FALSE, stage |-> "Finished", clientCert |-> None,
     verified |-> FALSE, buffered |-> 0, delivered |-> 0, queued |-> 0,
     early05 |-> 0, age |-> 0]

serverReceiveClientHello(s, body) ==
    LET parsed == parseClientHello(body[1])
    IN  IF parsed.error # None THEN Fail(s, parsed.error)
        ELSE IF parsed.m.meta THEN Fail(s, "illegal_parameter")
        ELSE [s EXCEPT !.outer = <<parsed.m>>, !.ch = <<parsed.m>>, !.body = body]

serverProcessECH(s) ==
    LET hello == s.outer[1]
        inner == parseClientHello(hello.ech.inner[1])
    IN  IF ~processECHClientHello(hello, server.echKeys)
        THEN [s EXCEPT !.ech = IF hello.ech.typ = "outer" THEN "rejected" ELSE "none"]
        ELSE IF inner.error # None THEN Fail(s, inner.error)
        ELSE [s EXCEPT !.ech = "accepted", !.ch = <<inner.m>>,
                       !.body = hello.ech.inner]

serverSelectInitial(s) ==
    LET suite == selectServerCipherSuite(server, s.ch[1])
    IN  IF suite = None THEN Fail(s, "handshake_failure")
        ELSE [s EXCEPT !.initial = s.ch, !.initialBody = s.body, !.suite = suite]

applyPSKSelection(s, selection) ==
    [s EXCEPT !.psk = selection.psk, !.index = selection.index,
              !.ticket = selection.ticket, !.early = selection.early]

serverTryEarlyDataWithoutCookie(s) ==
    LET ch        == s.ch[1]
        protocol  == negotiateALPN(server.alpn, ch.alpn)
        candidate == acceptPSK(server, ch, s.suite, protocol, <<>>)
    IN  IF \/ ~server.allowEarly \/ ~ch.early \/ ch.ids = <<>>
           \/ selectKeyShare(server.groups, ch.shares) = None
           \/ protocol = NoProtocol
        THEN s
        ELSE IF ~candidate.binderOK THEN Fail(s, "decrypt_error")
        ELSE IF candidate.ticket # <<>>
        THEN [applyPSKSelection(s, candidate) EXCEPT !.hrrUsed = FALSE]
        ELSE s

ServerFirstHello(s, body) ==
    Then(Then(Then(serverReceiveClientHello(s, body), serverProcessECH),
              serverSelectInitial),
         serverTryEarlyDataWithoutCookie)

(* serverCookieExchange without a cookie, and serverRenegotiateAfterHRR.   *)
SelectShareAndProtocol(s) ==
    LET group    == selectKeyShare(server.groups, s.ch[1].shares)
        protocol == negotiateALPN(server.alpn, s.ch[1].alpn)
    IN  IF group = None THEN Fail(s, "handshake_failure")
        ELSE IF protocol = NoProtocol THEN Fail(s, NoProtocol)
        ELSE [s EXCEPT !.alpn = protocol,
                       !.share = SelectSeq(s.ch[1].shares,
                                           LAMBDA x : x.group = group)]

serverRenegotiateAfterHRR(s) ==
    LET suite == selectServerCipherSuite(server, s.ch[1])
        next  == SelectShareAndProtocol([s EXCEPT !.suite = suite])
    IN  IF suite = None THEN Fail(s, "handshake_failure")
        ELSE Then(next, LAMBDA t :
                LET selection == acceptPSK(server, t.ch[1], suite, t.alpn,
                                           <<CH(s.initialBody), s.hrr[1]>>)
                IN  IF ~selection.binderOK THEN Fail(t, "decrypt_error")
                    ELSE IF selection.found THEN applyPSKSelection(t, selection)
                    ELSE [t EXCEPT !.early = FALSE])

(* The group a HelloRetryRequest asks for, if no share fits.               *)
RetryGroup(s) ==
    IF selectKeyShare(server.groups, s.ch[1].shares) # None THEN None
    ELSE FirstOf(server.groups, LAMBDA g : Has(s.ch[1].groups, g))
RetryMessage(s, cookie) ==
    LET zero == [suite |-> s.suite, cookie |-> cookie, group |-> RetryGroup(s),
                 confirmation |-> IF s.ech = "accepted" THEN Zeros ELSE <<>>]
    IN  IF s.ech # "accepted" THEN marshalHelloRetryRequest(zero)
        ELSE marshalHelloRetryRequest(
                [zero EXCEPT !.confirmation = echAcceptConfirmation(s.ch[1].random,
                    <<CH(s.body)>>, marshalHelloRetryRequest(zero))])
serverSendHelloRetryRequest(s, cookie) ==
    IF RetryGroup(s) = None /\ selectKeyShare(server.groups, s.ch[1].shares) = None
    THEN Fail(s, "handshake_failure")
    ELSE [s EXCEPT !.pc = "hrr", !.hrr = <<RetryMessage(s, cookie)>>,
                   !.requestedGroup = RetryGroup(s),
                   !.earlyStatus = IF s.ch[1].early THEN "rejected" ELSE @]

(* cookieProtector: at most one rotation per call, when the current key is *)
(* half a lifetime old; a cookie opens under the current or previous key.  *)
rotateIfNeeded(p, time) ==
    IF 2 * (time - p.rotated) < Lifetime THEN p
    ELSE [id |-> p.id + 1, rotated |-> time]
seal(p, time, hello) == [id |-> p.id, at |-> time, hello |-> hello]
opens(p, time, cookie) ==
    /\ cookie.id \in {p.id, p.id - 1}
    /\ time - cookie.at <= Lifetime

serverReceiveSecondClientHello(s, wire) ==
    LET outer  == parseClientHello(wire[1])
        ech    == IF s.ech = "accepted"
                  THEN secondECHError(s.outer[1], outer.m) ELSE None
        body   == IF s.ech = "accepted" THEN outer.m.ech.inner ELSE wire
        inner  == parseClientHello(body[1])
        second == inner.m
        p      == rotateIfNeeded(protector, now)
    IN  IF outer.error # None THEN Fail(s, outer.error)
        ELSE IF outer.m.meta THEN Fail(s, "illegal_parameter")
        ELSE IF ech # None THEN Fail(s, ech)
        ELSE IF inner.error # None THEN Fail(s, inner.error)
        ELSE IF ~equalClientHelloAfterHRR(s.initial[1], second, s.requestedGroup)
        THEN Fail(s, "protocol_error")
        ELSE IF ~removedPSKsAreIncompatible(server, s.initial[1], second, s.suite)
        THEN Fail(s, "illegal_parameter")
        ELSE LET cookie == second.cookie[1]
                 t == [s EXCEPT !.age = now - cookie.at]
             IN  IF ~opens(p, now, cookie) \/ cookie.hello # s.initialBody
                 THEN Fail(t, "illegal_parameter")
                 ELSE [t EXCEPT !.ch = <<second>>, !.body = body]

ServerUsingPSK(s) == s.psk # None
requestsClientCertificate(s) == ~ServerUsingPSK(s) /\ server.clientAuth # "none"

(* serverNegotiateExtensionsAndKeyShare.                                   *)
ServerCertTypes == server.certs
ClientCertTypes == {"x509"} \cup IF server.verifiesRaw THEN {"raw"} ELSE {}

serverNegotiateExtensionsAndKeyShare(s) ==
    LET ch == s.ch[1]
        wanted == server.clientAuth # "none" /\ (~ServerUsingPSK(s) \/ ch.pha)
        clientType == selectCertificateType(ch.clientTypes, server.clientTypes,
                                            ClientCertTypes)
        serverType == selectCertificateType(ch.serverTypes, server.serverTypes,
                                            ServerCertTypes)
        r == [s EXCEPT !.limits = IF ch.limit = 0 THEN @
                                  ELSE <<server.limit, ch.limit>>]
        t == IF wanted /\ clientType # None
             THEN [r EXCEPT !.clientType = clientType, !.typeNegotiated = TRUE] ELSE r
    IN  IF wanted /\ clientType = None /\ ~ServerUsingPSK(s)
        THEN Fail(s, "unsupported_certificate")
        ELSE IF ServerUsingPSK(s) THEN t
        ELSE IF serverType = None THEN Fail(t, "unsupported_certificate")
        ELSE [t EXCEPT !.serverType = serverType]

UsesCID(s) == s.ch[1].cid # <<>> /\ server.cid # <<>>
UsesRRC(s) == UsesCID(s) /\ s.ch[1].rrc /\ server.rrc
HelloTranscript(s) ==
    IF s.hrrUsed THEN <<CH(s.initialBody), s.hrr[1], CH(s.body)>> ELSE <<CH(s.body)>>
ServerHello(s) ==
    LET zero == marshalServerHello(
                  [suite |-> s.suite, group |-> s.share[1].group, index |-> s.index,
                   cid |-> IF UsesCID(s) THEN server.cid ELSE <<>>,
                   rrc |-> UsesRRC(s), confirmation |-> Zeros])
    IN  IF s.ech # "accepted" THEN zero
        ELSE [zero EXCEPT !.confirmation =
                 echAcceptConfirmation(s.ch[1].random, HelloTranscript(s), zero)]
serverBuildServerHello(s) ==
    [s EXCEPT !.transcript = Append(HelloTranscript(s), ServerHello(s)),
              !.cids = IF UsesCID(s) THEN <<server.cid, s.ch[1].cid>> ELSE <<>>,
              !.rrc = UsesRRC(s), !.unsent = <<Plain(ServerHello(s))>>]

serverDeriveHandshakeKeys(s) ==
    [s EXCEPT !.secret = HandshakeSecret(s.suite, s.psk, s.share[1].group,
                                         s.share[1].key, s.transcript)]

TicketCount(s) ==
    LET request == s.ch[1].tickets
    IN  IF ~server.tickets \/ ~s.ch[1].pskDHE THEN 0
        ELSE IF request = <<>> THEN 1
        ELSE Smaller(Requested(request, s.ticket # <<>>), server.maxTickets)

(* serverSendFlight: EncryptedExtensions, the authentication messages of a *)
(* handshake without a PSK, Finished; the flight is written as one.        *)
EncryptedAnswer(s) ==
    LET ch == s.ch[1]
    IN  [alpn |-> s.alpn, early |-> s.early,
         limit |-> IF ch.limit # 0 THEN server.limit ELSE 0,
         retry |-> s.ech = "rejected" /\ server.echKeys # {},
         tickets |-> IF ch.tickets = <<>> THEN <<>> ELSE <<TicketCount(s)>>,
         serverType |-> IF ~ServerUsingPSK(s) /\ ch.serverTypes # <<>>
                        THEN <<s.serverType>> ELSE <<>>,
         clientType |-> IF s.typeNegotiated /\ ch.clientTypes # <<>>
                        THEN <<s.clientType>> ELSE <<>>,
         meta |-> ch.meta /\ server.acceptsMeta]
CertificateRequests(s) ==
    IF requestsClientCertificate(s) THEN <<[typ |-> "CertificateRequest"]>> ELSE <<>>
serverSendFlight(s) ==
    LET ee   == marshalEncryptedExtensions(EncryptedAnswer(s))
        t0   == Add([s EXCEPT !.tickets = TicketCount(s),
                              !.meta = EncryptedAnswer(s).meta], ee)
        t1   == IF requestsClientCertificate(s)
                THEN Add(t0, [typ |-> "CertificateRequest"]) ELSE t0
        auth == IF ServerUsingPSK(s) THEN [state |-> t1, out |-> <<>>]
                ELSE CertificateMessages(t1, s.serverType, server.names)
        fin  == Finished(auth.state)
    IN  IF EncryptedAnswer(s).meta /\ s.ech # "accepted"
        THEN Fail([s EXCEPT !.secret = <<>>], "illegal_parameter")
        ELSE [Add(auth.state, fin) EXCEPT !.unsent = @ \o
                 Protect(s, <<ee>> \o CertificateRequests(s) \o auth.out \o <<fin>>)]

(* serverDeriveApplicationSecrets: with early-data I/O the application may *)
(* write at once, unless a client certificate is still awaited.            *)
serverDeriveApplicationSecrets(s) ==
    [s EXCEPT
        !.pc = "flight",
        !.earlyStatus = IF ~s.ch[1].early THEN @
                        ELSE IF s.early THEN "accepted" ELSE "rejected",
        !.ready = server.earlyIO /\ ~requestsClientCertificate(s),
        !.clientCert = IF s.ticket = <<>> THEN None ELSE s.ticket[1].clientCert,
        !.stage = IF requestsClientCertificate(s) THEN "Certificate" ELSE "Finished"]

ServerFlight(s) ==
    Then(Then(Then(Then(Then(s, serverNegotiateExtensionsAndKeyShare),
                        serverBuildServerHello),
                   serverDeriveHandshakeKeys),
              serverSendFlight),
         serverDeriveApplicationSecrets)

(* The client's final flight.                                              *)
clientHandshakeStage_accept(s, typ) == s.stage = typ

serverClientCertificate(s, m) ==
    Add([s EXCEPT !.clientCert = m.cert,
                  !.stage = IF m.cert = None THEN "Finished" ELSE "CertificateVerify"], m)

serverClientCertificateVerify(s, m) ==
    IF m.over # s.transcript THEN Fail(s, "decrypt_error")
    ELSE Add([s EXCEPT !.verified = TRUE, !.stage = "Finished"], m)

ClientFinishedError(s, m) ==
    FirstError(<<
        <<~ServerUsingPSK(s) /\ server.clientAuth = "require"
             /\ s.clientCert = None, "certificate_required">>,
        <<~ServerUsingPSK(s) /\ s.clientCert # None /\ ~s.verified,
          "unexpected_message">>,
        <<m # Finished(s), "decrypt_error">> >>)
serverClientFinished(s, m) ==
    IF ClientFinishedError(s, m) # None THEN Fail(s, ClientFinishedError(s, m))
    ELSE Add(s, m)

(* serverFinalize promotes the early data buffered until now.              *)
serverFinalize_NotPromoted(s) == [s EXCEPT !.pc = "done", !.buffered = 0]
serverFinalize(s) ==
    [s EXCEPT !.pc = "done", !.delivered = @ + s.buffered,
              !.queued = @ + s.buffered, !.buffered = 0]

(* An accepted early datagram is kept until the handshake is over, or is   *)
(* queued for the application of an early connection (queued is what it    *)
(* has not read).  Lengths are counted in early datagrams.                 *)
EarlyDataError(s) ==
    FirstError(<<
        <<s.buffered >= server.maxDatagrams, "unexpected_message">>,
        <<s.delivered + s.buffered >= s.ticket[1].early, "unexpected_message">>,
        <<server.earlyIO /\ s.queued >= Min({server.maxDatagrams, server.maxData}),
          "protocol_error">>,
        <<~server.earlyIO /\ s.buffered >= server.maxData, "protocol_error">> >>)
queueEarlyApplicationData(s) ==
    IF EarlyDataError(s) # None THEN Fail(s, EarlyDataError(s))
    ELSE IF server.earlyIO THEN [s EXCEPT !.delivered = @ + 1, !.queued = @ + 1]
    ELSE [s EXCEPT !.buffered = @ + 1]

-----------------------------------------------------------------------------
(* amplificationGuard: datagrams are counted in units of a ClientHello;    *)
(* a write beyond the budget is suppressed without an error.               *)
recordReceived(g) == [g EXCEPT !.received = @ + 1]
allowSend_BeforeThisWrite(g, n) == g.validated \/ g.sent <= 3 * g.received
allowSend(g, n) == g.validated \/ n <= 3 * g.received - g.sent
Spend(g, n) == IF g.validated THEN g ELSE [g EXCEPT !.sent = @ + n]
validate(g) == [g EXCEPT !.validated = TRUE]

-----------------------------------------------------------------------------
Init ==
    /\ sc \in Scenarios
    /\ cl = ClientInit
    /\ sv = ServerInit
    /\ c2s = <<>> /\ s2c = <<>>
    /\ amp = [received |-> 0, sent |-> 0, validated |-> FALSE]
    /\ protector = [id |-> 0, rotated |-> 0]
    /\ now = 0

Stopped(s) == s.pc \in {"done", "closed", "failed"}
Ended(s) == IF s.err = None THEN s ELSE [s EXCEPT !.pc = "failed"]
LastWords(s) == IF s.err = None THEN <<>> ELSE AlertOf(s)

ClientGoes(c, out) ==
    /\ cl' = Ended(c)
    /\ c2s' = c2s \o out \o LastWords(c)
    /\ UNCHANGED <<sc, sv, amp, protector, now>>

ClientStart ==
    /\ cl.pc = "start"
    /\ LET c == clientStart(cl)
       IN  ClientGoes([c EXCEPT !.pc = "hello"],
                      IF c.err = None THEN <<Plain(CH(c.wire))>> ELSE <<>>)
    /\ UNCHANGED s2c

(* WriteDatagram before the ServerHello, within the ticket's allowance.    *)
CanWriteEarly_OffByOne(c) == c.pc = "hello" /\ c.early = "pending" /\ c.remaining >= 0
CanWriteEarly(c) == c.pc = "hello" /\ c.early = "pending" /\ c.remaining > 0
ClientEarlyWrite ==
    /\ CanWriteEarly(cl)
    /\ ClientGoes([cl EXCEPT !.remaining = @ - 1, !.written = @ + 1],
          <<[key |-> EarlyKey(cl.session[1].id,
                        IF cl.inner = <<>> THEN cl.body ELSE cl.innerBody),
             msg |-> [typ |-> "EarlyData"]]>>)
    /\ UNCHANGED s2c

(* The next datagram for the client, if it opens under its keys.           *)
ClientReads(states, typ) ==
    /\ cl.pc \in states
    /\ s2c # <<>>
    /\ Head(s2c).key = cl.secret
    /\ Head(s2c).msg.typ = typ
    /\ s2c' = Tail(s2c)

ClientHelloRetryRequest ==
    /\ ClientReads({"hello"}, "HelloRetryRequest")
    /\ LET c == clientHandleHelloRetryRequest(cl, Head(s2c).msg)
       IN  ClientGoes(c, IF c.err = None THEN <<Plain(CH(c.wire))>> ELSE <<>>)

ClientServerHello ==
    /\ ClientReads({"hello", "second"}, "ServerHello")
    /\ ClientGoes(clientServerHello(cl, Head(s2c).msg), <<>>)

ServerMessage == Head(s2c).msg
StagedClient == Staged(cl, ServerMessage)
ClientFlightMessage(typ, handled) ==
    /\ ClientReads({"flight"}, typ)
    /\ ClientGoes(IF StagedClient.err # None THEN StagedClient ELSE handled, <<>>)

ClientEncryptedExtensions ==
    ClientFlightMessage("EncryptedExtensions", clientEncryptedExtensions(StagedClient, ServerMessage))
ClientCertificateRequest ==
    ClientFlightMessage("CertificateRequest", clientCertificateRequest(StagedClient, ServerMessage))
ClientServerCertificate ==
    ClientFlightMessage("Certificate", clientServerCertificate(StagedClient, ServerMessage))
ClientServerCertificateVerify ==
    ClientFlightMessage("CertificateVerify",
                        clientServerCertificateVerify(StagedClient, ServerMessage))

(* The server's Finished; the client answers without waiting.              *)
ClientServerFinished ==
    /\ ClientReads({"flight"}, "Finished")
    /\ LET m == Head(s2c).msg
           c == Then(Staged(cl, m), LAMBDA s : clientServerFinished(s, m))
           f == clientSendAuthAndFinished(c)
       IN  IF c.err # None THEN ClientGoes(c, <<>>)
           ELSE ClientGoes(clientAwaitFinalACK(f.state), Protect(c, f.out))

ClientFinalACK ==
    /\ ClientReads({"ack"}, "ACK")
    /\ ClientGoes([clientFinalize(cl) EXCEPT !.pc = "done"], <<>>)

ClientAlert ==
    /\ ClientReads({"hello", "second", "flight", "ack"}, "Alert")
    /\ ClientGoes(Fail(cl, "peer_alert"), <<>>)

-----------------------------------------------------------------------------
(* What the server writes through the amplification guard.                 *)
ServerGoes(s, guard, out) ==
    /\ sv' = [Ended(s) EXCEPT !.unsent = IF s.err = None THEN @ ELSE <<>>]
    /\ s2c' = s2c \o out \o LastWords(s)
    /\ amp' = Spend(guard, Len(out))
    /\ UNCHANGED <<sc, cl, now>>

(* writeFlight: a flight the guard suppresses stays unsent.                *)
ServerWritesFlight_Forgets(s, guard) ==
    ServerGoes([s EXCEPT !.unsent = <<>>], guard,
               IF s.err = None /\ allowSend(guard, sc.flight) THEN s.unsent ELSE <<>>)
ServerWritesFlight(s, guard) ==
    IF s.err # None \/ ~allowSend(guard, sc.flight)
    THEN ServerGoes(s, guard, <<>>)
    ELSE /\ sv' = [s EXCEPT !.unsent = <<>>]
         /\ s2c' = s2c \o s.unsent
         /\ amp' = Spend(guard, sc.flight)
         /\ UNCHANGED <<sc, cl, now>>

ServerReads(states) ==
    /\ sv.pc \in states
    /\ c2s # <<>>
    /\ c2s' = Tail(c2s)

ServerReceiveClientHello ==
    /\ ServerReads({"start"})
    /\ Head(c2s).msg.typ = "ClientHello"
    /\ LET s == ServerFirstHello(sv, Head(c2s).msg.hello)
           p == rotateIfNeeded(protector, now)
           guard == recordReceived(amp)
           retry == serverSendHelloRetryRequest(s, <<seal(p, now, s.body)>>)
       IN  IF s.err # None
           THEN ServerGoes(s, guard, <<>>) /\ UNCHANGED protector
           ELSE IF ~s.hrrUsed
           THEN /\ ServerWritesFlight(ServerFlight(SelectShareAndProtocol(s)), guard)
                /\ UNCHANGED protector
           ELSE /\ ServerGoes(retry, guard,
                      IF allowSend(guard, 1) /\ retry.err = None
                      THEN <<Plain(retry.hrr[1])>> ELSE <<>>)
                /\ protector' = p

(* A valid cookie lifts the amplification limit.                           *)
ServerReceiveSecondClientHello ==
    /\ ServerReads({"hrr"})
    /\ Head(c2s).msg.typ = "ClientHello"
    /\ LET s == serverReceiveSecondClientHello(sv, Head(c2s).msg.hello)
           guard == recordReceived(amp)
       IN  IF s.err # None THEN ServerGoes(s, guard, <<>>)
           ELSE ServerWritesFlight(ServerFlight(serverRenegotiateAfterHRR(s)),
                                   validate(guard))
    /\ protector' = rotateIfNeeded(protector, now)

ClientMessage == Head(c2s).msg
ServerFlightMessage(typ, handled) ==
    /\ ServerReads({"flight"})
    /\ Head(c2s).key = sv.secret
    /\ Head(c2s).msg.typ = typ
    /\ ServerGoes(IF clientHandshakeStage_accept(sv, typ)
                  THEN handled
                  ELSE Fail(sv, "unexpected_message"),
                  recordReceived(amp), <<>>)
    /\ UNCHANGED protector

ServerClientCertificate ==
    ServerFlightMessage("Certificate", serverClientCertificate(sv, ClientMessage))
ServerClientCertificateVerify ==
    ServerFlightMessage("CertificateVerify", serverClientCertificateVerify(sv, ClientMessage))

(* The client's Finished: on the path without a cookie it is what          *)
(* validates the address.  The final ACK follows, then the tickets.        *)
ServerClientFinished ==
    /\ ServerReads({"flight"})
    /\ Head(c2s).key = sv.secret
    /\ Head(c2s).msg.typ = "Finished"
    /\ LET s == IF clientHandshakeStage_accept(sv, "Finished")
                THEN serverClientFinished(sv, Head(c2s).msg)
                ELSE Fail(sv, "unexpected_message")
       IN  IF s.err # None THEN ServerGoes(s, recordReceived(amp), <<>>)
           ELSE ServerGoes(serverFinalize(s), validate(recordReceived(amp)),
                           Protect(s, <<[typ |-> "ACK"]>>))
    /\ UNCHANGED protector

AcceptsEarly(s) == s.early /\ ~s.hrrUsed
ServerEarlyRecord ==
    /\ ServerReads({"flight"})
    /\ AcceptsEarly(sv)
    /\ Head(c2s).key = EarlyKey(sv.psk, sv.body)
    /\ ServerGoes(queueEarlyApplicationData(sv), recordReceived(amp), <<>>)
    /\ UNCHANGED protector

(* ReadDatagram of an early connection; any other waits for the handshake. *)
ServerEarlyRead ==
    /\ server.earlyIO /\ sv.pc = "flight" /\ sv.queued > 0
    /\ sv' = [sv EXCEPT !.queued = @ - 1]
    /\ UNCHANGED <<sc, cl, c2s, s2c, amp, protector, now>>

(* WriteDatagram between the server's Finished and the client's.           *)
ServerEarlyWrite ==
    /\ sv.pc = "flight" /\ sv.ready /\ sv.unsent = <<>> /\ sv.early05 = 0
    /\ sv.hrrUsed \/ allowSend(amp, 1)
    /\ sv' = [sv EXCEPT !.early05 = 1]
    /\ amp' = IF sv.hrrUsed THEN amp ELSE Spend(amp, 1)
    /\ UNCHANGED <<sc, cl, c2s, s2c, protector, now>>

ServerAlert ==
    /\ ServerReads({"flight", "done"})
    /\ Head(c2s).key = sv.secret
    /\ Head(c2s).msg.typ = "Alert"
    /\ IF sv.pc = "done"
       THEN ServerGoes([sv EXCEPT !.pc = "closed"], amp, <<>>)
       ELSE ServerGoes(Fail(sv, "peer_alert"), amp, <<>>)
    /\ UNCHANGED protector

(* Datagrams that neither open nor parse are dropped: early data that was  *)
(* not accepted, a repeated ClientHello, an unprotected alert.             *)
ServerIgnores ==
    /\ ServerReads({"hrr", "flight"})
    /\ IF sv.pc = "hrr" THEN Head(c2s).msg.typ # "ClientHello"
       ELSE /\ Head(c2s).key # sv.secret
            /\ ~AcceptsEarly(sv) \/ Head(c2s).msg.typ # "EarlyData"
    /\ ServerGoes(sv, recordReceived(amp), <<>>)
    /\ UNCHANGED protector

-----------------------------------------------------------------------------
(* Timers.  Retransmission is HandshakeFlight's subject; it matters here   *)
(* only where the guard suppressed the flight, so a timer fires only then. *)
ClientRetransmit ==
    /\ cl.pc = "hello" /\ c2s = <<>> /\ s2c = <<>>
    /\ sv.unsent # <<>> /\ ~allowSend(amp, sc.flight)
    /\ ClientGoes(cl, <<Plain(CH(cl.wire))>>)
    /\ UNCHANGED s2c
ServerRetransmit ==
    /\ sv.pc = "flight" /\ sv.unsent # <<>>
    /\ allowSend(amp, sc.flight)
    /\ ServerWritesFlight(sv, amp)
    /\ UNCHANGED <<c2s, protector>>

(* HandshakeTimeout: taken when the peer has stopped and nothing is left   *)
(* to read.                                                                *)
ClientTimeout ==
    /\ ~Stopped(cl) /\ Stopped(sv)
    /\ s2c # <<>> => Head(s2c).key # cl.secret
    /\ ClientGoes(Fail(cl, "timeout"), <<>>)
    /\ UNCHANGED s2c
ServerTimeout ==
    /\ ~Stopped(sv) /\ Stopped(cl)
    /\ c2s = <<>>
    /\ ServerGoes(Fail(sv, "timeout"), amp, <<>>)
    /\ UNCHANGED <<c2s, protector>>

(* The clock, and another handshake of the same server sealing a cookie.   *)
Tick ==
    /\ sv.pc \in {"start", "hrr"} /\ now < sc.delay
    /\ now' = now + 1
    /\ UNCHANGED <<sc, cl, sv, c2s, s2c, amp, protector>>
OtherHandshake ==
    /\ sv.pc \in {"start", "hrr"}
    /\ rotateIfNeeded(protector, now) # protector
    /\ protector' = rotateIfNeeded(protector, now)
    /\ UNCHANGED <<sc, cl, sv, c2s, s2c, amp, now>>

Terminated == Stopped(cl) /\ Stopped(sv) /\ UNCHANGED vars

Next ==
    \/ ClientStart \/ ClientEarlyWrite \/ ClientHelloRetryRequest
    \/ ClientServerHello \/ ClientEncryptedExtensions
    \/ ClientCertificateRequest \/ ClientServerCertificate
    \/ ClientServerCertificateVerify \/ ClientServerFinished
    \/ ClientFinalACK \/ ClientAlert \/ ClientRetransmit \/ ClientTimeout
    \/ ServerReceiveClientHello \/ ServerReceiveSecondClientHello
    \/ ServerClientCertificate \/ ServerClientCertificateVerify
    \/ ServerClientFinished \/ ServerEarlyRecord \/ ServerEarlyRead
    \/ ServerEarlyWrite \/ ServerAlert \/ ServerIgnores \/ ServerRetransmit \/ ServerTimeout
    \/ Tick \/ OtherHandshake
    \/ Terminated

Spec == Init /\ [][Next]_vars

-----------------------------------------------------------------------------
(* Properties.                                                             *)
TypeOK ==
    /\ cl.pc \in {"start", "hello", "second", "flight", "ack", "done", "failed"}
    /\ sv.pc \in {"start", "hrr", "flight", "done", "closed", "failed"}
    /\ (cl.pc = "failed") = (cl.err # None)
    /\ (sv.pc = "failed") = (sv.err # None)
    /\ cl.remaining \in Nat /\ cl.written \in Nat
    /\ {cl.early, sv.earlyStatus} \subseteq {"none", "pending", "accepted", "rejected"}
    /\ amp \in [received : Nat, sent : Nat, validated : BOOLEAN]

(* When the client hands its connection to the application, it and the     *)
(* server agree on everything they negotiated: suite, group, PSK, whether  *)
(* the session is resumed, protocol, early data, encrypted hello,          *)
(* connection IDs, record sizes, certificate types, metadata and           *)
(* the number of tickets (clientFinalize, serverSendFlight).               *)
ClientView(c) ==
    [suite |-> c.suite, group |-> c.group,
     psk |-> IF UsingPSK(c) THEN c.psk[1].id ELSE None, resumed |-> Resumed(c),
     alpn |-> c.alpn, early |-> c.early, ech |-> c.ech = "accepted",
     local |-> IF c.cids = <<>> THEN <<>> ELSE c.cids[1],
     peer |-> IF c.cids = <<>> THEN <<>> ELSE c.cids[2],
     rrc |-> c.rrc, limits |-> c.limits, types |-> <<c.serverType, c.clientType>>, meta |-> c.meta]
Swapped(pair) == IF pair = <<>> THEN <<>> ELSE <<pair[2], pair[1]>>
ServerView(s) ==
    [suite |-> s.suite, group |-> s.share[1].group,
     psk |-> s.psk, resumed |-> s.ticket # <<>>,
     alpn |-> s.alpn, early |-> s.earlyStatus, ech |-> s.ech = "accepted",
     local |-> IF s.cids = <<>> THEN <<>> ELSE s.cids[2],
     peer |-> IF s.cids = <<>> THEN <<>> ELSE s.cids[1],
     rrc |-> s.rrc, limits |-> Swapped(s.limits), types |-> <<s.serverType, s.clientType>>, meta |-> s.meta]
Agreement ==
    cl.finalized =>
        /\ ClientView(cl) = ServerView(sv)
        /\ \A n \in Range(cl.limit) : sv.tickets <= n

(* An endpoint fails only for a reason that lies in the configurations, in *)
(* a cookie at least half a lifetime old, in more early datagrams than the *)
(* server may hold, or in the failure of its peer: no combination of       *)
(* retry, PSK, early data and encrypted hello makes two compatible         *)
(* endpoints refuse each other's messages.                                 *)
EchAccepted == client.ech = "real" /\ client.echConfig \in server.echKeys
EchRefused == client.ech = "real" /\ ~EchAccepted
Disjoint(a, b) == Range(a) \cap Range(b) = {}
Incompatible ==
    \/ Disjoint(client.suites, server.suites)
    \/ Disjoint(client.groups, server.groups)
    \/ /\ client.alpn # <<>> /\ server.alpn # <<>>
       /\ ~EchRefused /\ Disjoint(client.alpn, server.alpn)
    \/ EchRefused
    \/ client.meta /\ (client.ech # "real" \/ ~server.acceptsMeta)
    \/ client.name \notin server.names
    \/ selectCertificateType(offerServerTypes(client), server.serverTypes,
                             server.certs)
          \notin {t \in {"x509", "raw"} :
                     supportsCertificateType(client.serverTypes, t)}
    \/ /\ server.clientAuth # "none"
       /\ selectCertificateType(offerClientTypes(client), server.clientTypes,
                                ClientCertTypes)
             \notin {t \in client.certs :
                        supportsCertificateType(client.clientTypes, t)}
(* The exception: a client without a session cache, all of whose PSKs have *)
(* another hash than the suite of the HelloRetryRequest, drops them and    *)
(* psk_key_exchange_modes with them, which the server refuses              *)
(* (hello.go:1096, handshake_driver.go:749).                               *)
LosesModes ==
    /\ ~client.cache /\ client.psks # <<>> /\ sv.hrr # <<>>
    /\ \A key \in Range(client.psks) : key.hash # HashOf[sv.suite]
(* The allowance of a ticket is not checked against the server's limits on *)
(* what it buffers (config.go:600, conn.go:750): a client within its       *)
(* allowance may exceed them.                                              *)
ExceedsBuffers ==
    /\ sv.early
    /\ cl.written > Min({server.maxDatagrams, server.maxData})
FailuresExplained ==
    /\ sv.err \notin {None, "peer_alert", "timeout"} =>
          \/ Incompatible
          \/ sv.err = "illegal_parameter" /\ 2 * sv.age >= Lifetime
          \/ sv.err = "protocol_error" /\ LosesModes
          \/ sv.err \in {"unexpected_message", "protocol_error"} /\ ExceedsBuffers
    /\ cl.err \notin {None, "peer_alert", "timeout"} => Incompatible
    /\ cl.err = "timeout" => sv.pc = "failed"
    /\ sv.err = "timeout" => cl.pc = "failed"

(* Two endpoints never both wait for the other: as long as neither has     *)
(* stopped, a message is in flight, or a suppressed flight is still to be  *)
(* sent (amplificationConn.Write drops it silently).  That the end reached *)
(* by the message takes it is what the absence of deadlock says.           *)
SomeoneCanMove ==
    Stopped(cl) \/ Stopped(sv) \/ cl.pc = "start" \/ c2s # <<>>
    \/ s2c # <<>> \/ (sv.unsent # <<>> /\ cl.pc = "hello")

(* Early data reaches the server's application exactly when the client is  *)
(* told that it was accepted (queueEarlyApplicationData, earlyStatus), and *)
(* not before the replay cache has admitted it; what is held for an        *)
(* application that does not read stays within the server's limits, also   *)
(* when serverFinalize moves it to the application's queue.                *)
EarlyDataAgrees ==
    /\ cl.pc = "done" /\ sv.pc \in {"done", "closed"} =>
          sv.delivered = IF cl.early = "accepted" THEN cl.written ELSE 0
    /\ sv.delivered + sv.buffered > 0 =>
          server.replayAdmits /\ cl.early \in {"pending", "accepted"}
    /\ sv.buffered + sv.queued <= Min({server.maxDatagrams, server.maxData})

(* A client whose encrypted hello is rejected neither completes, nor shows *)
(* its certificate, nor uses a PSK; and no ClientHello of a client with an *)
(* encrypted hello carries the inner name, protocols, metadata or PSK      *)
(* identities in the clear (makeECHOuter, clientHandleHelloRetryRequest).  *)
InnerHelloHidden ==
    client.ech = "real" =>
        /\ cl.ech = "rejected" =>
              ~cl.finalized /\ cl.pc # "done" /\ cl.sentCert = None /\ cl.psk = <<>>
        /\ \A p \in Range(c2s) : p.msg.typ = "ClientHello" =>
              LET h == parseClientHello(p.msg.hello[1]).m
              IN  /\ h.name = "public" /\ h.alpn = <<>> /\ ~h.meta
                  /\ h.serverTypes = <<>> /\ h.clientTypes = <<>>
                  /\ \A i \in Range(h.ids) : i.id = "grease"

(* A server that requires client certificates completes only with a client *)
(* that it has authenticated, now or when its ticket was issued.           *)
ClientAuthenticated ==
    sv.pc \in {"done", "closed"} /\ server.clientAuth = "require" =>
        /\ sv.clientCert # None
        /\ sv.verified \/ \E t \in Range(sv.ticket) : t.authFresh

(* Until the address is validated the server sends at most three times     *)
(* what it received (amplificationGuard), and a flight the guard holds     *)
(* back is not lost: the server keeps it for the next timer.               *)
AmplificationRespected ==
    /\ ~amp.validated => amp.sent <= 3 * amp.received
    /\ sv.pc = "flight" /\ cl.pc = "hello" /\ s2c = <<>> => sv.unsent # <<>>
=============================================================================
