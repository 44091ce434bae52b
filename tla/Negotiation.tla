----------------------------- MODULE Negotiation -----------------------------
(***************************************************************************)
(* The choices a DTLS 1.3 handshake makes, as functions of the two         *)
(* configurations and of the hellos: which cipher suite, key exchange      *)
(* group, application protocol, pre-shared key and certificate type is     *)
(* selected (negotiate.go, raw_public_key.go), which sessions and external *)
(* PSKs a client offers and a server accepts (session.go,                  *)
(* external_psk.go), how an encrypted ClientHello is built and opened      *)
(* (ech.go), and what a second ClientHello may change                      *)
(* (handshake_driver.go).  Module Handshake runs the two state machines    *)
(* that use them.                                                          *)
(*                                                                         *)
(* Suites, groups, protocols, identities and certificate types are         *)
(* strings; an optional value is a sequence of at most one element; a      *)
(* selection that fails is None.  A key share is its group and the number  *)
(* of the ephemeral key behind it, a PSK is its identity, and a binder is  *)
(* the PSK and the messages that precede the ClientHello it covers.        *)
(***************************************************************************)
EXTENDS HelloMessages, FiniteSets

CONSTANTS
    HashOf,      \* the hash of each cipher suite
    FallbackOf   \* hybrid group -> the classical group inside it (or None)

(* The first preference that passes a test.                                *)
FirstOf(preferences, Ok(_)) ==
    LET passing == {i \in DOMAIN preferences : Ok(preferences[i])}
    IN  IF passing = {} THEN None ELSE preferences[Min(passing)]

-----------------------------------------------------------------------------
(* negotiate.go: the server's order decides.                               *)
selectCipherSuite(preferences, offered) ==
    FirstOf(preferences, LAMBDA x : Has(offered, x))

findExternalPSK(config, identity, hash) ==
    \E key \in Range(config.psks) : key.id = identity /\ key.hash = hash

preferExternalPSKCipherSuite(config, hello, fallback) ==
    LET preferred == FirstOf(config.suites, LAMBDA x :
                        /\ Has(hello.suites, x)
                        /\ \E p \in Range(hello.ids) :
                              findExternalPSK(config, p.id, HashOf[x]))
    IN  IF preferred = None THEN fallback ELSE preferred

selectServerCipherSuite(config, hello) ==
    LET suite == selectCipherSuite(config.suites, hello.suites)
    IN  IF suite = None THEN None
        ELSE preferExternalPSKCipherSuite(config, hello, suite)

selectKeyShare(preferences, shares) ==
    FirstOf(preferences, LAMBDA g : \E s \in Range(shares) : s.group = g)

NoProtocol == "no_application_protocol"
negotiateALPN(server, client) ==
    IF server = <<>> \/ client = <<>> THEN None
    ELSE LET p == FirstOf(server, LAMBDA x : Has(client, x))
         IN  IF p = None THEN NoProtocol ELSE p

(* raw_public_key.go: an absent offer means X.509; an empty configuration  *)
(* too.                                                                    *)
supportsCertificateType(types, t) ==
    IF types = <<>> THEN t = "x509" ELSE Has(types, t)

selectCertificateType(offer, configured, available) ==
    FirstOf(IF configured = <<>> THEN <<"x509">> ELSE configured,
            LAMBDA t : /\ t \in available
                       /\ IF offer = <<>> THEN t = "x509" ELSE Has(offer, t))

(* offerCertificateTypes: the extension is sent only when it names a raw   *)
(* public key that this client can verify (server types) or sign with      *)
(* (client types).                                                         *)
offerServerTypes(config) ==
    IF Has(config.serverTypes, "raw") /\ config.verifiesRaw
    THEN config.serverTypes ELSE <<>>
offerClientTypes(config) ==
    LET usable == SelectSeq(config.clientTypes, LAMBDA t : t \in config.certs)
    IN  IF Has(usable, "raw") THEN usable ELSE <<>>

-----------------------------------------------------------------------------
(* session.go, client side.                                                *)
validateClientSession(config, s) ==
    /\ s.name = config.name
    /\ s.alpn # None => Has(config.alpn, s.alpn)
    /\ \E x \in Range(config.suites) : HashOf[x] = HashOf[s.suite]
    /\ IF s.ext = None
       THEN supportsCertificateType(config.serverTypes, s.serverType)
       ELSE findExternalPSK(config, s.ext, HashOf[s.suite])

usableClientSession(config) ==
    IF config.cache /\ \A s \in Range(config.session) : validateClientSession(config, s)
    THEN config.session ELSE <<>>

Offer(id, hash, session) == [id |-> id, hash |-> hash, session |-> session]

configuredExternalPSKOffers(config) ==
    LET usable == SelectSeq(config.psks, LAMBDA key :
                     \E x \in Range(config.suites) : HashOf[x] = key.hash)
    IN  [i \in DOMAIN usable |-> Offer(usable[i].id, usable[i].hash, <<>>)]

(* With an external PSK the client keeps a list of offers; without one the *)
(* single ticket lives in pskIdentity and the list stays empty.            *)
pskOffers(config) ==
    LET external == configuredExternalPSKOffers(config)
        ticket   == usableClientSession(config)
    IN  IF external = <<>> THEN <<>>
        ELSE [i \in DOMAIN ticket |->
                 Offer(ticket[i].id, HashOf[ticket[i].suite], ticket)] \o external

TicketOffers(session) ==
    [i \in DOMAIN session |->
        Offer(session[i].id, HashOf[session[i].suite], session)]

filterPSKOffersByHash(offers, hash) ==
    SelectSeq(offers, LAMBDA o : o.hash = hash)

Binder(psk, prior) == [psk |-> psk, prior |-> prior]
IdentitiesOf(offers, prior) ==
    [i \in DOMAIN offers |->
        [id |-> offers[i].id, binder |-> Binder(offers[i].id, prior)]]

-----------------------------------------------------------------------------
(* handshake_client.go and hello.go: the ClientHello.                      *)
KeyShares(config) ==
    LET g == Head(config.groups)
        f == FallbackOf[g]
    IN  <<[group |-> g, key |-> 1]>>
        \o IF f # None /\ Has(config.groups, f)
           THEN <<[group |-> f, key |-> 1]>> ELSE <<>>

Prioritized(suites, session) ==
    IF session # <<>> /\ Has(suites, session[1].suite)
    THEN <<session[1].suite>>
         \o SelectSeq(suites, LAMBDA x : x # session[1].suite)
    ELSE suites

clientPrepareHello(config) ==
    LET session == usableClientSession(config)
        offers  == pskOffers(config)
    IN  [random  |-> "hello",
         suites  |-> Prioritized(config.suites, session),
         groups  |-> config.groups,
         shares  |-> KeyShares(config),
         name    |-> config.name,
         alpn    |-> config.alpn,
         limit   |-> config.limit,
         ids     |-> IdentitiesOf(IF offers # <<>> THEN offers
                                  ELSE TicketOffers(session), <<>>),
         pskDHE  |-> config.cache,
         early   |-> /\ config.earlyIO
                     /\ session # <<>>
                     /\ session[1].early > 0
                     /\ Has(config.suites, session[1].suite),
         cid     |-> config.cid,
         rrc     |-> config.cid # <<>> /\ config.rrc,
         pha     |-> config.pha,
         meta    |-> config.meta,
         tickets |-> config.ticketRequest,
         serverTypes |-> offerServerTypes(config),
         clientTypes |-> offerClientTypes(config),
         ech     |-> NoECH,
         cookie  |-> <<>>]

(* ech.go: the outer hello hides the name, the protocols, the metadata and *)
(* the certificate types, and carries random identities for the PSKs.      *)
greaseOuterPSK(ids) ==
    [i \in DOMAIN ids |->
        [id |-> "grease", binder |-> Binder("grease", <<>>)]]
makeECHOuter_KeepsProtocols(inner) ==
    [inner EXCEPT !.random = "outer", !.name = "public", !.meta = FALSE,
                  !.serverTypes = <<>>, !.clientTypes = <<>>,
                  !.ids = greaseOuterPSK(@)]
makeECHOuter(inner) ==
    [inner EXCEPT !.random = "outer", !.name = "public", !.alpn = <<>>,
                  !.meta = FALSE, !.serverTypes = <<>>, !.clientTypes = <<>>,
                  !.ids = greaseOuterPSK(@)]
computeOuterECH(outer, inner, config, initial) ==
    [outer EXCEPT !.ech = [typ |-> "outer", config |-> config,
                           first |-> initial, inner |-> <<marshal(inner)>>]]
generateGREASEECH ==
    [typ |-> "outer", config |-> "grease", first |-> TRUE, inner |-> <<>>]
InnerECH == [NoECH EXCEPT !.typ = "inner"]

(* The server opens the extension with the key it names; a GREASE payload  *)
(* decrypts under none.                                                    *)
processECHClientHello(hello, keys) ==
    /\ hello.ech.typ = "outer" /\ hello.ech.config \in keys
    /\ hello.ech.inner # <<>>

(* The second one must use the same configuration with an empty enc.       *)
secondECHError(first, second) ==
    IF second.ech.typ = "none" THEN "missing_extension"
    ELSE IF \/ second.ech.typ # "outer"
            \/ second.ech.config # first.ech.config
            \/ second.ech.first
         THEN "illegal_parameter"
         ELSE IF second.ech.inner = <<>> THEN "decrypt_error" ELSE None

-----------------------------------------------------------------------------
(* session.go, server side.  config.opens holds the tickets that decrypt   *)
(* under the current ticket key and have not expired.                      *)
validClientAuthenticationTicket_Unchecked(config, ticket) ==
    ticket.clientCert # None \/ config.clientAuth = "none"
validClientAuthenticationTicket(config, ticket) ==
    IF ticket.clientCert = None THEN config.clientAuth = "none"
    ELSE /\ config.clientAuth # "none"
         /\ supportsCertificateType(config.clientTypes, ticket.clientCert)
         /\ ticket.authFresh

Opened(config, identity) ==
    LET opened == {t \in Range(config.opens) : config.tickets /\ t.id = identity}
    IN  IF opened = {} THEN <<>> ELSE <<CHOOSE t \in opened : TRUE>>

TicketAccepted(config, hello, identity, suite, protocol) ==
    \E t \in Range(Opened(config, identity)) :
        /\ HashOf[t.suite] = HashOf[suite]
        /\ t.name = hello.name
        /\ t.alpn = protocol
        /\ validClientAuthenticationTicket(config, t)
        /\ t.ext # None => findExternalPSK(config, t.ext, HashOf[t.suite])

EarlyDataAccepted(config, hello, i, ticket, suite, hrr) ==
    /\ i = 1
    /\ ticket.suite = suite
    /\ ticket.age = "tolerated"
    /\ hello.early
    /\ ticket.early > 0
    /\ config.maxEarly >= ticket.early
    /\ config.limit >= ticket.limit
    /\ hrr = <<>>
    /\ config.allowEarly
    /\ config.replayAdmits

(* The first identity that is an acceptable ticket or a known external PSK *)
(* of the suite's hash is taken; its binder must then be the PSK's over    *)
(* the messages so far.  A ticket made in the future (the clock was set    *)
(* back) is passed over once its binder is verified.                       *)
acceptPSK(config, hello, suite, protocol, hrr) ==
    LET ids == IF hello.pskDHE THEN hello.ids ELSE <<>>
        taken(i) == \/ TicketAccepted(config, hello, ids[i].id, suite, protocol)
                    \/ findExternalPSK(config, ids[i].id, HashOf[suite])
        negativeAge(i) ==
            /\ TicketAccepted(config, hello, ids[i].id, suite, protocol)
            /\ Opened(config, ids[i].id)[1].age = "negative"
        candidates == {i \in 1 .. Len(ids) : taken(i) /\ ~negativeAge(i)}
        verified(last) ==
            \A i \in 1 .. last : taken(i) => ids[i].binder = Binder(ids[i].id, hrr)
    IN  IF candidates = {}
        THEN [found |-> FALSE, index |-> 0, psk |-> None, ticket |-> <<>>,
              early |-> FALSE, binderOK |-> verified(Len(ids))]
        ELSE LET i == Min(candidates)
                 isTicket == TicketAccepted(config, hello, ids[i].id, suite, protocol)
                 ticket == IF isTicket THEN Opened(config, ids[i].id) ELSE <<>>
             IN  [found |-> TRUE, index |-> i, psk |-> ids[i].id,
                  ticket |-> ticket,
                  early |-> isTicket /\ EarlyDataAccepted(config, hello, i,
                                                     Head(ticket), suite, hrr),
                  binderOK |-> verified(i)]

-----------------------------------------------------------------------------
(* handshake_driver.go: what ClientHello2 may change.                      *)
IsSubsequence(short, long) ==
    \E at \in [DOMAIN short -> DOMAIN long] :
        /\ \A i, j \in DOMAIN short : i < j => at[i] < at[j]
        /\ \A i \in DOMAIN short : long[at[i]] = short[i]

IdsOf(hello) == [i \in DOMAIN hello.ids |-> hello.ids[i].id]

equalClientHelloAfterHRR(initial, second, requestedGroup) ==
    /\ ~second.early
    /\ IsSubsequence(IdsOf(second), IdsOf(initial))
    /\ IF requestedGroup # None
       THEN Len(second.shares) = 1 /\ second.shares[1].group = requestedGroup
       ELSE initial.shares = second.shares
    /\ \A field \in {"random", "suites", "groups", "name", "alpn", "limit", "pskDHE",
                     "cid", "rrc", "pha", "meta", "tickets",
                     "serverTypes", "clientTypes"} :
          initial[field] = second[field]

removedPSKsAreIncompatible(config, initial, second, suite) ==
    \A id \in Range(IdsOf(initial)) \ Range(IdsOf(second)) :
        /\ ~findExternalPSK(config, id, HashOf[suite])
        /\ \A t \in Range(Opened(config, id)) : HashOf[t.suite] # HashOf[suite]
=============================================================================
