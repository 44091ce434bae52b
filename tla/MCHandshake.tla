----------------------------- MODULE MCHandshake -----------------------------
(* Instances of Handshake.  Each family varies the configuration fields    *)
(* that one part of the negotiation looks at, and keeps the others at the  *)
(* base configuration.                                                     *)
EXTENDS Handshake

MCHashOf == [x \in {"A", "B", "C"} |-> IF x = "B" THEN "h2" ELSE "h1"]
MCFallbackOf == [g \in {"hyb", "x", "p"} |-> IF g = "hyb" THEN "x" ELSE None]

Client ==
    [suites |-> <<"A", "B">>, groups |-> <<"x", "p">>, alpn |-> <<>>,
     limit |-> 1, psks |-> <<>>, cache |-> TRUE, session |-> <<>>, earlyIO |-> FALSE,
     name |-> "host", cid |-> <<>>, rrc |-> FALSE, pha |-> FALSE,
     meta |-> FALSE, ticketRequest |-> <<>>, serverTypes |-> <<>>,
     clientTypes |-> <<>>, certs |-> {}, verifiesRaw |-> FALSE,
     ech |-> "none", echConfig |-> "e1"]
Server ==
    [suites |-> <<"A", "B">>, groups |-> <<"x", "p">>, alpn |-> <<>>,
     limit |-> 2, psks |-> <<>>, tickets |-> TRUE, opens |-> <<>>, clientAuth |-> "none",
     clientTypes |-> <<>>, serverTypes |-> <<>>, certs |-> {"x509"},
     names |-> {"host", "public"}, verifiesRaw |-> FALSE, maxEarly |-> 2,
     allowEarly |-> FALSE, replayAdmits |-> TRUE, earlyIO |-> FALSE,
     echKeys |-> {}, acceptsMeta |-> FALSE, cid |-> <<>>, rrc |-> FALSE,
     maxTickets |-> 2, maxDatagrams |-> 2, maxData |-> 2]
Ticket ==
    [id |-> "t", suite |-> "A", name |-> "host", alpn |-> None, early |-> 0,
     ext |-> None, serverType |-> "x509", clientCert |-> None,
     authFresh |-> TRUE, age |-> "tolerated", limit |-> 1]
Pair(c, s) == [client |-> c, server |-> s, flight |-> 2, delay |-> 0]

P1 == [id |-> "p1", hash |-> "h1"]
P2 == [id |-> "p2", hash |-> "h2"]

(* Suites, groups, tickets and external PSKs.                              *)
Crypto ==
    { Pair([Client EXCEPT !.suites = cs, !.groups = cg, !.psks = cp, !.session = t],
           [Server EXCEPT !.suites = ss, !.groups = sg, !.psks = sp, !.opens = o]) :
        cs \in {<<"A">>, <<"A", "B">>, <<"B", "C">>},
        ss \in {<<"B">>, <<"A", "B">>, <<"B", "C", "A">>},
        cg \in {<<"hyb", "x", "p">>, <<"p">>},
        sg \in {<<"p", "x">>, <<"x">>},
        cp \in {<<>>, <<P1>>, <<P1, P2>>},
        sp \in {<<>>, <<P1>>, <<P2, P1>>},
        t \in {<<>>, <<Ticket>>, <<[Ticket EXCEPT !.suite = "C"]>>,
               <<[Ticket EXCEPT !.ext = "p1"]>>},
        o \in {<<>>, <<Ticket>>, <<[Ticket EXCEPT !.suite = "C"]>>,
               <<[Ticket EXCEPT !.ext = "p1"]>>} }
CryptoScenarios == {x \in Crypto : x.server.opens \in {<<>>, x.client.session}}

(* Encrypted hellos, with retry, tickets, external PSKs, metadata, client  *)
(* certificates and early data.                                            *)
ECHScenarios ==
    { Pair([Client EXCEPT !.ech = e, !.groups = <<"x", "p">>, !.session = t,
                          !.psks = p, !.meta = m[1], !.earlyIO = io,
                          !.alpn = <<"h2">>, !.certs = {"x509"}],
           [Server EXCEPT !.echKeys = k, !.groups = g, !.opens = t, !.psks = p,
                          !.acceptsMeta = m[2], !.allowEarly = io,
                          !.alpn = <<"h2">>, !.clientAuth = a]) :
        e \in {"none", "grease", "real"}, k \in {{}, {"e1"}, {"e2"}},
        g \in {<<"x">>, <<"p">>}, p \in {<<>>, <<P1>>},
        t \in {<<>>, <<[Ticket EXCEPT !.alpn = "h2", !.early = 1]>>},
        m \in {<<FALSE, TRUE>>, <<TRUE, TRUE>>, <<TRUE, FALSE>>},
        io \in BOOLEAN, a \in {"none"} }
    \cup
    { Pair([Client EXCEPT !.ech = e, !.certs = {"x509"}, !.psks = <<>>],
           [Server EXCEPT !.echKeys = k, !.groups = g, !.clientAuth = "request"]) :
        e \in {"none", "grease", "real"}, k \in {{}, {"e1"}, {"e2"}},
        g \in {<<"x">>, <<"p">>} }

(* Early data and the amplification limit.                                 *)
EarlyScenarios ==
    { [Pair([Client EXCEPT !.suites = <<"A", "C">>, !.session = <<t>>, !.earlyIO = cio],
            [Server EXCEPT !.suites = ss, !.groups = sg, !.opens = <<t>>,
                           !.allowEarly = allow, !.replayAdmits = replay,
                           !.maxEarly = max, !.earlyIO = sio])
         EXCEPT !.flight = f] :
        t \in {[Ticket EXCEPT !.early = n, !.age = age] :
                  n \in 0 .. 2, age \in {"tolerated", "off"}}
              \cup {[Ticket EXCEPT !.early = 1, !.limit = 3],
                    [Ticket EXCEPT !.early = 1, !.age = "negative"]},
        cio \in BOOLEAN, sio \in BOOLEAN, allow \in BOOLEAN, replay \in BOOLEAN,
        max \in {1, 2}, ss \in {<<"A">>, <<"C", "A">>},
        sg \in {<<"x">>, <<"p">>}, f \in {2, 4} }

(* A server that holds fewer early datagrams than its tickets allow.       *)
SmallBufferScenarios ==
    { [Pair([Client EXCEPT !.session = <<t>>, !.earlyIO = TRUE],
            [Server EXCEPT !.opens = <<t>>, !.allowEarly = TRUE, !.earlyIO = io,
                           !.maxDatagrams = holds[1], !.maxData = holds[2]])
         EXCEPT !.flight = f] :
        t \in {[Ticket EXCEPT !.early = 2]}, io \in BOOLEAN, f \in {2, 4},
        holds \in {<<1, 2>>, <<2, 1>>} }

(* Certificate types and client authentication.                            *)
TypeLists == {<<>>, <<"raw">>, <<"raw", "x509">>}
AuthScenarios ==
    { Pair([Client EXCEPT !.clientTypes = ct, !.certs = cc, !.pha = pha, !.session = t],
           [Server EXCEPT !.clientAuth = a, !.clientTypes = st, !.verifiesRaw = v,
                          !.opens = t]) :
        a \in {"none", "request", "require"}, ct \in TypeLists, st \in TypeLists,
        cc \in SUBSET {"x509", "raw"}, v \in BOOLEAN, pha \in {FALSE}, t \in {<<>>} }
    \cup
    { Pair([Client EXCEPT !.clientTypes = ct, !.certs = {"raw"}, !.pha = pha,
                          !.session = <<t>>],
           [Server EXCEPT !.clientAuth = a, !.clientTypes = st, !.verifiesRaw = TRUE,
                          !.opens = <<t>>]) :
        a \in {"none", "request", "require"}, ct \in TypeLists, st \in TypeLists,
        pha \in BOOLEAN,
        t \in {[Ticket EXCEPT !.clientCert = k, !.authFresh = fresh] :
                  k \in {None, "x509", "raw"}, fresh \in BOOLEAN} }
    \cup
    { Pair([Client EXCEPT !.serverTypes = ct, !.verifiesRaw = v, !.session = t],
           [Server EXCEPT !.serverTypes = st, !.certs = sc0, !.opens = o]) :
        ct \in TypeLists, st \in TypeLists, v \in BOOLEAN,
        sc0 \in SUBSET {"x509", "raw"}, t \in {<<>>, <<Ticket>>},
        o \in {<<>>, <<Ticket>>} }

(* Connection IDs, return routability, protocols and ticket counts.        *)
ExtensionScenarios ==
    { Pair([Client EXCEPT !.cid = cid, !.rrc = r, !.ticketRequest = req,
                          !.cache = cache, !.session = t],
           [Server EXCEPT !.cid = sid, !.rrc = rr, !.maxTickets = max, !.opens = o]) :
        cid \in {<<>>, <<"">>, <<"c">>}, sid \in {<<>>, <<"">>, <<"s">>},
        r \in BOOLEAN, rr \in BOOLEAN, cache \in BOOLEAN, max \in {1, 3},
        req \in {<<>>, <<[new |-> 2, resumption |-> 1]>>},
        t \in {<<>>, <<Ticket>>}, o \in {<<Ticket>>} }
    \cup
    { Pair([Client EXCEPT !.alpn = ca, !.session = t],
           [Server EXCEPT !.alpn = sa, !.opens = t]) :
        ca \in {<<>>, <<"h2">>, <<"h2", "h3">>}, sa \in {<<>>, <<"h3">>, <<"h3", "h2">>},
        t \in {<<>>} \cup {<<[Ticket EXCEPT !.alpn = p]>> : p \in {None, "h2", "h3"}} }

(* The clock runs while the second ClientHello is on its way.              *)
CookieScenarios ==
    { [Pair(Client, [Server EXCEPT !.groups = g]) EXCEPT !.delay = 7] :
        g \in {<<"x">>, <<"p">>} }

(* A client with external PSKs and no session cache.                       *)
NoCacheScenarios ==
    { Pair([Client EXCEPT !.cache = FALSE, !.psks = cp, !.suites = <<"A", "B">>],
           [Server EXCEPT !.suites = ss, !.groups = g, !.psks = sp]) :
        cp \in {<<P1>>, <<P1, P2>>}, sp \in {<<>>, <<P1>>},
        ss \in {<<"A">>, <<"B">>, <<"B", "A">>}, g \in {<<"x">>, <<"p">>} }

MCScenarios ==
    CryptoScenarios \cup ECHScenarios \cup EarlyScenarios
    \cup SmallBufferScenarios \cup AuthScenarios \cup ExtensionScenarios \cup CookieScenarios \cup NoCacheScenarios
=============================================================================
