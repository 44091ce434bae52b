--------------------------- MODULE HandshakeSteps ---------------------------
(***************************************************************************)
(* What one step of the client's or of the server's state machine changes, *)
(* for every configuration (handshake_client.go, handshake_server.go).     *)
(* Each step changes a few fields of its state; the lemmas say which, and  *)
(* what the server's flight and a PSK it accepts look like.  Then comes    *)
(* the invariant of the handshake, HandshakeInv, which says where the two  *)
(* state machines can be relative to each other and what is then in        *)
(* flight, and why each kind of move keeps it.                             *)
(***************************************************************************)
EXTENDS Handshake, WellFoundedInduction, TLAPS

USE ZenonT(30)

-----------------------------------------------------------------------------
(* Lists of datagrams, and the types of the two states.                    *)
IsList(q) == q \in Seq(Range(q))
LastOf(q) == q[Len(q)]
EndsIn(q, typ) == q # <<>> /\ LastOf(q).msg.typ = typ
FinishedUnder(q, secret) ==
    \A i \in DOMAIN q : q[i].msg.typ = "Finished" => q[i].key = secret

EarlyStates == {"none", "pending", "accepted", "rejected"}
ClientTyped(c) ==
    /\ DOMAIN c = DOMAIN ClientInit
    /\ c.remaining \in Nat /\ c.written \in Nat
    /\ c.early \in EarlyStates
ServerTyped(s) ==
    /\ DOMAIN s = DOMAIN ServerInit
    /\ IsList(s.unsent)
    /\ s.earlyStatus \in EarlyStates

-----------------------------------------------------------------------------
(* Records that differ in a few fields.                                    *)
Changes(s, t, F) ==
    DOMAIN t = DOMAIN s /\ \A f \in DOMAIN s \ F : t[f] = s[f]

LEMMA ChangesNothing == ASSUME NEW s, NEW F PROVE Changes(s, s, F)
  BY DEF Changes

LEMMA ChangesOne ==
    ASSUME NEW s, NEW t, NEW F, Changes(s, t, F), NEW f, NEW v
    PROVE  Changes(s, [t EXCEPT ![f] = v], F \cup {f})
  BY DEF Changes

LEMMA ChangesMore ==
    ASSUME NEW s, NEW t, NEW u, NEW F, NEW G,
           Changes(s, t, F), Changes(t, u, G)
    PROVE  Changes(s, u, F \cup G)
  BY DEF Changes

LEMMA FailChanges ==
    ASSUME NEW s, NEW alert
    PROVE  /\ Changes(s, Fail(s, alert), {"err"})
           /\ "err" \in DOMAIN s => Fail(s, alert).err = alert
  BY DEF Changes, Fail

LEMMA AddChanges ==
    ASSUME NEW s, NEW m
    PROVE  Changes(s, Add(s, m), {"transcript"})
  BY DEF Changes, Add

-----------------------------------------------------------------------------
(* The client's steps.                                                     *)
LEMMA ClientFields ==
    /\ "pc" \in DOMAIN ClientInit /\ "err" \in DOMAIN ClientInit
    /\ "remaining" \in DOMAIN ClientInit /\ "written" \in DOMAIN ClientInit
    /\ "early" \in DOMAIN ClientInit /\ "secret" \in DOMAIN ClientInit
    /\ "hello" \in DOMAIN ClientInit /\ "session" \in DOMAIN ClientInit
    /\ "ech" \in DOMAIN ClientInit /\ "finalized" \in DOMAIN ClientInit
    /\ "sentCert" \in DOMAIN ClientInit /\ "psk" \in DOMAIN ClientInit
    /\ ClientTyped(ClientInit)
    /\ ClientInit.pc = "start" /\ ClientInit.err = None
  BY DEF ClientInit, ClientTyped, EarlyStates

(* What changes none of the typed fields keeps the type.                   *)
LEMMA ClientKept ==
    ASSUME NEW c, NEW d, NEW F, ClientTyped(c), Changes(c, d, F),
           "remaining" \notin F, "written" \notin F, "early" \notin F
    PROVE  ClientTyped(d)
  BY ClientFields DEF ClientTyped, Changes

LEMMA HelloRetryRequestChanges ==
    ASSUME NEW c, NEW raw
    PROVE  Changes(c, clientHandleHelloRetryRequest(c, raw),
                   {"err", "pc", "early", "remaining", "retrySuite", "acceptedAtHRR",
                    "ech", "inner", "innerBody", "hello", "body", "wire", "offers",
                    "transcript", "innerTranscript"})
  BY DEF Changes, clientHandleHelloRetryRequest, Fail

LEMMA HelloRetryRequestStep ==
    ASSUME NEW c, NEW raw, ClientTyped(c), c.err = None
    PROVE  LET d == clientHandleHelloRetryRequest(c, raw)
           IN  /\ ClientTyped(d)
               /\ d.secret = c.secret
               /\ d.err = None => d.pc = "second"
<1> DEFINE d == clientHandleHelloRetryRequest(c, raw)
<1>1. DOMAIN d = DOMAIN c /\ d.secret = c.secret /\ d.written = c.written
  <2>1. Changes(c, d, {"err", "pc", "early", "remaining", "retrySuite", "acceptedAtHRR",
                       "ech", "inner", "innerBody", "hello", "body", "wire", "offers",
                       "transcript", "innerTranscript"})
    BY HelloRetryRequestChanges
  <2> HIDE DEF d
  <2>2. QED
    BY <2>1, ClientFields DEF Changes, ClientTyped
<1>2. d.early \in EarlyStates /\ d.remaining \in Nat
  BY ClientFields DEF ClientTyped, clientHandleHelloRetryRequest, Fail, EarlyStates
<1>3. d.err = None => d.pc = "second"
  BY ClientFields DEF ClientTyped, clientHandleHelloRetryRequest, Fail
<1>4. QED
  BY <1>1, <1>2, <1>3 DEF ClientTyped

LEMMA ConfirmECHChanges ==
    ASSUME NEW c, NEW raw
    PROVE  Changes(c, clientConfirmECH(c, raw),
                   {"err", "ech", "hello", "body", "transcript"})
  BY DEF Changes, clientConfirmECH, Fail

LEMMA ValidateServerHelloChanges ==
    ASSUME NEW c, NEW sh
    PROVE  Changes(c, clientValidateServerHello(c, sh),
                   {"err", "suite", "group", "index", "psk", "cids", "rrc"})
  BY DEF Changes, clientValidateServerHello, Fail

LEMMA DeriveHandshakeKeysChanges ==
    ASSUME NEW c, NEW sh, NEW raw
    PROVE  Changes(c, clientDeriveHandshakeKeys(c, sh, raw),
                   {"pc", "transcript", "remaining", "secret"})
  BY DEF Changes, clientDeriveHandshakeKeys

LEMMA ServerHelloStep ==
    ASSUME NEW c, NEW raw, ClientTyped(c), c.err = None
    PROVE  LET d == clientServerHello(c, raw)
           IN  ClientTyped(d) /\ (d.err = None => d.pc = "flight")
<1> DEFINE sh == parseServerHello(raw).m
           c1 == clientConfirmECH(c, raw)
           c2 == clientValidateServerHello(c1, sh)
           c3 == clientDeriveHandshakeKeys(c2, sh, raw)
<1>1. ClientTyped(c1)
  <2>1. Changes(c, c1, {"err", "ech", "hello", "body", "transcript"})
    BY ConfirmECHChanges
  <2> HIDE DEF c1
  <2>2. QED
    BY <2>1, ClientKept
<1>2. ClientTyped(c2)
  BY SMT, <1>1, ValidateServerHelloChanges, ClientKept
<1>3. ClientTyped(c3) /\ c3.pc = "flight"
  <2>1. DOMAIN c3 = DOMAIN c2 /\ c3.written = c2.written /\ c3.early = c2.early
    BY SMTT(30), <1>2, DeriveHandshakeKeysChanges, ClientFields DEF Changes,
       ClientTyped
  <2>2. c3.remaining = 0 /\ c3.pc = "flight"
    BY <1>2, ClientFields DEF clientDeriveHandshakeKeys, ClientTyped
  <2>3. QED
    BY SMT, <2>1, <2>2, <1>2 DEF ClientTyped
<1>4. ClientTyped(Fail(c, parseServerHello(raw).error))
      /\ Fail(c, parseServerHello(raw).error).err = parseServerHello(raw).error
  BY SMTT(30), FailChanges, ClientKept, ClientFields DEF ClientTyped
<1>5. clientServerHello(c, raw) \in {Fail(c, parseServerHello(raw).error), c1, c2, c3}
      /\ (clientServerHello(c, raw).err = None => clientServerHello(c, raw) = c3)
  <2> HIDE DEF c1, c2, c3
  <2>1. CASE parseServerHello(raw).error # None
    <3>1. clientServerHello(c, raw) = Fail(c, parseServerHello(raw).error)
      BY <2>1 DEF clientServerHello
    <3>2. QED
      BY <3>1, <2>1, <1>4
  <2>2. CASE parseServerHello(raw).error = None
    <3>1. clientServerHello(c, raw) =
            IF (IF c1.err # None THEN c1 ELSE c2).err # None
            THEN (IF c1.err # None THEN c1 ELSE c2) ELSE clientDeriveHandshakeKeys((IF c1.err # None THEN c1 ELSE c2), sh, raw)
      BY <2>2 DEF clientServerHello, Then, c1, c2
    <3>2. QED
      BY <3>1 DEF c3
  <2>3. QED
    BY <2>1, <2>2
<1>6. QED
  BY <1>1, <1>2, <1>3, <1>4, <1>5


(* The hello that is sent offers early data only with a session, whose     *)
(* allowance is a number.                                                  *)
LEMMA StartStep ==
    ASSUME NEW c, ClientTyped(c), c.err = None, sc \in Scenarios
    PROVE  LET d == clientStart(c)
           IN  ClientTyped(d) /\ d.secret = c.secret
<1> DEFINE c1 == [c EXCEPT !.session = usableClientSession(client),
                           !.offers  = pskOffers(client)]
           h  == clientPrepareHello(client)
           c2 == clientMarshalHello(c1, h)
           c3 == clientSendEarlyData(c2)
<1>1. ClientTyped(c1) /\ c1.session = usableClientSession(client) /\ c1.secret = c.secret
  BY ClientFields DEF ClientTyped
<1>2. ClientTyped(c2) /\ c2.session = c1.session /\ c2.secret = c1.secret
  <2> HIDE DEF c1, h
  <2>1. Changes(c1, c2, {"inner", "innerBody", "hello", "body", "wire"})
    BY DEF Changes, clientMarshalHello
  <2>2. QED
    BY <1>1, <2>1, ClientKept, ClientFields DEF Changes, ClientTyped
<1>3. c2.hello[1].early = h.early
  <2>1. PlainHello(h).early = h.early
    BY DEF clientPrepareHello, PlainHello
  <2>2. OuterHello(h).early = h.early
    <3>1. "early" \in DOMAIN h
      BY DEF clientPrepareHello
    <3> HIDE DEF h
    <3>2. \A x : "early" \in DOMAIN x =>
                    /\ "early" \in DOMAIN InnerHello(x) /\ InnerHello(x).early = x.early
                    /\ "early" \in DOMAIN makeECHOuter(x)
                    /\ makeECHOuter(x).early = x.early
      BY DEF InnerHello, makeECHOuter
    <3>4. "early" \in DOMAIN InnerHello(h) /\ InnerHello(h).early = h.early
      BY <3>1, <3>2
    <3>5. "early" \in DOMAIN makeECHOuter(InnerHello(h))
          /\ makeECHOuter(InnerHello(h)).early = h.early
      BY <3>4, <3>2
    <3>6. QED
      BY <3>5 DEF OuterHello, computeOuterECH
  <2>3. c2.hello = <<PlainHello(h)>> \/ c2.hello = <<OuterHello(h)>>
    <3> HIDE DEF c1, h
    <3>1. QED
      BY <1>1, ClientFields DEF ClientTyped, clientMarshalHello
  <2>4. QED
    <3> HIDE DEF c2, h
    <3>1. QED
      BY SMT, <2>1, <2>2, <2>3
<1>4. ClientTyped(c3) /\ c3.secret = c2.secret
  <2>1. c2.hello[1].early => c2.session[1].early \in Nat
    <3>1. h.early => usableClientSession(client) # <<>>
      BY DEF clientPrepareHello
    <3>2. usableClientSession(client) \in {client.session, <<>>}
      BY DEF usableClientSession
    <3>3. QED
      BY <3>1, <3>2, <1>1, <1>2, <1>3, HandshakeAssumption DEF client
  <2>2. QED
    <3> HIDE DEF c2
    <3>1. DOMAIN c3 = DOMAIN c2 /\ c3.secret = c2.secret /\ c3.written = c2.written
      BY <1>2, ClientFields DEF ClientTyped, clientSendEarlyData
    <3>2. c3.early \in EarlyStates /\ c3.remaining \in Nat
      BY <1>2, <2>1, ClientFields DEF ClientTyped, clientSendEarlyData, EarlyStates
    <3>3. QED
      BY <3>1, <3>2, <1>2 DEF ClientTyped
<1>5. ClientTyped(Fail(c, "general_error")) /\ Fail(c, "general_error").secret = c.secret
  BY ClientFields DEF ClientTyped, Fail
<1>6. clientStart(c) \in {Fail(c, "general_error"), c3}
  BY DEF clientStart
<1>7. QED
  BY <1>1, <1>2, <1>4, <1>5, <1>6

(* Messages of the server's flight leave the keys and the state alone.     *)
LEMMA StagedStep ==
    ASSUME NEW c, NEW m, ClientTyped(c), c.err = None
    PROVE  LET d == Staged(c, m)
           IN  ClientTyped(d) /\ d.pc = c.pc /\ d.secret = c.secret
<1>1. Changes(c, Staged(c, m), {"err", "stage"})
  BY DEF Changes, Staged, Fail
<1>2. QED
  BY <1>1, ClientKept, ClientFields DEF Changes, ClientTyped

LEMMA EncryptedExtensionsStep ==
    ASSUME NEW c, NEW raw, ClientTyped(c), c.err = None
    PROVE  LET d == clientEncryptedExtensions(c, raw)
           IN  ClientTyped(d) /\ d.pc = c.pc /\ d.secret = c.secret
<1> DEFINE d == clientEncryptedExtensions(c, raw)
<1>1. Changes(c, d, {"err", "alpn", "meta", "serverType", "clientType", "typeSelected",
                     "limit", "earlyAccepted", "limits", "early", "transcript"})
  BY DEF Changes, clientEncryptedExtensions, Fail, Add
<1>2. d.early \in EarlyStates
  BY ClientFields DEF ClientTyped, clientEncryptedExtensions, EarlyStates,
     EarlyStatusAfter, Fail, Add
<1>3. QED
  BY <1>1, <1>2, ClientFields DEF Changes, ClientTyped

LEMMA FlightStep ==
    ASSUME NEW c, NEW m, ClientTyped(c), c.err = None
    PROVE  /\ LET d == clientCertificateRequest(c, m)
              IN  ClientTyped(d) /\ d.pc = c.pc /\ d.secret = c.secret
           /\ LET d == clientServerCertificate(c, m)
              IN  ClientTyped(d) /\ d.pc = c.pc /\ d.secret = c.secret
           /\ LET d == clientServerCertificateVerify(c, m)
              IN  ClientTyped(d) /\ d.pc = c.pc /\ d.secret = c.secret
<1>1. Changes(c, clientCertificateRequest(c, m), {"request", "transcript"})
  BY DEF Changes, clientCertificateRequest, Add
<1>2. Changes(c, clientServerCertificate(c, m), {"err", "peer", "transcript"})
  BY DEF Changes, clientServerCertificate, Add, Fail
<1>3. Changes(c, clientServerCertificateVerify(c, m), {"err", "verified", "transcript"})
  BY DEF Changes, clientServerCertificateVerify, Add, Fail
<1>4. QED
  BY <1>1, <1>2, <1>3, ClientKept, ClientFields DEF Changes, ClientTyped

LEMMA ServerFinishedStep ==
    ASSUME NEW c, NEW m, ClientTyped(c), c.err = None
    PROVE  LET d == clientServerFinished(c, m)
           IN  ClientTyped(d) /\ d.pc = c.pc /\ d.secret = c.secret
<1> DEFINE d == clientServerFinished(c, m)
<1>1. Changes(c, d, {"err", "early", "transcript"})
  BY DEF Changes, clientServerFinished, Fail, Add
<1>2. d.early \in EarlyStates
  BY ClientFields DEF ClientTyped, clientServerFinished, EarlyStates, Fail, Add
<1>3. QED
  BY <1>1, <1>2, ClientFields DEF Changes, ClientTyped

LEMMA CertificateMessagesStep ==
    ASSUME NEW s, NEW cert, NEW names
    PROVE  /\ Changes(s, CertificateMessages(s, cert, names).state, {"transcript"})
           /\ IsList(CertificateMessages(s, cert, names).out)
           /\ \A i \in DOMAIN CertificateMessages(s, cert, names).out :
                 CertificateMessages(s, cert, names).out[i].typ # "Finished"
<1> DEFINE m  == [typ |-> "Certificate", cert |-> cert, names |-> names]
           t  == Add(s, m)
           cv == [typ |-> "CertificateVerify", over |-> t.transcript]
           r  == CertificateMessages(s, cert, names)
<1>1. r = [state |-> t, out |-> <<m>>] \/ r = [state |-> Add(t, cv), out |-> <<m, cv>>]
  BY DEF CertificateMessages
<1>2. Changes(s, t, {"transcript"}) /\ Changes(s, Add(t, cv), {"transcript"})
  BY SMTT(30), AddChanges DEF Changes
<1>3. m.typ # "Finished" /\ cv.typ # "Finished"
  OBVIOUS
<1> HIDE DEF m, t, cv, r
<1>4. IsList(<<m>>) /\ IsList(<<m, cv>>)
  BY SMTT(30) DEF IsList, Range
<1>5. QED
  BY SMT, <1>1, <1>2, <1>3, <1>4 DEF r

(* The client's flight ends in its Finished.                               *)
LEMMA AuthAndFinishedStep ==
    ASSUME NEW c, ClientTyped(c), c.err = None
    PROVE  LET f == clientSendAuthAndFinished(c)
           IN  /\ ClientTyped(f.state) /\ f.state.pc = "ack" /\ f.state.err = None
               /\ f.state.secret = c.secret /\ f.state.ech = c.ech
               /\ IsList(f.out) /\ f.out # <<>> /\ LastOf(f.out).typ = "Finished"
<1> DEFINE cert == selectClientCertificate(c)
           auth == IF c.request THEN CertificateMessages(c, cert, {})
                   ELSE [state |-> c, out |-> <<>>]
           fin  == Finished(auth.state)
           t    == Add(auth.state, fin)
           u    == [t EXCEPT !.pc = "ack", !.sentCert = IF c.request THEN cert ELSE None]
           f    == clientSendAuthAndFinished(c)
<1>1. Changes(c, auth.state, {"transcript"}) /\ IsList(auth.out)
  BY SMT, CertificateMessagesStep DEF Changes, IsList, Range
<1>2. f = [state |-> u, out |-> Append(auth.out, fin)]
  BY DEF clientSendAuthAndFinished
<1>3. Changes(c, t, {"transcript"})
  <2> HIDE DEF auth
  <2>1. QED
    BY SMTT(30), <1>1, AddChanges DEF Changes
<1>4. Changes(t, u, {"pc", "sentCert"}) /\ ("pc" \in DOMAIN t => u.pc = "ack")
  <2> HIDE DEF t, cert
  <2>1. QED
    BY DEF Changes
<1>5. fin.typ = "Finished"
  BY DEF Finished
<1> HIDE DEF auth, fin, t, u, cert
<1>6. IsList(Append(auth.out, fin)) /\ Append(auth.out, fin) # <<>>
      /\ LastOf(Append(auth.out, fin)) = fin
  BY SMTT(30), <1>1 DEF IsList, LastOf, Range
<1>7. Changes(c, u, {"transcript", "pc", "sentCert"}) /\ u.pc = "ack"
  BY <1>3, <1>4, ClientFields DEF Changes, ClientTyped
<1>8. ClientTyped(u) /\ u.err = None /\ u.secret = c.secret /\ u.ech = c.ech
  BY <1>7, ClientKept, ClientFields DEF Changes, ClientTyped
<1>9. QED
  BY SMTT(30), <1>2, <1>5, <1>6, <1>7, <1>8

LEMMA FinalizeStep ==
    ASSUME NEW c, ClientTyped(c), c.err = None
    PROVE  /\ LET d == clientFinalize(c)
              IN  ClientTyped(d) /\ d.pc = c.pc /\ d.secret = c.secret
           /\ LET d == clientAwaitFinalACK(c)
              IN  ClientTyped(d) /\ d.pc = c.pc /\ d.secret = c.secret /\ d.err = None
<1>1. Changes(c, clientFinalize(c), {"err", "finalized"})
      /\ (c.ech # "rejected" => clientFinalize(c).err = None)
  BY ClientFields DEF Changes, clientFinalize, Fail, ClientTyped
<1>2. ClientTyped(clientFinalize(c)) /\ clientFinalize(c).pc = c.pc
      /\ clientFinalize(c).secret = c.secret
  BY <1>1, ClientKept, ClientFields DEF Changes, ClientTyped
<1>3. QED
  BY <1>1, <1>2 DEF clientAwaitFinalACK

-----------------------------------------------------------------------------
(* Lists of datagrams.                                                     *)
LEMMA ListOf ==
    ASSUME NEW S, NEW q \in Seq(S)
    PROVE  IsList(q)
<1>1. Len(q) \in Nat /\ DOMAIN q = 1 .. Len(q) /\ q = [i \in 1 .. Len(q) |-> q[i]]
  BY SMT
<1>2. \A i \in 1 .. Len(q) : q[i] \in Range(q)
  BY <1>1 DEF Range
<1>3. q \in [1 .. Len(q) -> Range(q)]
  BY <1>1, <1>2
<1>4. QED
  BY SMT, <1>1, <1>3 DEF IsList

LEMMA ListTail ==
    ASSUME NEW q, IsList(q), q # <<>>
    PROVE  /\ IsList(Tail(q)) /\ Head(q) = q[1] /\ 1 \in DOMAIN q
           /\ Tail(q) = <<>> => LastOf(q) = Head(q)
           /\ Tail(q) # <<>> => LastOf(Tail(q)) = LastOf(q)
           /\ \A i \in DOMAIN Tail(q) : i + 1 \in DOMAIN q /\ Tail(q)[i] = q[i + 1]
<1>1. PICK S : q \in Seq(S)
  BY DEF IsList
<1>2. Tail(q) \in Seq(S) /\ Len(Tail(q)) = Len(q) - 1 /\ Len(q) \in Nat \ {0}
  BY SMTT(30), <1>1
<1>3. \A i \in 1 .. Len(q) - 1 : Tail(q)[i] = q[i + 1]
  BY SMTT(30), <1>1
<1>4. DOMAIN Tail(q) = 1 .. Len(q) - 1 /\ DOMAIN q = 1 .. Len(q)
  BY SMTT(30), <1>1, <1>2
<1>5. \A i \in DOMAIN Tail(q) : i + 1 \in DOMAIN q /\ Tail(q)[i] = q[i + 1]
  BY SMTT(30), <1>2, <1>3, <1>4
<1>6. IsList(Tail(q))
  BY <1>2, ListOf
<1>7. Tail(q) = <<>> => Len(q) = 1
  <2>1. Len(<<>>) = 0
    OBVIOUS
  <2>2. Tail(q) = <<>> => Len(Tail(q)) = 0
    BY <2>1
  <2>3. QED
    BY SMT, <1>2, <2>2
<1>8. Tail(q) # <<>> => Len(q) - 1 \in 1 .. Len(q) - 1
  BY SMT, <1>1, <1>2
<1>9. Head(q) = q[1] /\ 1 \in DOMAIN q
  BY SMT, <1>1, <1>2, <1>4
<1>10. QED
  BY SMTT(30), <1>2, <1>3, <1>5, <1>6, <1>7, <1>8, <1>9 DEF LastOf

LEMMA ListConcat ==
    ASSUME NEW p, NEW q, IsList(p), IsList(q)
    PROVE  /\ IsList(p \o q)
           /\ q = <<>> => p \o q = p
           /\ p = <<>> => p \o q = q
           /\ q # <<>> => p \o q # <<>> /\ LastOf(p \o q) = LastOf(q)
           /\ p # <<>> => p \o q # <<>>
           /\ \A i \in DOMAIN (p \o q) :
                 \/ \E j \in DOMAIN p : (p \o q)[i] = p[j]
                 \/ \E j \in DOMAIN q : (p \o q)[i] = q[j]
<1> DEFINE S == Range(p) \cup Range(q)
           r == p \o q
<1>1. p \in Seq(S) /\ q \in Seq(S)
  BY SMT DEF IsList
<1> HIDE DEF S
<1>2. r \in Seq(S) /\ Len(r) = Len(p) + Len(q) /\ Len(p) \in Nat /\ Len(q) \in Nat
  BY SMTT(30), <1>1
<1>3. DOMAIN p = 1 .. Len(p) /\ DOMAIN q = 1 .. Len(q) /\ DOMAIN r = 1 .. Len(r)
  BY SMTT(30), <1>1, <1>2
<1>4. /\ \A i \in 1 .. Len(p) : r[i] = p[i]
      /\ \A i \in Len(p) + 1 .. Len(p) + Len(q) : r[i] = q[i - Len(p)]
  BY SMTT(30), <1>1, <1>2
<1>5. \A i \in DOMAIN r : \/ \E j \in DOMAIN p : r[i] = p[j]
                          \/ \E j \in DOMAIN q : r[i] = q[j]
  <2>1. SUFFICES ASSUME NEW i \in DOMAIN r
                 PROVE  \/ \E j \in DOMAIN p : r[i] = p[j]
                        \/ \E j \in DOMAIN q : r[i] = q[j]
    OBVIOUS
  <2>2. CASE i \in 1 .. Len(p)
    BY <2>2, <1>3, <1>4
  <2>3. CASE i \in Len(p) + 1 .. Len(p) + Len(q)
    <3>1. i - Len(p) \in DOMAIN q
      BY SMTT(30), <2>3, <1>2, <1>3
    <3>2. QED
      BY <2>3, <3>1, <1>4
  <2>4. QED
    BY SMTT(30), <2>2, <2>3, <1>2, <1>3
<1>6. q = <<>> => r = p
  BY SMT, <1>1
<1>7. p = <<>> => r = q
  BY SMTT(30), <1>1
<1>8. q # <<>> => r # <<>> /\ LastOf(r) = LastOf(q)
  <2>1. SUFFICES ASSUME q # <<>> PROVE r # <<>> /\ LastOf(r) = LastOf(q)
    OBVIOUS
  <2>2. Len(q) # 0
    BY SMTT(30), <2>1, <1>1
  <2>3. r # <<>> /\ Len(r) \in Len(p) + 1 .. Len(p) + Len(q) /\ Len(r) - Len(p) = Len(q)
    BY SMTT(30), <1>2, <2>2
  <2>4. QED
    BY <2>3, <1>4 DEF LastOf
<1>9. p # <<>> => r # <<>>
  <2>1. p # <<>> => Len(p) # 0
    BY SMT, <1>1
  <2>2. QED
    BY SMTT(30), <2>1, <1>2
<1>10. IsList(r)
  BY <1>2, ListOf
<1>11. QED
  BY <1>5, <1>6, <1>7, <1>8, <1>9, <1>10

LEMMA SingleList ==
    ASSUME NEW x
    PROVE  /\ IsList(<<x>>) /\ <<x>> # <<>> /\ LastOf(<<x>>) = x
           /\ DOMAIN <<x>> = {1} /\ Len(<<x>>) = 1
           /\ IsList(<<>>) /\ DOMAIN <<>> = {} /\ Len(<<>>) = 0
  BY SMT DEF IsList, LastOf, Range

LEMMA ListAppend ==
    ASSUME NEW q, NEW x, IsList(q)
    PROVE  IsList(q \o <<x>>) /\ q \o <<x>> # <<>> /\ LastOf(q \o <<x>>) = x
  BY SMT, SingleList, ListConcat

LEMMA ProtectList ==
    ASSUME NEW s, NEW q, IsList(q)
    PROVE  /\ IsList(Protect(s, q))
           /\ DOMAIN Protect(s, q) = DOMAIN q
           /\ \A i \in DOMAIN q : /\ Protect(s, q)[i].key = s.secret
                                  /\ Protect(s, q)[i].msg = q[i]
           /\ q # <<>> => /\ Protect(s, q) # <<>>
                          /\ LastOf(Protect(s, q)).key = s.secret
                          /\ LastOf(Protect(s, q)).msg = LastOf(q)
<1> DEFINE r == Protect(s, q)
<1>1. PICK n \in Nat : DOMAIN q = 1 .. n /\ n = Len(q)
  BY SMTT(30) DEF IsList
<1>2. DOMAIN r = DOMAIN q
      /\ \A i \in DOMAIN q : r[i] = [key |-> s.secret, msg |-> q[i]]
  BY DEF Protect
<1>3. r = [i \in 1 .. n |-> [key |-> s.secret, msg |-> q[i]]]
  BY <1>1 DEF Protect
<1>4. r \in Seq(Range(r)) /\ Len(r) = n
  <2>1. \A i \in 1 .. n : r[i] \in Range(r)
    BY <1>1, <1>2 DEF Range
  <2> HIDE DEF r
  <2>2. r \in [1 .. n -> Range(r)]
    BY <1>3, <2>1
  <2>3. QED
    BY SMTT(30), <2>2
<1>5. q # <<>> => n # 0
  BY SMT, <1>1 DEF IsList
<1> HIDE DEF r
<1>6. q # <<>> => r # <<>> /\ n \in DOMAIN q
  BY SMTT(30), <1>4, <1>5, <1>1
<1>7. q # <<>> => r[n].key = s.secret /\ r[n].msg = q[n]
  BY SMTT(30), <1>2, <1>6
<1>8. q # <<>> => LastOf(r) = r[n] /\ LastOf(q) = q[n]
  BY <1>1, <1>4 DEF LastOf
<1>9. \A i \in DOMAIN q : r[i].key = s.secret /\ r[i].msg = q[i]
  BY SMTT(30), <1>2
<1>10. IsList(r)
  BY <1>4 DEF IsList
<1>11. QED
  BY <1>2, <1>6, <1>7, <1>8, <1>9, <1>10 DEF r

-----------------------------------------------------------------------------
(* The server's steps.                                                     *)
LEMMA ServerFields ==
    /\ "pc" \in DOMAIN ServerInit /\ "err" \in DOMAIN ServerInit
    /\ "unsent" \in DOMAIN ServerInit /\ "secret" \in DOMAIN ServerInit
    /\ "hrrUsed" \in DOMAIN ServerInit /\ "psk" \in DOMAIN ServerInit
    /\ "ticket" \in DOMAIN ServerInit /\ "stage" \in DOMAIN ServerInit
    /\ "clientCert" \in DOMAIN ServerInit /\ "verified" \in DOMAIN ServerInit
    /\ "earlyStatus" \in DOMAIN ServerInit /\ "hrr" \in DOMAIN ServerInit
    /\ "early" \in DOMAIN ServerInit /\ "body" \in DOMAIN ServerInit
  BY DEF ServerInit

LEMMA ServerInitTyped ==
    /\ ServerTyped(ServerInit)
    /\ ServerInit.pc = "start" /\ ServerInit.err = None /\ ServerInit.hrrUsed
    /\ ServerInit.unsent = <<>> /\ ServerInit.psk = None /\ ServerInit.ticket = <<>>
  BY SingleList DEF ServerInit, ServerTyped, EarlyStates

LEMMA ServerKept ==
    ASSUME NEW s, NEW t, NEW F, ServerTyped(s), Changes(s, t, F),
           "unsent" \notin F, "earlyStatus" \notin F
    PROVE  ServerTyped(t)
  BY ServerFields DEF ServerTyped, Changes

(* The PSK of a server that requires client certificates is a ticket that  *)
(* stands for a recent one: a configuration with client authentication has *)
(* no external PSK.                                                        *)
LEMMA TicketTaken ==
    ASSUME NEW config, NEW hello, NEW identity, NEW suite, NEW protocol,
           TicketAccepted(config, hello, identity, suite, protocol)
    PROVE  \E t : /\ Opened(config, identity) = <<t>>
                  /\ validClientAuthenticationTicket(config, t)
<1> DEFINE o == Opened(config, identity)
<1>1. PICK t \in Range(o) : validClientAuthenticationTicket(config, t)
  BY DEF TicketAccepted
<1>2. o = <<>> \/ \E u : o = <<u>>
  BY DEF Opened
<1>3. o # <<>>
  BY SMT, <1>1 DEF Range
<1>4. PICK u : o = <<u>>
  BY <1>2, <1>3
<1>5. t = u
  <2> HIDE DEF o
  <2>1. QED
    BY SMT, <1>1, <1>4 DEF Range
<1>6. QED
  BY <1>1, <1>4, <1>5

(* A set of positions in a list has a least element.                       *)
LEMMA MinTaken ==
    ASSUME NEW S, S \subseteq Nat, S # {}
    PROVE  Min(S) \in S /\ \A y \in S : Min(S) <= y
<1>1. PICK x \in S : \A y \in S : ~(<<y, x>> \in OpToRel(<, Nat))
  BY NatLessThanWellFounded, WFMin
<1>2. ASSUME NEW y \in S PROVE x <= y
  <2>1. y \in Nat /\ x \in Nat
    OBVIOUS
  <2>2. y < x => <<y, x>> \in OpToRel(<, Nat)
    BY <2>1 DEF OpToRel
  <2>3. ~(y < x)
    BY <1>1, <2>2
  <2>4. QED
    BY <2>1, <2>3, SMTT(30)
<1>3. \E z \in S : \A y \in S : z <= y
  BY <1>2
<1>4. QED
  BY <1>3 DEF Min

LEMMA PSKTaken ==
    ASSUME NEW config, NEW hello, NEW suite, NEW protocol, NEW prior,
           config.clientAuth = "require", config.psks = <<>>
    PROVE  LET r == acceptPSK(config, hello, suite, protocol, prior)
           IN  \/ ~r.found /\ r.psk = None /\ r.ticket = <<>>
               \/ \E t : r.ticket = <<t>> /\ t.authFresh /\ t.clientCert # None
<1> DEFINE r == acceptPSK(config, hello, suite, protocol, prior)
           ids == IF hello.pskDHE THEN hello.ids ELSE <<>>
           T(i) == TicketAccepted(config, hello, ids[i].id, suite, protocol)
           N(i) == T(i) /\ Opened(config, ids[i].id)[1].age = "negative"
           C == {i \in 1 .. Len(ids) :
                    (T(i) \/ findExternalPSK(config, ids[i].id, HashOf[suite])) /\ ~N(i)}
<1>1. \A id, hash : ~findExternalPSK(config, id, hash)
  BY SMTT(30) DEF findExternalPSK, Range
<1>2. CASE C = {}
  BY <1>2 DEF acceptPSK
<1>3. CASE C # {}
  <2> DEFINE i == Min(C)
  <2>1. C \subseteq Nat
    BY SMTT(30)
  <2>2. i \in C
    <3> HIDE DEF C
    <3>1. QED
      BY <1>3, <2>1, MinTaken
  <2>3. T(i)
    BY <2>2, <1>1
  <2>4. PICK t : Opened(config, ids[i].id) = <<t>> /\ validClientAuthenticationTicket(config, t)
    BY <2>3, TicketTaken
  <2>5. r.ticket = IF T(i) THEN Opened(config, ids[i].id) ELSE <<>>
    BY <1>3 DEF acceptPSK
  <2>6. t.authFresh /\ t.clientCert # None
    BY <2>4 DEF validClientAuthenticationTicket
  <2> HIDE DEF i, T, r
  <2>7. QED
    BY <2>3, <2>4, <2>5, <2>6 DEF r
<1>4. QED
  BY <1>2, <1>3


(* FirstError finds no error only if no check fails.                       *)
LEMMA FirstErrorNone ==
    ASSUME NEW checks, DOMAIN checks \subseteq Nat, FirstError(checks) = None,
           \A i \in DOMAIN checks : checks[i][2] # None
    PROVE  \A i \in DOMAIN checks : ~checks[i][1]
<1> DEFINE failed == {i \in DOMAIN checks : checks[i][1]}
<1>1. failed \subseteq Nat
  OBVIOUS
<1>2. failed # {} => Min(failed) \in DOMAIN checks
  <2> HIDE DEF failed
  <2>1. failed # {} => Min(failed) \in failed
    BY <1>1, MinTaken
  <2>2. QED
    BY <2>1 DEF failed
<1>3. failed # {} => FirstError(checks) = checks[Min(failed)][2]
  BY DEF FirstError
<1>4. failed = {}
  <2> HIDE DEF failed
  <2>1. QED
    BY <1>2, <1>3
<1>5. QED
  BY <1>4

Permitted(s) ==
    server.clientAuth = "require" /\ s.psk # None =>
        \E t : s.ticket = <<t>> /\ t.authFresh /\ t.clientCert # None

LEMMA TryEarlyDataStep ==
    ASSUME NEW s, ServerTyped(s), sc \in Scenarios, s.err = None
    PROVE  LET t == serverTryEarlyDataWithoutCookie(s)
           IN  /\ Changes(s, t, {"err", "psk", "index", "ticket", "early", "hrrUsed"})
               /\ t.err = None => t = s \/ (~t.hrrUsed /\ Permitted(t))
<1> DEFINE t == serverTryEarlyDataWithoutCookie(s)
           r == acceptPSK(server, s.ch[1], s.suite, negotiateALPN(server.alpn, s.ch[1].alpn), <<>>)
           u == [applyPSKSelection(s, r) EXCEPT !.hrrUsed = FALSE]
<1>1. t \in {s, Fail(s, "decrypt_error"), u}
  BY DEF serverTryEarlyDataWithoutCookie
<1>2. Changes(s, u, {"err", "psk", "index", "ticket", "early", "hrrUsed"})
  <2> HIDE DEF r
  <2>1. QED
    BY DEF Changes, applyPSKSelection
<1>3. Permitted(u) /\ ~u.hrrUsed
  <2>1. u.psk = r.psk /\ u.ticket = r.ticket /\ ~u.hrrUsed
    <3> HIDE DEF r
    <3>1. QED
      BY ServerFields DEF ServerTyped, applyPSKSelection
  <2>2. server.clientAuth = "require" => server.psks = <<>>
    BY HandshakeAssumption DEF server
  <2>3. server.clientAuth = "require" =>
          \/ r.psk = None
          \/ \E x : r.ticket = <<x>> /\ x.authFresh /\ x.clientCert # None
    BY SMT, <2>2, PSKTaken
  <2> HIDE DEF r, u
  <2>4. QED
    BY <2>1, <2>3 DEF Permitted
<1>4. Changes(s, Fail(s, "decrypt_error"), {"err", "psk", "index", "ticket", "early", "hrrUsed"})
      /\ Fail(s, "decrypt_error").err # None
  BY ServerFields DEF Changes, Fail, ServerTyped, None
<1>5. Changes(s, s, {"err", "psk", "index", "ticket", "early", "hrrUsed"})
  BY DEF Changes
<1> HIDE DEF t, u
<1>6. QED
  BY SMT, <1>1, <1>2, <1>3, <1>4, <1>5 DEF t

LEMMA FirstHelloChanges ==
    ASSUME NEW s, NEW body
    PROVE  /\ Changes(s, serverReceiveClientHello(s, body), {"err", "outer", "ch", "body"})
           /\ Changes(s, serverProcessECH(s), {"err", "ech", "ch", "body"})
           /\ Changes(s, serverSelectInitial(s), {"err", "initial", "initialBody", "suite"})
           /\ Changes(s, SelectShareAndProtocol(s), {"err", "alpn", "share"})
<1>1. Changes(s, serverReceiveClientHello(s, body), {"err", "outer", "ch", "body"})
  BY DEF Changes, serverReceiveClientHello, Fail
<1>2. Changes(s, serverProcessECH(s), {"err", "ech", "ch", "body"})
  BY DEF Changes, serverProcessECH, Fail
<1>3. Changes(s, serverSelectInitial(s), {"err", "initial", "initialBody", "suite"})
  BY DEF Changes, serverSelectInitial, Fail
<1>4. Changes(s, SelectShareAndProtocol(s), {"err", "alpn", "share"})
  BY DEF Changes, SelectShareAndProtocol, Fail
<1>5. QED
  BY <1>1, <1>2, <1>3, <1>4

(* After the first hello the server either has chosen no PSK and asks for  *)
(* another hello, or has chosen one it may accept at once.                 *)
LEMMA FirstHelloStep ==
    ASSUME NEW s, NEW body, ServerTyped(s), sc \in Scenarios, s.err = None,
           s.psk = None, s.ticket = <<>>, s.hrrUsed
    PROVE  LET t == ServerFirstHello(s, body)
           IN  /\ ServerTyped(t)
               /\ t.pc = s.pc /\ t.unsent = s.unsent /\ t.secret = s.secret
               /\ t.err = None /\ t.hrrUsed => t.psk = None /\ t.ticket = <<>>
               /\ t.err = None => Permitted(t)
<1> DEFINE F  == {"err", "outer", "ch", "body", "ech", "initial", "initialBody", "suite"}
           G  == {"err", "psk", "index", "ticket", "early", "hrrUsed"}
           s1 == serverReceiveClientHello(s, body)
           s2 == IF s1.err # None THEN s1 ELSE serverProcessECH(s1)
           s3 == IF s2.err # None THEN s2 ELSE serverSelectInitial(s2)
           t  == IF s3.err # None THEN s3 ELSE serverTryEarlyDataWithoutCookie(s3)
<1>1. ServerFirstHello(s, body) = t
  BY DEF ServerFirstHello, Then
<1>2. Changes(s, s1, F)
  BY SMTT(30), FirstHelloChanges DEF Changes
<1>3. Changes(s, s2, F)
  <2> HIDE DEF s1
  <2>1. Changes(s1, serverProcessECH(s1), F)
    BY FirstHelloChanges DEF Changes
  <2>2. QED
    BY <1>2, <2>1 DEF Changes
<1>4. Changes(s, s3, F)
  <2> HIDE DEF s2
  <2>1. Changes(s2, serverSelectInitial(s2), F)
    BY FirstHelloChanges DEF Changes
  <2>2. QED
    BY <1>3, <2>1 DEF Changes
<1> HIDE DEF s3
<1>5. ServerTyped(s3) /\ s3.pc = s.pc /\ s3.unsent = s.unsent /\ s3.secret = s.secret
      /\ s3.psk = None /\ s3.ticket = <<>> /\ s3.hrrUsed
  BY <1>4, ServerKept, ServerFields DEF Changes, ServerTyped
<1>6. CASE s3.err # None
  BY <1>1, <1>5, <1>6
<1>7. CASE s3.err = None
  <2> DEFINE u == serverTryEarlyDataWithoutCookie(s3)
  <2>1. /\ Changes(s3, u, G)
        /\ u.err = None => u = s3 \/ (~u.hrrUsed /\ Permitted(u))
    BY <1>5, <1>7, TryEarlyDataStep
  <2> HIDE DEF u
  <2>2. ServerTyped(u) /\ u.pc = s.pc /\ u.unsent = s.unsent /\ u.secret = s.secret
    BY <1>5, <2>1, ServerKept, ServerFields DEF Changes, ServerTyped
  <2>3. Permitted(s3)
    BY <1>5 DEF Permitted
  <2>4. t = u
    BY <1>7 DEF u
  <2> HIDE DEF t
  <2>5. QED
    BY <1>1, <1>5, <2>1, <2>2, <2>3, <2>4
<1>8. QED
  BY <1>6, <1>7

LEMMA RetryRequestStep ==
    ASSUME NEW s, NEW cookie, ServerTyped(s), s.err = None
    PROVE  LET t == serverSendHelloRetryRequest(s, cookie)
           IN  /\ ServerTyped(t) /\ t.unsent = s.unsent
               /\ t.psk = s.psk /\ t.ticket = s.ticket
               /\ t.err = None => /\ t.pc = "hrr"
                                  /\ t.hrr[1].typ = "HelloRetryRequest"
<1> DEFINE t == serverSendHelloRetryRequest(s, cookie)
<1>1. Changes(s, t, {"err", "pc", "hrr", "requestedGroup", "earlyStatus"})
  BY DEF Changes, serverSendHelloRetryRequest, Fail
<1>2. t.err = None => t.pc = "hrr" /\ t.hrr = <<RetryMessage(s, cookie)>>
  BY ServerFields DEF serverSendHelloRetryRequest, Fail, ServerTyped, None
<1>3. t.earlyStatus \in EarlyStates
  BY ServerFields DEF serverSendHelloRetryRequest, Fail, ServerTyped, EarlyStates
<1>4. RetryMessage(s, cookie).typ = "HelloRetryRequest"
  BY DEF RetryMessage, marshalHelloRetryRequest
<1> HIDE DEF t
<1>5. QED
  BY SMTT(30), <1>1, <1>2, <1>3, <1>4, ServerFields DEF Changes, ServerTyped, t


LEMMA SecondHelloStep ==
    ASSUME NEW s, NEW wire, ServerTyped(s)
    PROVE  LET t == serverReceiveSecondClientHello(s, wire)
           IN  /\ ServerTyped(t) /\ t.pc = s.pc /\ t.unsent = s.unsent
               /\ t.psk = s.psk /\ t.ticket = s.ticket
<1>1. Changes(s, serverReceiveSecondClientHello(s, wire), {"err", "age", "ch", "body"})
  BY DEF Changes, serverReceiveSecondClientHello, Fail
<1>2. QED
  BY <1>1, ServerKept, ServerFields DEF Changes, ServerTyped

LEMMA RenegotiateStep ==
    ASSUME NEW s, ServerTyped(s), sc \in Scenarios, s.err = None,
           s.psk = None, s.ticket = <<>>
    PROVE  LET t == serverRenegotiateAfterHRR(s)
           IN  ServerTyped(t) /\ (t.err = None => Permitted(t))
<1> DEFINE suite == selectServerCipherSuite(server, s.ch[1])
           s1 == [s EXCEPT !.suite = suite]
           s2 == SelectShareAndProtocol(s1)
           r  == acceptPSK(server, s2.ch[1], suite, s2.alpn, <<CH(s.initialBody), s.hrr[1]>>)
           t  == serverRenegotiateAfterHRR(s)
<1>1. ServerTyped(s1) /\ s1.psk = None /\ s1.ticket = <<>>
  BY ServerFields DEF ServerTyped
<1>2. ServerTyped(s2) /\ s2.psk = None /\ s2.ticket = <<>>
  <2> HIDE DEF s1
  <2>1. Changes(s1, s2, {"err", "alpn", "share"})
    BY FirstHelloChanges
  <2>2. QED
    BY <1>1, <2>1, ServerKept, ServerFields DEF Changes, ServerTyped
<1>3. t \in {Fail(s, "handshake_failure"), s2, Fail(s2, "decrypt_error"),
             applyPSKSelection(s2, r), [s2 EXCEPT !.early = FALSE]}
      /\ (t = applyPSKSelection(s2, r) \/ t.err # None \/ t.psk = None)
  <2>1. Fail(s, "handshake_failure").err # None /\ Fail(s2, "decrypt_error").err # None
        /\ [s2 EXCEPT !.early = FALSE].psk = None
    <3> HIDE DEF s2
    <3>1. QED
      BY <1>2, ServerFields DEF Fail, ServerTyped, None
  <2>2. t = IF suite = None THEN Fail(s, "handshake_failure")
            ELSE IF s2.err # None THEN s2
            ELSE IF ~r.binderOK THEN Fail(s2, "decrypt_error")
            ELSE IF r.found THEN applyPSKSelection(s2, r)
            ELSE [s2 EXCEPT !.early = FALSE]
    BY DEF serverRenegotiateAfterHRR, Then
  <2> HIDE DEF s2, r, t, suite
  <2>3. QED
    BY <1>2, <2>1, <2>2
<1>4. ServerTyped(applyPSKSelection(s2, r)) /\ Permitted(applyPSKSelection(s2, r))
  <2>1. applyPSKSelection(s2, r).psk = r.psk /\ applyPSKSelection(s2, r).ticket = r.ticket
        /\ Changes(s2, applyPSKSelection(s2, r), {"psk", "index", "ticket", "early"})
    <3> HIDE DEF r, s2
    <3>1. QED
      BY <1>2, ServerFields DEF ServerTyped, applyPSKSelection, Changes
  <2>2. server.clientAuth = "require" => server.psks = <<>>
    BY HandshakeAssumption DEF server
  <2>3. server.clientAuth = "require" =>
          \/ r.psk = None
          \/ \E x : r.ticket = <<x>> /\ x.authFresh /\ x.clientCert # None
    BY SMTT(30), <2>2, PSKTaken
  <2> HIDE DEF r, s2
  <2>4. Permitted(applyPSKSelection(s2, r))
    BY <2>1, <2>3 DEF Permitted
  <2>5. QED
    BY SMTT(30), <1>2, <2>1, <2>4, ServerKept
<1>5. ServerTyped(Fail(s, "handshake_failure")) /\ ServerTyped(Fail(s2, "decrypt_error"))
      /\ ServerTyped([s2 EXCEPT !.early = FALSE])
  <2> HIDE DEF s2
  <2>1. Changes(s2, [s2 EXCEPT !.early = FALSE], {"early"})
    BY DEF Changes
  <2>2. QED
    BY <1>2, <2>1, FailChanges, ServerKept
<1> HIDE DEF t, s2, r
<1>6. QED
  BY <1>2, <1>3, <1>4, <1>5 DEF t, Permitted

LEMMA FlightChanges ==
    ASSUME NEW s
    PROVE  /\ Changes(s, serverNegotiateExtensionsAndKeyShare(s),
                      {"err", "limits", "clientType", "typeNegotiated", "serverType"})
           /\ Changes(s, serverBuildServerHello(s), {"transcript", "cids", "rrc", "unsent"})
           /\ Changes(s, serverDeriveHandshakeKeys(s), {"secret"})
           /\ Changes(s, serverDeriveApplicationSecrets(s),
                      {"pc", "earlyStatus", "ready", "clientCert", "stage"})
<1>1. Changes(s, serverNegotiateExtensionsAndKeyShare(s),
                      {"err", "limits", "clientType", "typeNegotiated", "serverType"})
  BY DEF Changes, serverNegotiateExtensionsAndKeyShare, Fail
<1>2. Changes(s, serverBuildServerHello(s), {"transcript", "cids", "rrc", "unsent"})
  BY DEF Changes, serverBuildServerHello
<1>3. Changes(s, serverDeriveHandshakeKeys(s), {"secret"})
  BY DEF Changes, serverDeriveHandshakeKeys
<1>4. Changes(s, serverDeriveApplicationSecrets(s),
                      {"pc", "earlyStatus", "ready", "clientCert", "stage"})
  BY DEF Changes, serverDeriveApplicationSecrets
<1>5. QED
  BY <1>1, <1>2, <1>3, <1>4

(* The flight the server sends ends in its Finished, and every Finished in *)
(* it is protected with the handshake keys.                                *)
LEMMA SendFlightStep ==
    ASSUME NEW s, ServerTyped(s), s.err = None, FinishedUnder(s.unsent, s.secret)
    PROVE  LET t == serverSendFlight(s)
           IN  /\ Changes(s, t, {"err", "secret", "unsent", "transcript", "tickets", "meta"})
               /\ IsList(t.unsent)
               /\ t.err = None => /\ t.secret = s.secret
                                  /\ EndsIn(t.unsent, "Finished")
                                  /\ FinishedUnder(t.unsent, t.secret)
<1> DEFINE ee   == marshalEncryptedExtensions(EncryptedAnswer(s))
           t0   == Add([s EXCEPT !.tickets = TicketCount(s),
                                 !.meta = EncryptedAnswer(s).meta], ee)
           t1   == IF requestsClientCertificate(s)
                   THEN Add(t0, [typ |-> "CertificateRequest"]) ELSE t0
           auth == IF ServerUsingPSK(s) THEN [state |-> t1, out |-> <<>>]
                   ELSE CertificateMessages(t1, s.serverType, server.names)
           fin  == Finished(auth.state)
           out  == <<ee>> \o CertificateRequests(s) \o auth.out \o <<fin>>
           u    == Add(auth.state, fin)
           t    == serverSendFlight(s)
           bad  == Fail([s EXCEPT !.secret = <<>>], "illegal_parameter")
           good == [u EXCEPT !.unsent = @ \o Protect(s, out)]
           F    == {"err", "secret", "unsent", "transcript", "tickets", "meta"}
<1>1. t \in {bad, good}
  BY DEF serverSendFlight
<1>2. Changes(s, bad, F) /\ IsList(bad.unsent) /\ bad.err # None
  BY ServerFields DEF Changes, Fail, ServerTyped, None
<1>3. Changes(s, t0, F \ {"err", "secret", "unsent"})
  <2> HIDE DEF ee
  <2>1. QED
    BY DEF Changes, Add
<1>4. Changes(s, t1, F \ {"err", "secret", "unsent"})
  <2> HIDE DEF t0
  <2>1. Changes(t0, Add(t0, [typ |-> "CertificateRequest"]), {"transcript"})
    BY AddChanges
  <2>2. QED
    BY <1>3, <2>1 DEF Changes
<1>5. Changes(s, auth.state, F \ {"err", "secret", "unsent"}) /\ IsList(auth.out)
  <2> HIDE DEF t1
  <2>1. /\ Changes(t1, CertificateMessages(t1, s.serverType, server.names).state, {"transcript"})
        /\ IsList(CertificateMessages(t1, s.serverType, server.names).out)
    BY CertificateMessagesStep
  <2>2. QED
    BY <1>4, <2>1, SingleList DEF Changes
<1>6. Changes(s, u, F \ {"err", "secret", "unsent"})
  <2> HIDE DEF auth, fin
  <2>1. Changes(auth.state, u, {"transcript"})
    BY AddChanges
  <2>2. QED
    BY <1>5, <2>1 DEF Changes
<1>7. fin.typ = "Finished"
  BY DEF Finished
<1>8. IsList(CertificateRequests(s))
  BY SingleList DEF CertificateRequests
<1> HIDE DEF ee, t0, t1, auth, fin, u
<1>9. IsList(<<ee>> \o CertificateRequests(s) \o auth.out)
  <2>1. IsList(<<ee>> \o CertificateRequests(s))
    BY <1>8, SingleList, ListConcat
  <2>2. QED
    BY <2>1, <1>5, ListConcat
<1>10. IsList(out) /\ out # <<>> /\ LastOf(out) = fin
  <2> DEFINE w == <<ee>> \o CertificateRequests(s) \o auth.out
  <2>1. IsList(w)
    BY <1>9
  <2> HIDE DEF w
  <2>2. IsList(w \o <<fin>>) /\ w \o <<fin>> # <<>> /\ LastOf(w \o <<fin>>) = fin
    <3>1. IsList(<<fin>>) /\ <<fin>> # <<>> /\ LastOf(<<fin>>) = fin
      BY SingleList
    <3>2. QED
      BY <2>1, <3>1, ListConcat
  <2>3. QED
    BY <2>2 DEF w
<1> HIDE DEF out
<1>11. u.unsent = s.unsent /\ DOMAIN u = DOMAIN s /\ u.secret = s.secret
  BY <1>6, ServerFields DEF Changes, ServerTyped
<1> DEFINE p == Protect(s, out)
           q == s.unsent \o p
<1>12. /\ IsList(p) /\ p # <<>> /\ LastOf(p).msg.typ = "Finished"
       /\ \A i \in DOMAIN p : p[i].key = s.secret
  BY SMT, <1>7, <1>10, ProtectList
<1> HIDE DEF p
<1>13. IsList(q) /\ EndsIn(q, "Finished") /\ FinishedUnder(q, s.secret)
  <2>1. IsList(q) /\ q # <<>> /\ LastOf(q) = LastOf(p)
        /\ \A i \in DOMAIN q : \/ \E j \in DOMAIN s.unsent : q[i] = s.unsent[j]
                               \/ \E j \in DOMAIN p : q[i] = p[j]
    BY <1>12, ListConcat DEF ServerTyped
  <2> HIDE DEF q
  <2>2. QED
    BY <1>12, <2>1 DEF EndsIn, FinishedUnder
<1>14. Changes(s, good, F) /\ good.unsent = q /\ good.secret = s.secret
  <2>1. good = [u EXCEPT !.unsent = q]
    BY <1>11 DEF p
  <2> HIDE DEF q, good
  <2>2. QED
    BY <1>6, <1>11, <2>1, ServerFields DEF Changes, ServerTyped
<1> HIDE DEF good, bad, q, t
<1>15. QED
  BY <1>1, <1>2, <1>13, <1>14 DEF t


(* A complete flight: what it ends in, its keys, and a PSK that stands for *)
(* a certificate if one is required.                                       *)
Launched(s) ==
    /\ s.pc = "flight"
    /\ EndsIn(s.unsent, "Finished")
    /\ FinishedUnder(s.unsent, s.secret)
    /\ "suite" \in DOMAIN s.secret[1]
    /\ server.clientAuth = "require" /\ s.psk # None =>
          /\ s.stage = "Finished"
          /\ s.clientCert # None
          /\ \E t \in Range(s.ticket) : t.authFresh

LEMMA FlightIsLaunched ==
    ASSUME NEW s, ServerTyped(s), s.err = None => Permitted(s)
    PROVE  LET t == ServerFlight(s)
           IN  ServerTyped(t) /\ (t.err = None => Launched(t))
<1> DEFINE s1 == IF s.err # None THEN s ELSE serverNegotiateExtensionsAndKeyShare(s)
           s2 == IF s1.err # None THEN s1 ELSE serverBuildServerHello(s1)
           s3 == IF s2.err # None THEN s2 ELSE serverDeriveHandshakeKeys(s2)
           s4 == IF s3.err # None THEN s3 ELSE serverSendFlight(s3)
           t  == IF s4.err # None THEN s4 ELSE serverDeriveApplicationSecrets(s4)
<1>1. ServerFlight(s) = t
  BY DEF ServerFlight, Then
<1>2. ServerTyped(s1) /\ (s1.err = None => s1.psk = s.psk /\ s1.ticket = s.ticket /\ s.err = None)
  <2>1. Changes(s, serverNegotiateExtensionsAndKeyShare(s),
                {"err", "limits", "clientType", "typeNegotiated", "serverType"})
    BY FlightChanges
  <2>2. QED
    BY <2>1, ServerKept, ServerFields DEF Changes, ServerTyped
<1> HIDE DEF s1
<1>3. /\ ServerTyped(s2)
      /\ s2.err = None => /\ s2.psk = s.psk /\ s2.ticket = s.ticket /\ s.err = None
                          /\ \A i \in DOMAIN s2.unsent : s2.unsent[i].msg.typ # "Finished"
  <2> DEFINE u == serverBuildServerHello(s1)
  <2>1. Changes(s1, u, {"transcript", "cids", "rrc", "unsent"})
    BY FlightChanges
  <2>2. u.unsent = <<Plain(ServerHello(s1))>>
    BY <1>2, ServerFields DEF ServerTyped, serverBuildServerHello
  <2>3. Plain(ServerHello(s1)).msg.typ = "ServerHello"
    BY DEF Plain, ServerHello, marshalServerHello
  <2>4. IsList(u.unsent) /\ \A i \in DOMAIN u.unsent : u.unsent[i].msg.typ # "Finished"
    <3> DEFINE x == Plain(ServerHello(s1))
    <3> HIDE DEF u, x
    <3>1. u.unsent = <<x>> /\ x.msg.typ = "ServerHello"
      BY <2>2, <2>3 DEF x
    <3>2. QED
      BY SMTT(30), <3>1, SingleList
  <2> HIDE DEF u
  <2>5. ServerTyped(u) /\ u.psk = s1.psk /\ u.ticket = s1.ticket /\ u.err = s1.err
    BY <1>2, <2>1, <2>4, ServerFields DEF Changes, ServerTyped
  <2>6. QED
    BY <1>2, <2>4, <2>5 DEF u
<1> HIDE DEF s2
<1>4. /\ ServerTyped(s3)
      /\ s3.err = None => /\ s3.psk = s.psk /\ s3.ticket = s.ticket /\ s.err = None
                          /\ FinishedUnder(s3.unsent, s3.secret)
                          /\ "suite" \in DOMAIN s3.secret[1]
  <2> DEFINE u == serverDeriveHandshakeKeys(s2)
  <2>1. Changes(s2, u, {"secret"})
    BY FlightChanges
  <2>2. "suite" \in DOMAIN u.secret[1]
    BY <1>3, ServerFields DEF ServerTyped, serverDeriveHandshakeKeys, HandshakeSecret
  <2> HIDE DEF u
  <2>3. ServerTyped(u) /\ u.psk = s2.psk /\ u.ticket = s2.ticket /\ u.err = s2.err
        /\ u.unsent = s2.unsent
    BY <1>3, <2>1, ServerKept, ServerFields DEF Changes, ServerTyped
  <2>4. QED
    BY <1>3, <2>2, <2>3 DEF u, FinishedUnder
<1> HIDE DEF s3
<1>5. /\ ServerTyped(s4)
      /\ s4.err = None => /\ s4.psk = s.psk /\ s4.ticket = s.ticket /\ s.err = None
                          /\ FinishedUnder(s4.unsent, s4.secret)
                          /\ EndsIn(s4.unsent, "Finished")
                          /\ "suite" \in DOMAIN s4.secret[1]
  <2> DEFINE u == serverSendFlight(s3)
  <2>1. CASE s3.err # None
    BY <2>1, <1>4
  <2>2. CASE s3.err = None
    <3>1. /\ Changes(s3, u, {"err", "secret", "unsent", "transcript", "tickets", "meta"})
          /\ IsList(u.unsent)
          /\ u.err = None => /\ u.secret = s3.secret
                             /\ EndsIn(u.unsent, "Finished")
                             /\ FinishedUnder(u.unsent, u.secret)
      BY <2>2, <1>4, SendFlightStep
    <3>2. s4 = u
      BY <2>2
    <3> HIDE DEF u, s4
    <3>3. ServerTyped(u) /\ u.psk = s3.psk /\ u.ticket = s3.ticket
      BY <1>4, <3>1, ServerFields DEF Changes, ServerTyped
    <3>4. QED
      BY <2>2, <1>4, <3>1, <3>2, <3>3
  <2>3. QED
    BY <2>1, <2>2
<1> HIDE DEF s4
<1>6. ServerTyped(t) /\ (t.err = None => Launched(t))
  <2> DEFINE u == serverDeriveApplicationSecrets(s4)
  <2>1. CASE s4.err # None
    BY <2>1, <1>5
  <2>2. CASE s4.err = None
    <3>1. Changes(s4, u, {"pc", "earlyStatus", "ready", "clientCert", "stage"})
      BY FlightChanges
    <3>2. /\ u.pc = "flight" /\ u.earlyStatus \in EarlyStates
          /\ u.clientCert = IF s4.ticket = <<>> THEN None ELSE s4.ticket[1].clientCert
          /\ u.stage = IF requestsClientCertificate(s4) THEN "Certificate" ELSE "Finished"
      BY <1>5, ServerFields DEF ServerTyped, serverDeriveApplicationSecrets,
         EarlyStates
    <3>3. t = u
      BY <2>2
    <3> HIDE DEF u, t
    <3>4. ServerTyped(u) /\ u.psk = s4.psk /\ u.ticket = s4.ticket
          /\ u.unsent = s4.unsent /\ u.secret = s4.secret
      BY <1>5, <3>1, <3>2, ServerFields DEF Changes, ServerTyped
    <3>5. ASSUME server.clientAuth = "require", u.psk # None
          PROVE  /\ u.stage = "Finished"
                 /\ u.clientCert # None
                 /\ \E x \in Range(u.ticket) : x.authFresh
      <4>1. ~requestsClientCertificate(s4)
        BY <3>4, <3>5 DEF requestsClientCertificate, ServerUsingPSK
      <4>2. Permitted(s4)
        BY <2>2, <1>5 DEF Permitted
      <4>3. PICK x : s4.ticket = <<x>> /\ x.authFresh /\ x.clientCert # None
        BY <4>2, <3>4, <3>5 DEF Permitted
      <4>4. <<x>> # <<>> /\ <<x>>[1] = x /\ Range(<<x>>) = {x}
        BY SMTT(30) DEF Range
      <4>5. QED
        BY <4>1, <4>3, <4>4, <3>2, <3>4
    <3>6. Launched(u)
      BY <2>2, <1>5, <3>2, <3>4, <3>5 DEF Launched
    <3>7. QED
      BY <3>3, <3>4, <3>6
  <2>3. QED
    BY <2>1, <2>2
<1>7. QED
  BY <1>1, <1>6

-----------------------------------------------------------------------------
(* The inductive invariant.                                                *)
Guards == [received : Nat, sent : Nat, validated : BOOLEAN]

Shape(c, s, up, down, a) ==
    /\ ClientTyped(c) /\ ServerTyped(s)
    /\ IsList(up) /\ IsList(down) /\ a \in Guards
    /\ c.pc \in {"start", "hello", "second", "flight", "ack", "done", "failed"}
    /\ s.pc \in {"start", "hrr", "flight", "done", "closed", "failed"}
    /\ c.pc = "failed" <=> c.err # None
    /\ s.pc = "failed" <=> s.err # None

(* Until the server has read a hello it has sent nothing.                  *)
Starting(c, s, up, down, a) ==
    /\ c.pc = "start" => up = <<>> /\ s.pc = "start"
    /\ s.pc = "start" =>
          /\ c.pc \in {"start", "hello", "failed"}
          /\ c.pc = "hello" => up # <<>>
          /\ down = <<>>
          /\ a.received = 0 /\ a.sent = 0 /\ ~a.validated
          /\ s.hrrUsed

(* While it waits for a second hello, the request for it or the second     *)
(* hello is in flight.                                                     *)
Retrying(c, s, up, down) ==
    s.pc = "hrr" =>
        /\ c.pc \in {"hello", "second", "failed"}
        /\ \A i \in DOMAIN down : down[i].msg.typ = "HelloRetryRequest"
        /\ c.pc = "hello" => down # <<>>
        /\ c.pc = "second" => EndsIn(up, "ClientHello")

(* Its flight is unsent as a whole, or the Finished at its end, or the     *)
(* client's Finished in answer to it, is in flight under the server's keys.*)
Flying(c, s, up, down) ==
    s.pc = "flight" =>
        /\ s.unsent # <<>> =>
              /\ down = <<>> /\ c.pc \in {"hello", "failed"}
              /\ EndsIn(s.unsent, "Finished")
        /\ FinishedUnder(down, s.secret) /\ FinishedUnder(s.unsent, s.secret)
        /\ s.unsent = <<>> /\ c.pc \in {"hello", "second", "flight"} =>
              EndsIn(down, "Finished")
        /\ c.pc = "ack" => EndsIn(up, "Finished") /\ LastOf(up).key = s.secret
        /\ "suite" \in DOMAIN s.secret[1]

Budgeted(a) == ~a.validated => a.sent <= 3 * a.received

(* A PSK that a server with required certificates accepts stands for one.  *)
Authenticating(config, s) ==
    /\ s.pc \in {"start", "hrr"} => s.psk = None /\ s.ticket = <<>>
    /\ s.pc = "flight" /\ config.clientAuth = "require" /\ s.psk # None =>
          /\ s.stage = "Finished"
          /\ s.clientCert # None
          /\ \E t \in Range(s.ticket) : t.authFresh
    /\ s.pc \in {"done", "closed"} /\ config.clientAuth = "require" =>
          /\ s.clientCert # None
          /\ s.verified \/ \E t \in Range(s.ticket) : t.authFresh

Inv(config, c, s, up, down, a) ==
    /\ Shape(c, s, up, down, a)
    /\ Starting(c, s, up, down, a)
    /\ Retrying(c, s, up, down)
    /\ Flying(c, s, up, down)
    /\ Budgeted(a)
    /\ Authenticating(config, s)

HandshakeInv == sc \in Scenarios /\ Inv(server, cl, sv, c2s, s2c, amp)

-----------------------------------------------------------------------------
(* The amplification guard.                                                *)
LEMMA GuardSteps ==
    ASSUME NEW a \in Guards, Budgeted(a)
    PROVE  /\ recordReceived(a) \in Guards /\ Budgeted(recordReceived(a))
           /\ recordReceived(a).received = a.received + 1
           /\ recordReceived(a).sent = a.sent
           /\ recordReceived(a).validated = a.validated
           /\ validate(a) \in Guards /\ Budgeted(validate(a)) /\ validate(a).validated
<1>1. recordReceived(a) = [received |-> a.received + 1, sent |-> a.sent, validated |-> a.validated]
  BY SMT DEF recordReceived, Guards
<1>2. validate(a) \in Guards /\ validate(a).validated
  BY DEF validate, Guards
<1>3. a.received \in Nat /\ a.sent \in Nat /\ a.validated \in BOOLEAN
  BY DEF Guards
<1>4. recordReceived(a) \in Guards
  BY SMT, <1>1, <1>3 DEF Guards
<1>5. QED
  BY SMTT(30), <1>1, <1>2, <1>3, <1>4 DEF Budgeted

LEMMA SpendSteps ==
    ASSUME NEW a \in Guards, Budgeted(a), NEW n \in Nat, n = 0 \/ allowSend(a, n)
    PROVE  Spend(a, n) \in Guards /\ Budgeted(Spend(a, n))
<1>1. a.received \in Nat /\ a.sent \in Nat /\ a.validated \in BOOLEAN
  BY DEF Guards
<1>2. CASE a.validated
  BY <1>2 DEF Spend
<1>3. CASE ~a.validated
  <2>1. Spend(a, n) = [received |-> a.received, sent |-> a.sent + n, validated |-> a.validated]
    BY <1>3 DEF Spend, Guards
  <2>2. Spend(a, n) \in Guards
    BY SMTT(30), <2>1, <1>1 DEF Guards
  <2>3. QED
    BY SMT, <1>1, <1>3, <2>1, <2>2 DEF Budgeted, allowSend
<1>4. QED
  BY <1>1, <1>2, <1>3

-----------------------------------------------------------------------------
(* Client steps.                                                           *)
LEMMA ClientFails ==
    ASSUME NEW k, NEW c, NEW s, NEW up, NEW down, NEW a, Inv(k, c, s, up, down, a),
           NEW d, ClientTyped(d), d.pc = "failed", d.err # None,
           NEW words, IsList(words),
           NEW rest, rest = down \/ (down # <<>> /\ rest = Tail(down))
    PROVE  Inv(k, d, s, up \o words, rest, a)
<1>1. IsList(up \o words) /\ IsList(rest)
      /\ (\A i \in DOMAIN rest : \E j \in DOMAIN down : rest[i] = down[j])
      /\ (down = <<>> => rest = <<>>)
  <2>1. IsList(up) /\ IsList(down)
    BY DEF Inv, Shape
  <2>2. IsList(up \o words)
    BY <2>1, ListConcat
  <2>3. CASE rest = down
    BY <2>1, <2>2, <2>3
  <2>4. CASE down # <<>> /\ rest = Tail(down)
    BY <2>1, <2>2, <2>4, ListTail
  <2>5. QED
    BY <2>3, <2>4
<1>2. Shape(d, s, up \o words, rest, a)
  BY <1>1 DEF Inv, Shape
<1>3. Starting(d, s, up \o words, rest, a)
  BY <1>1 DEF Inv, Starting
<1>4. Retrying(d, s, up \o words, rest)
  BY <1>1 DEF Inv, Retrying
<1>5. Flying(d, s, up \o words, rest)
  BY <1>1 DEF Inv, Flying, FinishedUnder
<1>6. QED
  BY <1>2, <1>3, <1>4, <1>5 DEF Inv

(* The client sends or repeats its hello or early data behind it.          *)
LEMMA ClientSendsHello ==
    ASSUME NEW k, NEW c, NEW s, NEW up, NEW down, NEW a, Inv(k, c, s, up, down, a),
           NEW d, ClientTyped(d), d.pc = "hello", d.err = None, c.pc \in {"start", "hello"},
           NEW x, c.pc = "start" => s.pc = "start"
    PROVE  Inv(k, d, s, up \o <<x>>, down, a)
<1>1. IsList(up \o <<x>>) /\ up \o <<x>> # <<>>
  BY ListAppend DEF Inv, Shape
<1>2. Shape(d, s, up \o <<x>>, down, a)
  BY <1>1 DEF Inv, Shape
<1>3. Starting(d, s, up \o <<x>>, down, a)
  BY <1>1 DEF Inv, Starting
<1>4. Retrying(d, s, up \o <<x>>, down)
  BY <1>1 DEF Inv, Retrying
<1>5. Flying(d, s, up \o <<x>>, down)
  BY <1>1 DEF Inv, Flying, Shape
<1>6. QED
  BY <1>2, <1>3, <1>4, <1>5 DEF Inv

(* It sends a second hello after a HelloRetryRequest.                      *)
LEMMA ClientSendsSecond ==
    ASSUME NEW k, NEW c, NEW s, NEW up, NEW down, NEW a, Inv(k, c, s, up, down, a),
           c.pc = "hello", down # <<>>, Head(down).msg.typ = "HelloRetryRequest",
           NEW d, ClientTyped(d), d.pc = "second", d.err = None,
           NEW x, x.msg.typ = "ClientHello"
    PROVE  Inv(k, d, s, up \o <<x>>, Tail(down), a)
<1>1. IsList(up \o <<x>>) /\ EndsIn(up \o <<x>>, "ClientHello")
  <2>1. IsList(up)
    BY DEF Inv, Shape
  <2>2. IsList(up \o <<x>>) /\ up \o <<x>> # <<>> /\ LastOf(up \o <<x>>) = x
    BY <2>1, ListAppend
  <2>3. QED
    BY <2>2 DEF EndsIn
<1>2. /\ IsList(Tail(down)) /\ \A i \in DOMAIN Tail(down) : \E j \in DOMAIN down : Tail(down)[i] = down[j]
      /\ EndsIn(down, "Finished") => EndsIn(Tail(down), "Finished")
  BY ListTail DEF Inv, Shape, EndsIn
<1>3. Shape(d, s, up \o <<x>>, Tail(down), a)
  BY <1>1, <1>2 DEF Inv, Shape
<1>4. Starting(d, s, up \o <<x>>, Tail(down), a)
  BY DEF Inv, Starting
<1>5. Retrying(d, s, up \o <<x>>, Tail(down))
  BY <1>1, <1>2 DEF Inv, Retrying
<1>6. Flying(d, s, up \o <<x>>, Tail(down))
  BY <1>1, <1>2 DEF Inv, Flying, FinishedUnder
<1>7. QED
  BY <1>3, <1>4, <1>5, <1>6 DEF Inv

(* It reads on in the server's flight, up to the Finished at its end.      *)
LEMMA ClientReadsOn ==
    ASSUME NEW k, NEW c, NEW s, NEW up, NEW down, NEW a, Inv(k, c, s, up, down, a),
           c.pc \in {"hello", "second", "flight"}, down # <<>>,
           Head(down).msg.typ \notin {"Finished", "HelloRetryRequest"},
           NEW d, ClientTyped(d), d.pc = "flight", d.err = None
    PROVE  Inv(k, d, s, up, Tail(down), a)
<1>1. /\ IsList(Tail(down)) /\ \A i \in DOMAIN Tail(down) : \E j \in DOMAIN down : Tail(down)[i] = down[j]
      /\ EndsIn(down, "Finished") => EndsIn(Tail(down), "Finished")
      /\ Head(down) = down[1] /\ 1 \in DOMAIN down
  BY SMTT(30), ListTail DEF Inv, Shape, EndsIn
<1>2. s.pc \notin {"start", "hrr"} /\ (s.pc = "flight" => s.unsent = <<>>)
  BY <1>1 DEF Inv, Starting, Retrying, Flying
<1>3. Shape(d, s, up, Tail(down), a)
  BY <1>1 DEF Inv, Shape
<1>4. Starting(d, s, up, Tail(down), a)
  BY <1>2 DEF Starting
<1>5. Retrying(d, s, up, Tail(down))
  BY <1>2 DEF Retrying
<1>6. Flying(d, s, up, Tail(down))
  BY <1>1, <1>2 DEF Inv, Flying, FinishedUnder
<1>7. QED
  BY <1>3, <1>4, <1>5, <1>6 DEF Inv

(* It answers the Finished that it reads.                                  *)
LEMMA ClientAnswers ==
    ASSUME NEW k, NEW c, NEW s, NEW up, NEW down, NEW a, Inv(k, c, s, up, down, a),
           c.pc = "flight", down # <<>>,
           Head(down).msg.typ = "Finished", Head(down).key = c.secret,
           NEW d, ClientTyped(d), d.pc = "ack", d.err = None,
           NEW out, IsList(out), EndsIn(out, "Finished"), LastOf(out).key = c.secret
    PROVE  Inv(k, d, s, up \o out, Tail(down), a)
<1>1. /\ IsList(Tail(down)) /\ \A i \in DOMAIN Tail(down) : \E j \in DOMAIN down : Tail(down)[i] = down[j]
      /\ Head(down) = down[1] /\ 1 \in DOMAIN down
  BY ListTail DEF Inv, Shape
<1>2. IsList(up \o out) /\ EndsIn(up \o out, "Finished") /\ LastOf(up \o out).key = c.secret
  BY SMTT(30), ListConcat DEF Inv, Shape, EndsIn
<1>3. s.pc \notin {"start", "hrr"} /\ (s.pc = "flight" => s.unsent = <<>>)
  BY <1>1 DEF Inv, Starting, Retrying, Flying
<1>4. s.pc = "flight" => c.secret = s.secret
  BY <1>1 DEF Inv, Flying, FinishedUnder
<1>5. Shape(d, s, up \o out, Tail(down), a)
  BY <1>1, <1>2 DEF Inv, Shape
<1>6. Starting(d, s, up \o out, Tail(down), a)
  BY <1>3 DEF Starting
<1>7. Retrying(d, s, up \o out, Tail(down))
  BY <1>3 DEF Retrying
<1>8. Flying(d, s, up \o out, Tail(down))
  BY <1>1, <1>2, <1>3, <1>4 DEF Inv, Flying, FinishedUnder
<1>9. QED
  BY <1>5, <1>6, <1>7, <1>8 DEF Inv

LEMMA ClientCompletes ==
    ASSUME NEW k, NEW c, NEW s, NEW up, NEW down, NEW a, Inv(k, c, s, up, down, a),
           c.pc = "ack", down # <<>>,
           NEW d, ClientTyped(d), d.pc = "done", d.err = None
    PROVE  Inv(k, d, s, up, Tail(down), a)
<1>1. IsList(Tail(down)) /\ \A i \in DOMAIN Tail(down) : \E j \in DOMAIN down : Tail(down)[i] = down[j]
  BY ListTail DEF Inv, Shape
<1>2. s.pc \notin {"start", "hrr"} /\ (s.pc = "flight" => s.unsent = <<>>)
  BY DEF Inv, Starting, Retrying, Flying
<1>3. Shape(d, s, up, Tail(down), a)
  BY <1>1 DEF Inv, Shape
<1>4. Starting(d, s, up, Tail(down), a) /\ Retrying(d, s, up, Tail(down))
  BY <1>2 DEF Starting, Retrying
<1>5. Flying(d, s, up, Tail(down))
  BY <1>1, <1>2 DEF Inv, Flying, FinishedUnder
<1>6. QED
  BY <1>3, <1>4, <1>5 DEF Inv

-----------------------------------------------------------------------------
(* Server steps.                                                           *)
LEMMA ServerFails ==
    ASSUME NEW k, NEW c, NEW s, NEW up, NEW down, NEW a, Inv(k, c, s, up, down, a),
           c.pc # "start",
           NEW t, ServerTyped(t), t.pc = "failed", t.err # None,
           NEW rest, IsList(rest), NEW q, IsList(q),
           NEW b \in Guards, Budgeted(b)
    PROVE  Inv(k, c, t, rest, q, b)
<1>2. Shape(c, t, rest, q, b)
  BY DEF Inv, Shape
<1>3. Starting(c, t, rest, q, b) /\ Retrying(c, t, rest, q)
      /\ Flying(c, t, rest, q) /\ Authenticating(k, t)
  BY DEF Starting, Retrying, Flying, Authenticating
<1>4. QED
  BY <1>2, <1>3 DEF Inv

LEMMA ServerStops ==
    ASSUME NEW k, NEW c, NEW s, NEW up, NEW down, NEW a, Inv(k, c, s, up, down, a),
           c.pc # "start",
           NEW t, ServerTyped(t), t.pc \in {"done", "closed"}, t.err = None,
           k.clientAuth = "require" =>
              /\ t.clientCert # None
              /\ t.verified \/ \E x \in Range(t.ticket) : x.authFresh,
           NEW rest, IsList(rest), NEW q, IsList(q),
           NEW b \in Guards, Budgeted(b)
    PROVE  Inv(k, c, t, rest, q, b)
<1>2. Shape(c, t, rest, q, b)
  BY DEF Inv, Shape
<1>3. Starting(c, t, rest, q, b) /\ Retrying(c, t, rest, q)
      /\ Flying(c, t, rest, q)
  BY DEF Starting, Retrying, Flying
<1>4. Authenticating(k, t)
  BY DEF Authenticating
<1>5. QED
  BY <1>2, <1>3, <1>4 DEF Inv

LEMMA ServerRetries ==
    ASSUME NEW k, NEW c, NEW s, NEW up, NEW down, NEW a, Inv(k, c, s, up, down, a),
           s.pc = "start", up # <<>>,
           NEW t, ServerTyped(t), t.pc = "hrr", t.err = None,
           t.psk = None, t.ticket = <<>>,
           NEW x, x.msg.typ = "HelloRetryRequest",
           NEW b \in Guards, Budgeted(b)
    PROVE  Inv(k, c, t, Tail(up), <<x>>, b)
<1>1. IsList(Tail(up)) /\ IsList(<<x>>) /\ <<x>> # <<>> /\ DOMAIN <<x>> = {1} /\ <<x>>[1] = x
  BY ListTail, SingleList DEF Inv, Shape
<1>2. c.pc \in {"hello", "failed"}
  BY DEF Inv, Starting
<1>3. Shape(c, t, Tail(up), <<x>>, b)
  BY <1>1, <1>2 DEF Inv, Shape
<1>4. Starting(c, t, Tail(up), <<x>>, b) /\ Flying(c, t, Tail(up), <<x>>)
  BY <1>2 DEF Starting, Flying
<1>5. Retrying(c, t, Tail(up), <<x>>)
  BY <1>1, <1>2 DEF Retrying
<1>6. Authenticating(k, t)
  BY DEF Authenticating
<1>7. QED
  BY <1>3, <1>4, <1>5, <1>6 DEF Inv

(* A flight the guard holds back.                                          *)
LEMMA ServerHolds ==
    ASSUME NEW c, NEW s, NEW up, NEW down, NEW a, Inv(server, c, s, up, down, a),
           s.pc = "start", up # <<>>,
           NEW t, ServerTyped(t), Launched(t), t.err = None,
           NEW b \in Guards, Budgeted(b)
    PROVE  Inv(server, c, t, Tail(up), down, b)
<1>1. IsList(Tail(up))
  BY ListTail DEF Inv, Shape
<1>2. c.pc \in {"hello", "failed"} /\ down = <<>>
  BY DEF Inv, Starting
<1>3. Shape(c, t, Tail(up), down, b)
  BY <1>1, <1>2 DEF Inv, Shape, Launched
<1>4. Starting(c, t, Tail(up), down, b) /\ Retrying(c, t, Tail(up), down)
  BY <1>2 DEF Starting, Retrying, Launched
<1>5. FinishedUnder(down, t.secret)
  BY <1>2, SingleList DEF FinishedUnder
<1>6. Flying(c, t, Tail(up), down)
  BY <1>2, <1>5 DEF Flying, Launched, EndsIn
<1>7. Authenticating(server, t)
  BY DEF Authenticating, Launched
<1>8. QED
  BY <1>3, <1>4, <1>6, <1>7 DEF Inv

LEMMA FlightBehind ==
    ASSUME NEW p, NEW q, NEW k, IsList(p), IsList(q),
           EndsIn(q, "Finished"), FinishedUnder(q, k),
           \A i \in DOMAIN p : p[i].msg.typ # "Finished"
    PROVE  IsList(p \o q) /\ EndsIn(p \o q, "Finished") /\ FinishedUnder(p \o q, k)
<1> DEFINE r == p \o q
<1>1. q # <<>>
  BY DEF EndsIn
<1>2. /\ IsList(r) /\ r # <<>> /\ LastOf(r) = LastOf(q)
      /\ \A i \in DOMAIN r : \/ \E j \in DOMAIN p : r[i] = p[j]
                             \/ \E j \in DOMAIN q : r[i] = q[j]
  BY <1>1, ListConcat
<1> HIDE DEF r
<1>3. QED
  BY <1>2 DEF EndsIn, FinishedUnder, r

LEMMA ServerLaunches ==
    ASSUME NEW c, NEW s, NEW up, NEW down, NEW a, Inv(server, c, s, up, down, a),
           s.pc \in {"start", "hrr"}, up # <<>>,
           NEW t, ServerTyped(t), Launched(t), t.err = None,
           NEW u, Changes(t, u, {"unsent"}), u.unsent = <<>>,
           NEW b \in Guards, Budgeted(b)
    PROVE  Inv(server, c, u, Tail(up), down \o t.unsent, b)
<1>1. /\ u.pc = "flight" /\ u.err = None /\ u.secret = t.secret /\ u.psk = t.psk
      /\ u.stage = t.stage /\ u.clientCert = t.clientCert /\ u.ticket = t.ticket
      /\ DOMAIN u = DOMAIN ServerInit /\ u.earlyStatus \in EarlyStates
  BY ServerFields DEF Changes, ServerTyped, Launched
<1>2. ServerTyped(u)
  BY <1>1, SingleList DEF ServerTyped
<1>3. IsList(Tail(up)) /\ IsList(down) /\ IsList(t.unsent)
  BY ListTail DEF Inv, Shape, ServerTyped
<1>4. c.pc \in {"hello", "second", "failed"}
      /\ \A i \in DOMAIN down : down[i].msg.typ # "Finished"
  BY SingleList DEF Inv, Starting, Retrying
<1> DEFINE q == down \o t.unsent
<1>5. IsList(q) /\ EndsIn(q, "Finished") /\ FinishedUnder(q, t.secret)
  BY <1>3, <1>4, FlightBehind DEF Launched
<1> HIDE DEF q
<1>6. Shape(c, u, Tail(up), q, b)
  BY <1>1, <1>2, <1>3, <1>4, <1>5 DEF Inv, Shape
<1>7. Starting(c, u, Tail(up), q, b) /\ Retrying(c, u, Tail(up), q)
  BY <1>1, <1>4 DEF Starting, Retrying
<1>8. FinishedUnder(u.unsent, u.secret)
  BY SingleList DEF FinishedUnder
<1>9. Flying(c, u, Tail(up), q)
  BY <1>1, <1>4, <1>5, <1>8 DEF Flying, Launched
<1>10. Authenticating(server, u)
  BY <1>1 DEF Authenticating, Launched
<1>11. QED
  BY <1>6, <1>7, <1>9, <1>10 DEF Inv, q

(* It reads on in what the client sends, without the hello or the Finished *)
(* that it waits for.                                                      *)
LEMMA ServerReadsOn ==
    ASSUME NEW k, NEW c, NEW s, NEW up, NEW down, NEW a, Inv(k, c, s, up, down, a),
           s.pc \in {"hrr", "flight"}, up # <<>>,
           s.pc = "hrr" => Head(up).msg.typ # "ClientHello",
           s.pc = "flight" => ~(Head(up).msg.typ = "Finished" /\ Head(up).key = s.secret),
           NEW t, ServerTyped(t), t.pc = s.pc, t.err = None, t.unsent = s.unsent,
           t.secret = s.secret, t.psk = s.psk, t.ticket = s.ticket,
           s.pc = "flight" /\ k.clientAuth = "require" /\ s.psk # None =>
              t.stage = "Finished" /\ t.clientCert # None,
           NEW b \in Guards, Budgeted(b)
    PROVE  Inv(k, c, t, Tail(up), down, b)
<1>1. /\ IsList(Tail(up))
      /\ Tail(up) = <<>> => LastOf(up) = Head(up)
      /\ Tail(up) # <<>> => LastOf(Tail(up)) = LastOf(up)
  BY ListTail DEF Inv, Shape
<1>2. c.pc # "start"
  BY DEF Inv, Starting
<1>3. Shape(c, t, Tail(up), down, b)
  BY <1>1 DEF Inv, Shape
<1>4. Starting(c, t, Tail(up), down, b)
  BY <1>2 DEF Starting
<1>5. Retrying(c, t, Tail(up), down)
  BY <1>1 DEF Inv, Retrying, EndsIn
<1>6. Flying(c, t, Tail(up), down)
  BY <1>1 DEF Inv, Flying, EndsIn
<1>7. Authenticating(k, t)
  BY DEF Inv, Authenticating
<1>8. QED
  BY <1>3, <1>4, <1>5, <1>6, <1>7 DEF Inv

(* It reads or writes application data outside the handshake.              *)
LEMMA ServerWrites ==
    ASSUME NEW k, NEW c, NEW s, NEW up, NEW down, NEW a, Inv(k, c, s, up, down, a),
           s.pc = "flight",
           NEW t, Changes(s, t, {"early05", "queued"}),
           NEW b \in Guards, Budgeted(b)
    PROVE  Inv(k, c, t, up, down, b)
<1>1. /\ DOMAIN t = DOMAIN s /\ t.pc = s.pc /\ t.err = s.err /\ t.unsent = s.unsent
      /\ t.secret = s.secret /\ t.psk = s.psk /\ t.ticket = s.ticket
      /\ t.stage = s.stage /\ t.clientCert = s.clientCert
      /\ t.earlyStatus = s.earlyStatus
  BY ServerFields DEF Changes, Inv, Shape, ServerTyped
<1>2. ServerTyped(t)
  BY <1>1 DEF Inv, Shape, ServerTyped
<1>3. Shape(c, t, up, down, b)
  BY <1>1, <1>2 DEF Inv, Shape
<1>4. Starting(c, t, up, down, b) /\ Retrying(c, t, up, down)
  BY <1>1 DEF Inv, Starting, Retrying
<1>5. Flying(c, t, up, down)
  BY <1>1 DEF Inv, Flying
<1>6. Authenticating(k, t)
  BY <1>1 DEF Inv, Authenticating
<1>7. QED
  BY <1>3, <1>4, <1>5, <1>6 DEF Inv

(* It sends the flight it held back.                                       *)
LEMMA ServerReleases ==
    ASSUME NEW k, NEW c, NEW s, NEW up, NEW down, NEW a, Inv(k, c, s, up, down, a),
           s.pc = "flight", s.unsent # <<>>,
           NEW t, Changes(s, t, {"unsent"}), t.unsent = <<>>,
           NEW b \in Guards, Budgeted(b)
    PROVE  Inv(k, c, t, up, down \o s.unsent, b)
<1>1. /\ DOMAIN t = DOMAIN s /\ t.pc = s.pc /\ t.err = s.err
      /\ t.secret = s.secret /\ t.psk = s.psk /\ t.ticket = s.ticket
      /\ t.stage = s.stage /\ t.clientCert = s.clientCert
      /\ t.earlyStatus = s.earlyStatus
  BY ServerFields DEF Changes, Inv, Shape, ServerTyped
<1>2. ServerTyped(t)
  BY <1>1, SingleList DEF Inv, Shape, ServerTyped
<1>3. /\ down = <<>> /\ IsList(down) /\ IsList(s.unsent) /\ c.pc \in {"hello", "failed"}
      /\ EndsIn(s.unsent, "Finished") /\ FinishedUnder(s.unsent, s.secret)
  BY DEF Inv, Flying, Shape, ServerTyped
<1> DEFINE q == down \o s.unsent
<1>4. q = s.unsent
  BY <1>3, ListConcat
<1> HIDE DEF q
<1>5. Shape(c, t, up, q, b)
  BY <1>1, <1>2, <1>3, <1>4 DEF Inv, Shape
<1>6. Starting(c, t, up, q, b) /\ Retrying(c, t, up, q)
  BY <1>1, <1>3 DEF Starting, Retrying
<1>7. FinishedUnder(t.unsent, t.secret)
  BY SingleList DEF FinishedUnder
<1>8. Flying(c, t, up, q)
  BY <1>1, <1>3, <1>4, <1>7 DEF Inv, Flying
<1>9. Authenticating(k, t)
  BY <1>1 DEF Inv, Authenticating
<1>10. QED
  BY <1>5, <1>6, <1>8, <1>9 DEF Inv, q
=============================================================================
