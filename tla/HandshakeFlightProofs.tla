------------------------ MODULE HandshakeFlightProofs ------------------------
(***************************************************************************)
(* An acknowledged record was received, the client completes last, a       *)
(* flight has at most a window of unacknowledged records outstanding and   *)
(* the inbox refuses a message only when it is full, for every pair of     *)
(* flights, every sequence of path MTUs, any window and any number of      *)
(* losses, timeouts and refused writes: the inductive invariant of         *)
(* HandshakeFlight, and the steps that preserve it.                        *)
(***************************************************************************)
EXTENDS HandshakeFlight, FiniteSetTheorems, TLAPS

USE ZenonT(30)

\* The peer that receives d's flight holds every byte of w; g is its got.
Held(d, w, g) == Bytes(d, w.level, w.record) \subseteq g[d][w.record.message]

FlightOK(d, f, g) ==
    /\ f \in Flight(d)
    /\ f.sent \subseteq Records(d, f.level)
    /\ f.acked \subseteq Records(d, f.level)
    /\ \A r \in f.acked : Held(d, [level |-> f.level, record |-> r], g)

GotOK(g) ==
    /\ DOMAIN g = Ends
    /\ \A d \in Ends : /\ DOMAIN g[d] = Messages(d)
                       /\ \A m \in Messages(d) : g[d][m] \subseteq Body(d, m)

FlightsOK == /\ DOMAIN flight = Ends
             /\ \A d \in Ends : FlightOK(d, flight[d], got)

WireOK == /\ DOMAIN wire = Ends
          /\ \A d \in Ends : wire[d] \subseteq OnWireEver(d)

AcksOK == /\ DOMAIN acks = Ends
          /\ \A d \in Ends : \A a \in acks[d] : a \in Protected(d) /\ Held(d, a, got)

ClientRecordsOK ==
    \A w \in clientRecords : w \in Protected("client") /\ Held("client", w, got)

DoneOK == /\ clientDone \in BOOLEAN
          /\ clientDone => /\ Complete("client", flight["client"])
                           /\ flight["client"].sent # {}

CountsOK == /\ timeouts \in [Ends -> 0 .. 2]
            /\ emptyAck \in BOOLEAN
            /\ failed \in BOOLEAN
            /\ losses \in Nat
            /\ spurious \in Nat
            /\ refusals \in Nat

\* TypeOK alone is not inductive: an ACK in the network must be of a record
\* that was received, and so must a record the server will acknowledge at the
\* end of the client's flight.
FlightInv ==
    /\ GotOK(got)
    /\ FlightsOK
    /\ WireOK
    /\ AcksOK
    /\ ClientRecordsOK
    /\ DoneOK
    /\ CountsOK

USE FlightsAssumption, LimitsAssumption

LEMMA EarliestIsSubset ==
    ASSUME NEW n, NEW S PROVE Earliest(n, S) \subseteq S
  BY DEF Earliest

LEMMA RecordsTyped ==
    ASSUME NEW d \in Ends, NEW l \in Levels
    PROVE  /\ Records(d, l) \subseteq UNION {Records(d, k) : k \in Levels}
           /\ \A r \in Records(d, l) : r.message \in Messages(d)
  BY SMT DEF Records

LEMMA OnWireTyped ==
    ASSUME NEW d \in Ends, NEW l \in Levels, NEW S, S \subseteq Records(d, l)
    PROVE  OnWire(l, S) \subseteq OnWireEver(d)
  BY SMT DEF OnWire, OnWireEver

LEMMA WireParts ==
    ASSUME NEW d \in Ends, NEW w \in OnWireEver(d)
    PROVE  /\ w.level \in Levels
           /\ w.record \in Records(d, w.level)
           /\ w.record.message \in Messages(d)
           /\ w = [level |-> w.level, record |-> w.record]
<1>1. PICK l \in Levels : w \in OnWire(l, Records(d, l))
  BY DEF OnWireEver
<1>2. PICK r \in Records(d, l) : w = [level |-> l, record |-> r]
  BY <1>1 DEF OnWire
<1> QED
  BY <1>2, RecordsTyped

LEMMA ParameterTypes ==
    /\ \A d \in Ends : Length[d] \in Seq(Nat \ {0})
    /\ Levels \subseteq Nat
    /\ Len(FragmentSizes) \in Nat
  BY SMT DEF Levels

(***************************************************************************)
(* The operations of a flight.                                             *)
(***************************************************************************)
LEMMA UnsentIsRecords ==
    ASSUME NEW d, NEW f PROVE Unsent(d, f) \subseteq Records(d, f.level)
  BY EarliestIsSubset DEF Unsent

LEMMA ResentIsSent ==
    ASSUME NEW f PROVE Resent(f) \subseteq f.sent
  BY EarliestIsSubset DEF Resent, Outstanding

LEMMA FlightMember ==
    ASSUME NEW d \in Ends, NEW l \in Levels,
           NEW s, s \subseteq Records(d, l), NEW k, k \subseteq Records(d, l),
           NEW b \in BOOLEAN
    PROVE  [level |-> l, sent |-> s, acked |-> k, retransmitted |-> b] \in Flight(d)
<1>1. /\ s \in SUBSET UNION {Records(d, j) : j \in Levels}
      /\ k \in SUBSET UNION {Records(d, j) : j \in Levels}
  BY RecordsTyped
<1> QED
  BY <1>1 DEF Flight

LEMMA SendUnsentOK ==
    ASSUME NEW d \in Ends, NEW f, NEW g, FlightOK(d, f, g)
    PROVE  FlightOK(d, SendUnsent(d, f), g)
<1>1. f.level \in Levels /\ f.retransmitted \in BOOLEAN
  BY DEF FlightOK, Flight
<1>2. Unsent(d, f) \subseteq Records(d, f.level)
  BY UnsentIsRecords
<1>3. SendUnsent(d, f) \in Flight(d)
  <2>1. f.sent \cup Unsent(d, f) \subseteq Records(d, f.level)
    BY <1>2 DEF FlightOK
  <2>2. f.acked \subseteq Records(d, f.level)
    BY DEF FlightOK
  <2> QED
    BY <1>1, <2>1, <2>2, FlightMember DEF SendUnsent
<1> QED
  BY <1>2, <1>3 DEF FlightOK, SendUnsent

LEMMA NoteRetransmissionOK ==
    ASSUME NEW d \in Ends, NEW f, NEW g, FlightOK(d, f, g)
    PROVE  /\ FlightOK(d, NoteRetransmission(f), g)
           /\ FlightOK(d, Claimed(f), g)
<1>1. f.level \in Levels /\ f.retransmitted \in BOOLEAN
  BY DEF FlightOK, Flight
<1>2. f.sent \subseteq Records(d, f.level) /\ f.acked \subseteq Records(d, f.level)
  BY DEF FlightOK
<1>3. (f.retransmitted \/ Resent(f) # {}) \in BOOLEAN
  OBVIOUS
<1>4. NoteRetransmission(f) \in Flight(d) /\ Claimed(f) \in Flight(d)
  BY <1>1, <1>2, <1>3, FlightMember DEF NoteRetransmission, Claimed
<1> QED
  BY <1>2, <1>4 DEF FlightOK, NoteRetransmission, Claimed

LEMMA ResizeOK ==
    ASSUME NEW d \in Ends, NEW f, NEW g, FlightOK(d, f, g), CanReduce(f)
    PROVE  FlightOK(d, Resize(f), g)
<1>1. f.level \in Levels /\ f.retransmitted \in BOOLEAN
  BY DEF FlightOK, Flight
<1>2. f.level + 1 \in Levels
  BY SMTT(30), <1>1, ParameterTypes DEF CanReduce, Levels
<1>3. Resize(f) \in Flight(d)
  BY <1>1, <1>2 DEF Flight, Resize
<1> QED
  BY <1>3 DEF FlightOK, Resize

LEMMA AckOK ==
    ASSUME NEW d \in Ends, NEW f, NEW g, FlightOK(d, f, g),
           NEW a \in OnWireEver(d), Held(d, a, g)
    PROVE  FlightOK(d, Ack(f, a), g)
<1>1. f.level \in Levels /\ f.retransmitted \in BOOLEAN
  BY DEF FlightOK, Flight
<1>2. f.sent \subseteq Records(d, f.level) /\ f.acked \subseteq Records(d, f.level)
  BY DEF FlightOK
<1>a. Ack(f, a) = [level |-> f.level, sent |-> f.sent, acked |-> Ack(f, a).acked,
                   retransmitted |-> f.retransmitted]
  BY DEF Ack
<1>3. Ack(f, a).acked \subseteq Records(d, f.level)
  BY <1>2, WireParts DEF Ack
<1>4. Ack(f, a) \in Flight(d)
  BY <1>a, <1>1, <1>2, <1>3, FlightMember
<1>5. ASSUME NEW r \in Ack(f, a).acked
      PROVE  Held(d, [level |-> f.level, record |-> r], g)
  <2>1. CASE r \in f.acked
    BY <2>1 DEF FlightOK
  <2>2. CASE r \notin f.acked
    <3>1. a.level = f.level /\ r = a.record
      BY <2>2, <1>5 DEF Ack
    <3> QED
      BY <3>1 DEF Held
  <2> QED
    BY <2>1, <2>2
<1> QED
  BY SMTT(30), <1>2, <1>3, <1>4, <1>5, <1>a DEF FlightOK

(***************************************************************************)
(* Sending.                                                                *)
(***************************************************************************)
\* What a step that only sends records of d's flight leaves behind.
Sends(d, fl, wi) ==
    /\ DOMAIN fl = Ends
    /\ \A e \in Ends : FlightOK(e, fl[e], got)
    /\ \A e \in Ends \ {d} : fl[e] = flight[e]
    /\ DOMAIN wi = Ends
    /\ \A e \in Ends : wi[e] \subseteq OnWireEver(e)

LEMMA WriteFlightOK ==
    ASSUME FlightInv, NEW d \in Ends, NEW f, FlightOK(d, f, got),
           NEW resent, resent \subseteq OnWireEver(d),
           WriteFlight(d, f, resent)
    PROVE  Sends(d, flight', wire') /\ refusals' \in Nat
<1>1. f.level \in Levels
  BY DEF FlightOK, Flight
<1>2. FlightOK(d, SendUnsent(d, f), got)
  BY SendUnsentOK
<1>3. CASE /\ flight' = [flight EXCEPT ![d] = SendUnsent(d, f)]
           /\ wire' = [wire EXCEPT ![d] = @ \cup resent \cup OnWire(f.level, Unsent(d, f))]
           /\ UNCHANGED refusals
  <2>1. OnWire(f.level, Unsent(d, f)) \subseteq OnWireEver(d)
    BY <1>1, UnsentIsRecords, OnWireTyped
  <2> QED
    BY <1>2, <1>3, <2>1 DEF FlightInv, FlightsOK, WireOK, CountsOK, Sends
<1>4. CASE ~UNCHANGED refusals
  <2>1. /\ refusals' = refusals + 1
        /\ CanReduce(f)
        /\ flight' = [flight EXCEPT ![d] = SendUnsent(d, Resize(f))]
    BY <1>4 DEF WriteFlight
  <2>2. PICK n \in 0 .. Cardinality(Unsent(d, f)) - 1 :
             wire' = [wire EXCEPT ![d] =
                        @ \cup resent
                          \cup OnWire(f.level, Earliest(n, Unsent(d, f)))
                          \cup OnWire(f.level + 1, Unsent(d, Resize(f)))]
    BY <1>4 DEF WriteFlight
  <2>3. FlightOK(d, Resize(f), got)
    BY <2>1, ResizeOK
  <2>4. FlightOK(d, SendUnsent(d, Resize(f)), got)
    BY <2>3, SendUnsentOK
  <2>5. OnWire(f.level, Earliest(n, Unsent(d, f))) \subseteq OnWireEver(d)
    <3>1. Earliest(n, Unsent(d, f)) \subseteq Records(d, f.level)
      BY EarliestIsSubset, UnsentIsRecords
    <3> QED
      BY <1>1, <3>1, OnWireTyped
  <2>6. OnWire(f.level + 1, Unsent(d, Resize(f))) \subseteq OnWireEver(d)
    <3>1. f.level + 1 \in Levels
      BY SMTT(30), <1>1, <2>1, ParameterTypes DEF CanReduce, Levels
    <3>2. Unsent(d, Resize(f)) \subseteq Records(d, f.level + 1)
      BY SMT, UnsentIsRecords DEF Resize
    <3> QED
      BY <3>1, <3>2, OnWireTyped
  <2>7. Sends(d, flight', wire')
    BY <2>1, <2>2, <2>4, <2>5, <2>6 DEF FlightInv, FlightsOK, WireOK, Sends
  <2> QED
    BY SMT, <2>1, <2>7 DEF FlightInv, CountsOK
<1>5. refusals \in Nat /\ refusals + 1 # refusals
  BY SMT DEF FlightInv, CountsOK
<1> QED
  BY <1>3, <1>4, <1>5 DEF WriteFlight

LEMMA ResentTyped ==
    ASSUME NEW d \in Ends, NEW f, FlightOK(d, f, got)
    PROVE  OnWire(f.level, Resent(f)) \subseteq OnWireEver(d)
<1>1. f.level \in Levels
  BY DEF FlightOK, Flight
<1>2. Resent(f) \subseteq Records(d, f.level)
  BY ResentIsSent DEF FlightOK
<1> QED
  BY <1>1, <1>2, OnWireTyped

LEMMA RetransmitFlightOK ==
    ASSUME FlightInv, NEW d \in Ends, NEW f, FlightOK(d, f, got),
           RetransmitFlight(d, f)
    PROVE  Sends(d, flight', wire') /\ refusals' \in Nat
<1>1. FlightOK(d, NoteRetransmission(f), got)
  BY NoteRetransmissionOK
<1>2. OnWire(f.level, Resent(f)) \subseteq OnWireEver(d)
  BY ResentTyped
<1> QED
  BY <1>1, <1>2 DEF RetransmitFlight, FlightInv, FlightsOK, WireOK, CountsOK, Sends

LEMMA RetransmitPartialFlightOK ==
    ASSUME FlightInv, NEW d \in Ends, NEW f, FlightOK(d, f, got),
           RetransmitPartialFlight(d, f)
    PROVE  Sends(d, flight', wire') /\ refusals' \in Nat
<1>1. CASE f.retransmitted
  BY <1>1, WriteFlightOK DEF RetransmitPartialFlight
<1>2. CASE ~f.retransmitted
  <2>1. FlightOK(d, Claimed(f), got)
    BY NoteRetransmissionOK
  <2>2. WriteFlight(d, Claimed(f), OnWire(f.level, Resent(f)))
    BY <1>2 DEF RetransmitPartialFlight
  <2> QED
    BY <2>1, <2>2, ResentTyped, WriteFlightOK
<1> QED
  BY <1>1, <1>2

(***************************************************************************)
(* Receiving: bytes are only ever added.                                   *)
(***************************************************************************)
LEMMA AddOK ==
    ASSUME FlightInv, NEW d \in Ends, NEW w \in OnWireEver(d),
           Add(d, w.record.message, Bytes(d, w.level, w.record))
    PROVE  /\ GotOK(got')
           /\ \A e \in Ends : \A m \in Messages(e) : got[e][m] \subseteq got'[e][m]
           /\ Held(d, w, got')
<1> DEFINE m == w.record.message
           bytes == Bytes(d, w.level, w.record)
<1>1. m \in Messages(d)
  BY WireParts
<1>2. bytes \subseteq Body(d, m)
  BY DEF Bytes
<1>3. got' = [got EXCEPT ![d][m] = @ \cup bytes]
  BY DEF Add
<1> HIDE DEF m, bytes
<1>4. GotOK(got)
  BY DEF FlightInv
<1>5. /\ DOMAIN got' = Ends
      /\ got'[d] = [got[d] EXCEPT ![m] = got[d][m] \cup bytes]
      /\ \A e \in Ends \ {d} : got'[e] = got[e]
  BY <1>3, <1>4 DEF GotOK
<1>6. /\ DOMAIN got'[d] = Messages(d)
      /\ got'[d][m] = got[d][m] \cup bytes
      /\ \A k \in Messages(d) \ {m} : got'[d][k] = got[d][k]
  BY <1>1, <1>4, <1>5 DEF GotOK
<1>7. GotOK(got')
  BY <1>1, <1>2, <1>4, <1>5, <1>6 DEF GotOK
<1>8. \A e \in Ends : \A k \in Messages(e) : got[e][k] \subseteq got'[e][k]
  BY <1>5, <1>6
<1> QED
  BY <1>6, <1>7, <1>8 DEF Held, m, bytes

\* What was held stays held.
LEMMA HeldGrows ==
    ASSUME NEW d \in Ends, NEW w \in OnWireEver(d), NEW g, NEW h, Held(d, w, g),
           \A m \in Messages(d) : g[d][m] \subseteq h[d][m]
    PROVE  Held(d, w, h)
  BY WireParts DEF Held

LEMMA FlightOKGrows ==
    ASSUME NEW d \in Ends, NEW f, NEW g, NEW h, FlightOK(d, f, g),
           \A m \in Messages(d) : g[d][m] \subseteq h[d][m]
    PROVE  FlightOK(d, f, h)
<1>1. f.level \in Levels
  BY DEF FlightOK, Flight
<1>2. ASSUME NEW r \in f.acked
      PROVE  Held(d, [level |-> f.level, record |-> r], h)
  <2>1. [level |-> f.level, record |-> r] \in OnWireEver(d)
    BY SMTT(30), <1>1 DEF FlightOK, OnWireEver, OnWire
  <2>2. Held(d, [level |-> f.level, record |-> r], g)
    BY DEF FlightOK
  <2> QED
    BY <2>1, <2>2, HeldGrows
<1> QED
  BY <1>2 DEF FlightOK

\* A step that adds a received record and leaves the flights alone.
LEMMA ReceiveOK ==
    ASSUME FlightInv, NEW d \in Ends, NEW w \in OnWireEver(d),
           Add(d, w.record.message, Bytes(d, w.level, w.record)), UNCHANGED flight
    PROVE  /\ GotOK(got')
           /\ FlightsOK'
           /\ Held(d, w, got')
           /\ \A e \in Ends : \A a \in acks[e] : Held(e, a, got')
           /\ \A a \in clientRecords : Held("client", a, got')
<1>1. /\ GotOK(got')
      /\ \A e \in Ends : \A m \in Messages(e) : got[e][m] \subseteq got'[e][m]
      /\ Held(d, w, got')
  BY AddOK
<1>2. FlightsOK'
  <2>1. \A e \in Ends : FlightOK(e, flight[e], got)
    BY DEF FlightInv, FlightsOK
  <2>2. \A e \in Ends : FlightOK(e, flight[e], got')
    BY <1>1, <2>1, FlightOKGrows
  <2> QED
    BY <2>2 DEF FlightsOK, FlightInv
<1>3. \A e \in Ends : \A a \in acks[e] : a \in OnWireEver(e) /\ Held(e, a, got)
  BY DEF FlightInv, AcksOK, Protected
<1>4. \A a \in clientRecords : a \in OnWireEver("client") /\ Held("client", a, got)
  BY DEF FlightInv, ClientRecordsOK, Protected
<1>5. "client" \in Ends
  BY DEF Ends
<1> QED
  BY <1>1, <1>2, <1>3, <1>4, <1>5, HeldGrows

(***************************************************************************)
(* One lemma per action.                                                   *)
(***************************************************************************)
LEMMA EndsTwo == "client" \in Ends /\ "server" \in Ends /\ "client" # "server"
  BY DEF Ends

\* A step that sends records of a flight that may still change, and takes
\* nothing but ACKs from the network.
LEMMA SendStep ==
    ASSUME FlightInv, NEW d \in Ends, Sends(d, flight', wire'),
           CountsOK', UNCHANGED <<got, clientRecords, clientDone>>,
           d = "client" => ~clientDone,
           DOMAIN acks' = Ends, \A e \in Ends : acks'[e] \subseteq acks[e]
    PROVE  FlightInv'
<1>1. GotOK(got') /\ ClientRecordsOK'
  BY DEF FlightInv, ClientRecordsOK
<1>2. FlightsOK' /\ WireOK'
  BY DEF Sends, FlightsOK, WireOK
<1>3. AcksOK'
  BY DEF FlightInv, AcksOK
<1>4. DoneOK'
  <2>1. CASE d = "client"
    BY <2>1, EndsTwo DEF FlightInv, DoneOK
  <2>2. CASE d # "client"
    <3>1. flight'["client"] = flight["client"]
      BY <2>2, EndsTwo DEF Sends
    <3> QED
      BY <3>1 DEF FlightInv, DoneOK
  <2> QED
    BY <2>1, <2>2
<1> QED
  BY <1>1, <1>2, <1>3, <1>4 DEF FlightInv

\* A step that only takes records from the network.
LEMMA QuietStep ==
    ASSUME FlightInv, CountsOK', UNCHANGED <<flight, got, clientRecords, clientDone>>,
           DOMAIN wire' = Ends, \A e \in Ends : wire'[e] \subseteq wire[e],
           DOMAIN acks' = Ends, \A e \in Ends : acks'[e] \subseteq acks[e]
    PROVE  FlightInv'
<1>1. Sends("server", flight', wire')
  BY DEF FlightInv, FlightsOK, WireOK, Sends
<1> QED
  BY <1>1, EndsTwo, SendStep

LEMMA KeepsSendFlight ==
    ASSUME FlightInv, NEW d \in Ends, SendFlight(d) PROVE FlightInv'
<1>1. FlightOK(d, flight[d], got)
  BY DEF FlightInv, FlightsOK
<1>2. WriteFlight(d, flight[d], {})
  BY DEF SendFlight
<1>3. Sends(d, flight', wire') /\ refusals' \in Nat
  BY SMTT(30), <1>1, <1>2, WriteFlightOK
<1>4. d = "client" => ~clientDone
  BY DEF FlightInv, DoneOK, SendFlight
<1>5. CountsOK'
  BY <1>3 DEF FlightInv, CountsOK, SendFlight
<1>6. UNCHANGED <<got, clientRecords, clientDone, acks>>
  BY DEF SendFlight
<1>7. DOMAIN acks' = Ends /\ \A e \in Ends : acks'[e] \subseteq acks[e]
  BY <1>6 DEF FlightInv, AcksOK
<1> QED
  BY <1>3, <1>4, <1>5, <1>6, <1>7, SendStep

LEMMA KeepsTimeout ==
    ASSUME FlightInv, NEW d \in Ends, Timeout(d) PROVE FlightInv'
<1>1. FlightOK(d, flight[d], got)
  BY DEF FlightInv, FlightsOK
<1>2. Sends(d, flight', wire') /\ refusals' \in Nat
  <2>1. CASE timeouts[d] = 2 /\ CanReduce(flight[d])
    <3>1. WriteFlight(d, Resize(flight[d]), {})
      BY <2>1 DEF Timeout
    <3> QED
      <4>1. FlightOK(d, Resize(flight[d]), got)
        BY <1>1, <2>1, ResizeOK
      <4>2. {} \subseteq OnWireEver(d)
        OBVIOUS
      <4> QED
        BY SMTT(30), <3>1, <4>1, <4>2, WriteFlightOK
  <2>2. CASE ~(timeouts[d] = 2 /\ CanReduce(flight[d]))
    <3>1. RetransmitFlight(d, flight[d])
      BY <2>2 DEF Timeout
    <3> QED
      BY <1>1, <3>1, RetransmitFlightOK
  <2> QED
    BY <2>1, <2>2
<1>3. d = "client" => ~clientDone
  BY EndsTwo DEF Timeout, Waiting
<1>4. timeouts' \in [Ends -> 0 .. 2]
  <2>1. timeouts \in [Ends -> 0 .. 2] /\ timeouts' = [timeouts EXCEPT ![d] = (@ + 1) % 3]
    BY DEF FlightInv, CountsOK, Timeout
  <2>2. (timeouts[d] + 1) % 3 \in 0 .. 2
    BY SMTT(30), <2>1
  <2> QED
    BY <2>1, <2>2
<1>5. spurious' \in Nat
  BY SMTT(30) DEF FlightInv, CountsOK, Timeout
<1>6. CountsOK'
  BY <1>2, <1>4, <1>5 DEF FlightInv, CountsOK, Timeout
<1>7. UNCHANGED <<got, clientRecords, clientDone, acks>>
  BY DEF Timeout
<1>8. DOMAIN acks' = Ends /\ \A e \in Ends : acks'[e] \subseteq acks[e]
  BY <1>7 DEF FlightInv, AcksOK
<1> QED
  BY <1>2, <1>3, <1>6, <1>7, <1>8, SendStep

LEMMA KeepsClientDropsRecord ==
    ASSUME FlightInv, NEW w, ClientDropsRecord(w) \/ ClientLacksKeys(w)
    PROVE  FlightInv'
<1>1. /\ UNCHANGED <<flight, got, clientRecords, clientDone, acks>>
      /\ wire' = [wire EXCEPT !["server"] = @ \ {w}]
  BY DEF ClientDropsRecord, ClientLacksKeys, Arrived
<1>2. DOMAIN wire' = Ends /\ \A e \in Ends : wire'[e] \subseteq wire[e]
  BY <1>1 DEF FlightInv, WireOK
<1>3. DOMAIN acks' = Ends /\ \A e \in Ends : acks'[e] \subseteq acks[e]
  BY <1>1 DEF FlightInv, AcksOK
<1>4. CountsOK'
  BY DEF FlightInv, CountsOK, ClientDropsRecord, ClientLacksKeys
<1> QED
  BY <1>1, <1>2, <1>3, <1>4, QuietStep

LEMMA KeepsTransportError ==
    ASSUME FlightInv, TransportError PROVE FlightInv'
<1>1. DOMAIN wire' = Ends /\ \A e \in Ends : wire'[e] \subseteq wire[e]
  BY DEF FlightInv, WireOK, TransportError
<1>2. DOMAIN acks' = Ends /\ \A e \in Ends : acks'[e] \subseteq acks[e]
  BY DEF FlightInv, AcksOK, TransportError
<1>3. refusals' \in Nat
  BY SMT DEF FlightInv, CountsOK, TransportError
<1>4. CountsOK'
  BY <1>3 DEF FlightInv, CountsOK, TransportError
<1>5. UNCHANGED <<flight, got, clientRecords, clientDone>>
  BY DEF TransportError
<1> QED
  BY <1>1, <1>2, <1>4, <1>5, QuietStep

LEMMA KeepsLose ==
    ASSUME FlightInv, Lose PROVE FlightInv'
<1>1. DOMAIN wire' = Ends /\ \A e \in Ends : wire'[e] \subseteq wire[e]
  BY DEF FlightInv, WireOK, Lose, Arrived
<1>2. DOMAIN acks' = Ends /\ \A e \in Ends : acks'[e] \subseteq acks[e]
  BY DEF FlightInv, AcksOK, Lose
<1>3. losses' \in Nat
  BY SMT DEF FlightInv, CountsOK, Lose
<1>4. emptyAck' \in BOOLEAN
  BY DEF FlightInv, CountsOK, Lose
<1>5. CountsOK'
  BY <1>3, <1>4 DEF FlightInv, CountsOK, Lose
<1>6. UNCHANGED <<flight, got, clientRecords, clientDone>>
  BY DEF Lose
<1> QED
  BY <1>1, <1>2, <1>5, <1>6, QuietStep

LEMMA KeepsServerReceivesEmptyAck ==
    ASSUME FlightInv, ServerReceivesEmptyAck PROVE FlightInv'
<1>1. FlightOK("server", flight["server"], got)
  BY EndsTwo DEF FlightInv, FlightsOK
<1>2. Sends("server", flight', wire') /\ refusals' \in Nat
  <2>1. CASE Waiting("server")
    <3>1. RetransmitFlight("server", flight["server"])
      BY <2>1 DEF ServerReceivesEmptyAck
    <3> QED
      BY <1>1, <3>1, EndsTwo, RetransmitFlightOK
  <2>2. CASE ~Waiting("server")
    BY <2>2 DEF ServerReceivesEmptyAck, FlightInv, FlightsOK, WireOK, CountsOK, Sends
  <2> QED
    BY <2>1, <2>2
<1>3. CountsOK'
  BY <1>2 DEF FlightInv, CountsOK, ServerReceivesEmptyAck
<1>4. UNCHANGED <<got, clientRecords, clientDone, acks>>
  BY DEF ServerReceivesEmptyAck
<1>5. DOMAIN acks' = Ends /\ \A e \in Ends : acks'[e] \subseteq acks[e]
  BY <1>4 DEF FlightInv, AcksOK
<1> QED
  BY <1>2, <1>3, <1>4, <1>5, EndsTwo, SendStep

LEMMA KeepsServerReceivesAck ==
    ASSUME FlightInv, NEW a \in acks["server"], ServerReceivesAck(a) PROVE FlightInv'
<1>1. FlightOK("server", flight["server"], got)
  BY EndsTwo DEF FlightInv, FlightsOK
<1>2. a \in OnWireEver("server") /\ Held("server", a, got)
  BY EndsTwo DEF FlightInv, AcksOK, Protected
<1>3. Sends("server", flight', wire') /\ refusals' \in Nat
  <2>1. CASE Waiting("server")
    <3>1. RetransmitPartialFlight("server", Ack(flight["server"], a))
      BY <2>1 DEF ServerReceivesAck
    <3>2. FlightOK("server", Ack(flight["server"], a), got)
      BY <1>1, <1>2, EndsTwo, AckOK
    <3> QED
      BY <3>1, <3>2, EndsTwo, RetransmitPartialFlightOK
  <2>2. CASE ~Waiting("server")
    BY <2>2 DEF ServerReceivesAck, FlightInv, FlightsOK, WireOK, CountsOK, Sends
  <2> QED
    BY <2>1, <2>2
<1>4. CountsOK'
  BY <1>3 DEF FlightInv, CountsOK, ServerReceivesAck
<1>5. UNCHANGED <<got, clientRecords, clientDone>>
  BY DEF ServerReceivesAck
<1>6. DOMAIN acks' = Ends /\ \A e \in Ends : acks'[e] \subseteq acks[e]
  BY DEF FlightInv, AcksOK, ServerReceivesAck
<1> QED
  BY <1>3, <1>4, <1>5, <1>6, EndsTwo, SendStep

LEMMA KeepsServerReceivesOldRecord ==
    ASSUME FlightInv, NEW w, ServerReceivesOldRecord(w) PROVE FlightInv'
<1> DEFINE f == flight["server"]
<1>1. FlightOK("server", f, got)
  BY EndsTwo DEF FlightInv, FlightsOK
<1>2. OnWire(f.level, Resent(f)) \subseteq OnWireEver("server")
  BY <1>1, EndsTwo, ResentTyped
<1>3. FlightOK("server", NoteRetransmission(f), got)
  BY <1>1, EndsTwo, NoteRetransmissionOK
<1>4. Sends("server", flight', wire')
  <2>1. CASE flight["server"].acked = {}
    <3>1. /\ flight' = [flight EXCEPT !["server"] = NoteRetransmission(f)]
          /\ wire' = [client |-> wire["client"] \ {w},
                      server |-> wire["server"] \cup OnWire(f.level, Resent(f))]
      BY <2>1 DEF ServerReceivesOldRecord
    <3>2. /\ DOMAIN wire' = Ends
          /\ wire'["client"] \subseteq OnWireEver("client")
          /\ wire'["server"] \subseteq OnWireEver("server")
      BY <1>2, <3>1 DEF FlightInv, WireOK, Ends
    <3>3. /\ DOMAIN flight' = Ends
          /\ \A e \in Ends : FlightOK(e, flight'[e], got)
          /\ \A e \in Ends \ {"server"} : flight'[e] = flight[e]
      BY <1>3, <3>1 DEF FlightInv, FlightsOK
    <3> QED
      BY <3>2, <3>3 DEF Sends, Ends
  <2>2. CASE flight["server"].acked # {}
    BY <2>2 DEF ServerReceivesOldRecord, Arrived, FlightInv, FlightsOK, WireOK, Sends
  <2> QED
    BY <2>1, <2>2
<1>5. CountsOK'
  BY DEF FlightInv, CountsOK, ServerReceivesOldRecord
<1>6. UNCHANGED <<got, clientRecords, clientDone, acks>>
  BY DEF ServerReceivesOldRecord
<1>7. DOMAIN acks' = Ends /\ \A e \in Ends : acks'[e] \subseteq acks[e]
  BY <1>6 DEF FlightInv, AcksOK
<1> QED
  BY <1>4, <1>5, <1>6, <1>7, EndsTwo, SendStep

(***************************************************************************)
(* The receivers.                                                          *)
(***************************************************************************)
HIDE LimitsAssumption
HIDE FlightsAssumption

LEMMA KeepsClientReceivesAck ==
    ASSUME FlightInv, NEW a \in acks["client"], ClientReceivesAck(a) PROVE FlightInv'
<1> DEFINE f == Ack(flight["client"], a)
<1>1. FlightOK("client", flight["client"], got)
  BY EndsTwo DEF FlightInv, FlightsOK
<1>2. a \in OnWireEver("client") /\ Held("client", a, got)
  BY EndsTwo DEF FlightInv, AcksOK, Protected
<1>3. FlightOK("client", f, got)
  BY <1>1, <1>2, EndsTwo, AckOK
<1>4. UNCHANGED <<got, clientRecords>>
  BY DEF ClientReceivesAck
<1>5. DOMAIN acks' = Ends /\ \A e \in Ends : acks'[e] \subseteq acks[e]
  BY DEF FlightInv, AcksOK, ClientReceivesAck
<1>6. CASE Waiting("client") /\ Complete("client", f)
  <2>1. /\ flight' = [flight EXCEPT !["client"] = f]
        /\ clientDone' = TRUE
        /\ UNCHANGED <<wire, refusals>>
    BY <1>6 DEF ClientReceivesAck
  <2>2. GotOK(got') /\ ClientRecordsOK' /\ WireOK' /\ AcksOK'
    BY <1>4, <1>5, <2>1 DEF FlightInv, ClientRecordsOK, WireOK, AcksOK
  <2>3. FlightsOK' /\ flight'["client"] = f
    BY <1>3, <1>4, <2>1, EndsTwo DEF FlightInv, FlightsOK
  <2>4. f.sent # {}
    BY <1>6, EndsTwo DEF Waiting, Ack
  <2>5. DoneOK'
    BY <1>6, <2>1, <2>3, <2>4 DEF DoneOK
  <2>6. CountsOK'
    BY <2>1 DEF FlightInv, CountsOK, ClientReceivesAck
  <2> QED
    BY <2>2, <2>3, <2>5, <2>6 DEF FlightInv
<1>7. CASE Waiting("client") /\ ~Complete("client", f)
  <2>1. RetransmitPartialFlight("client", f) /\ UNCHANGED clientDone
    BY <1>7 DEF ClientReceivesAck
  <2>2. Sends("client", flight', wire') /\ refusals' \in Nat
    BY <1>3, <2>1, EndsTwo, RetransmitPartialFlightOK
  <2>3. ~clientDone
    BY <1>7, EndsTwo DEF Waiting
  <2>4. CountsOK'
    BY <2>2 DEF FlightInv, CountsOK, ClientReceivesAck
  <2> QED
    BY <1>4, <1>5, <2>1, <2>2, <2>3, <2>4, EndsTwo, SendStep
<1>8. CASE ~Waiting("client")
  <2>1. UNCHANGED <<flight, wire, refusals, clientDone>>
    BY <1>8 DEF ClientReceivesAck
  <2>2. CountsOK'
    BY <2>1 DEF FlightInv, CountsOK, ClientReceivesAck
  <2>3. DOMAIN wire' = Ends /\ \A e \in Ends : wire'[e] \subseteq wire[e]
    BY <2>1 DEF FlightInv, WireOK
  <2> QED
    BY <1>4, <1>5, <2>1, <2>2, <2>3, QuietStep
<1> QED
  BY <1>6, <1>7, <1>8

LEMMA DoneStays ==
    ASSUME FlightInv, UNCHANGED <<flight, clientDone>> PROVE DoneOK'
  BY DEF FlightInv, DoneOK

LEMMA KeepsClientReceivesRecord ==
    ASSUME FlightInv, NEW w, ClientReceivesRecord(w) PROVE FlightInv'
<1> DEFINE m == w.record.message
           bytes == Bytes("server", w.level, w.record)
<1>1. w \in OnWireEver("server")
  BY EndsTwo DEF ClientReceivesRecord, FlightInv, WireOK
<1>2. WireOK' /\ UNCHANGED <<flight, clientRecords, clientDone>>
  BY DEF ClientReceivesRecord, Arrived, FlightInv, WireOK
<1>3. DOMAIN wire' = Ends /\ \A e \in Ends : wire'[e] \subseteq wire[e]
  BY DEF ClientReceivesRecord, Arrived, FlightInv, WireOK
<1>4. failed' \in BOOLEAN
  BY DEF ClientReceivesRecord, FlightInv, CountsOK
<1>5. CountsOK'
  BY <1>4 DEF FlightInv, CountsOK, ClientReceivesRecord
<1>6. CASE Overflows("server", m, bytes)
  <2>1. UNCHANGED <<got, acks>>
    BY <1>6 DEF ClientReceivesRecord
  <2>2. DOMAIN acks' = Ends /\ \A e \in Ends : acks'[e] \subseteq acks[e]
    BY <2>1 DEF FlightInv, AcksOK
  <2> QED
    BY <1>2, <1>3, <1>5, <2>1, <2>2, QuietStep
<1>7. CASE ~Overflows("server", m, bytes)
  <2>1. /\ Add("server", m, bytes)
        /\ acks' = IF Acknowledges("server", m)
                   THEN [acks EXCEPT !["server"] = @ \cup {w}]
                   ELSE acks
    BY <1>7 DEF ClientReceivesRecord
  <2>2. /\ GotOK(got')
        /\ FlightsOK'
        /\ Held("server", w, got')
        /\ \A e \in Ends : \A a \in acks[e] : Held(e, a, got')
        /\ \A a \in clientRecords : Held("client", a, got')
    BY <1>1, <1>2, <2>1, EndsTwo, ReceiveOK
  <2>3. Acknowledges("server", m) => w \in Protected("server")
    BY <1>1 DEF Acknowledges, Protected
  <2>4. AcksOK'
    BY <2>1, <2>2, <2>3 DEF FlightInv, AcksOK
  <2>5. ClientRecordsOK'
    BY <1>2, <2>2 DEF FlightInv, ClientRecordsOK
  <2> QED
    BY <1>2, <1>5, <2>2, <2>4, <2>5, DoneStays DEF FlightInv
<1> QED
  BY <1>6, <1>7

LEMMA ClientIsProtected ==
    OnWireEver("client") \subseteq Protected("client")
  BY EndsTwo DEF Protected, Plain

LEMMA KeepsServerReceivesRecord ==
    ASSUME FlightInv, NEW w, ServerReceivesRecord(w) PROVE FlightInv'
<1> DEFINE m == w.record.message
           bytes == Bytes("client", w.level, w.record)
           records == clientRecords \cup {w}
<1>1. w \in OnWireEver("client") /\ w \in Protected("client")
  BY EndsTwo, ClientIsProtected DEF ServerReceivesRecord, FlightInv, WireOK
<1>2. WireOK' /\ UNCHANGED <<flight, clientDone>>
  BY DEF ServerReceivesRecord, Arrived, FlightInv, WireOK
<1>3. DOMAIN wire' = Ends /\ \A e \in Ends : wire'[e] \subseteq wire[e]
  BY DEF ServerReceivesRecord, Arrived, FlightInv, WireOK
<1>4. failed' \in BOOLEAN
  BY DEF ServerReceivesRecord, FlightInv, CountsOK
<1>5. timeouts' \in [Ends -> 0 .. 2]
  <2>1. timeouts \in [Ends -> 0 .. 2]
    BY DEF FlightInv, CountsOK
  <2>2. timeouts' = timeouts \/ timeouts' = [timeouts EXCEPT !["server"] = 0]
    BY DEF ServerReceivesRecord
  <2> QED
    BY SMT, <2>1, <2>2
<1>6. CountsOK'
  BY <1>4, <1>5 DEF FlightInv, CountsOK, ServerReceivesRecord
<1>7. CASE Overflows("client", m, bytes)
  <2>1. UNCHANGED <<got, acks, clientRecords>>
    BY <1>7 DEF ServerReceivesRecord
  <2>2. DOMAIN acks' = Ends /\ \A e \in Ends : acks'[e] \subseteq acks[e]
    BY <2>1 DEF FlightInv, AcksOK
  <2> QED
    BY <1>2, <1>3, <1>6, <2>1, <2>2, QuietStep
<1>8. CASE ~Overflows("client", m, bytes)
  <2>1. Add("client", m, bytes)
    BY <1>8 DEF ServerReceivesRecord
  <2>2. PICK new \in SUBSET records : acks' = [acks EXCEPT !["client"] = @ \cup new]
    <3> DEFINE ends == /\ Delivered("client", m - 1)
                       /\ got["client"][m] \cup bytes = Body("client", m)
                       /\ \A k \in Messages("client") \ {m} : Whole("client", k)
               new == (IF Acknowledges("client", m) THEN {w} ELSE {})
                        \cup (IF ends THEN records ELSE {})
    <3>1. new \in SUBSET records
      OBVIOUS
    <3>2. acks' = [acks EXCEPT !["client"] =
                     @ \cup (IF Acknowledges("client", m) THEN {w} ELSE {})
                       \cup (IF ends THEN records ELSE {})]
      BY <1>8 DEF ServerReceivesRecord
    <3>3. acks' = [acks EXCEPT !["client"] = @ \cup new]
      BY <3>2
    <3> QED
      BY <3>1, <3>3
  <2>3. /\ GotOK(got')
        /\ FlightsOK'
        /\ Held("client", w, got')
        /\ \A e \in Ends : \A a \in acks[e] : Held(e, a, got')
        /\ \A a \in clientRecords : Held("client", a, got')
    BY <1>1, <1>2, <2>1, EndsTwo, ReceiveOK
  <2>4. \A a \in records : a \in Protected("client") /\ Held("client", a, got')
    BY <1>1, <2>3 DEF FlightInv, ClientRecordsOK
  <2>5. AcksOK'
    BY <2>2, <2>3, <2>4 DEF FlightInv, AcksOK
  <2>6. clientRecords' \subseteq records
    BY <1>8 DEF ServerReceivesRecord
  <2>7. ClientRecordsOK'
    BY <2>4, <2>6 DEF ClientRecordsOK
  <2> QED
    BY <1>2, <1>6, <2>3, <2>5, <2>7, DoneStays DEF FlightInv
<1> QED
  BY <1>7, <1>8

LEMMA KeepsServerReceivesLateRecord ==
    ASSUME FlightInv, NEW w, ServerReceivesLateRecord(w) PROVE FlightInv'
<1>1. w \in OnWireEver("client") /\ w \in Protected("client")
  BY EndsTwo, ClientIsProtected DEF ServerReceivesLateRecord, FlightInv, WireOK
<1>2. WireOK' /\ UNCHANGED <<flight, got, clientRecords, clientDone>>
  BY DEF ServerReceivesLateRecord, Arrived, FlightInv, WireOK
<1>3. Held("client", w, got)
  <2>1. w.record.message \in Messages("client")
    BY <1>1, EndsTwo, WireParts
  <2>2. got["client"][w.record.message] = Body("client", w.record.message)
    BY <2>1 DEF ServerReceivesLateRecord, AllDelivered, Whole
  <2> QED
    BY <2>2 DEF Held, Bytes
<1>4. AcksOK'
  BY <1>1, <1>2, <1>3 DEF ServerReceivesLateRecord, AckCompletedPeerFlightRecord,
     FlightInv, AcksOK
<1>5. CountsOK'
  BY DEF FlightInv, CountsOK, ServerReceivesLateRecord
<1>6. GotOK(got') /\ FlightsOK' /\ ClientRecordsOK'
  BY <1>2 DEF FlightInv, FlightsOK, ClientRecordsOK
<1> QED
  BY <1>2, <1>4, <1>5, <1>6, DoneStays DEF FlightInv

LEMMA FlightInit == Init => FlightInv
<1> SUFFICES ASSUME Init PROVE FlightInv
  OBVIOUS
<1>1. GotOK(got)
  BY DEF Init, GotOK
<1>2. FlightsOK
  <2>1. ASSUME NEW d \in Ends PROVE FlightOK(d, NewFlight, got)
    <3>1. 1 \in Levels
      BY SMT, FlightsAssumption DEF Levels
    <3>2. NewFlight \in Flight(d)
      BY <3>1, FlightMember DEF NewFlight
    <3> QED
      BY <3>2 DEF FlightOK, NewFlight
  <2> QED
    BY <2>1 DEF Init, FlightsOK
<1>3. WireOK /\ AcksOK /\ ClientRecordsOK
  BY DEF Init, WireOK, AcksOK, ClientRecordsOK
<1>4. DoneOK
  BY DEF Init, DoneOK
<1>5. timeouts \in [Ends -> 0 .. 2] /\ losses \in Nat /\ spurious \in Nat /\ refusals \in Nat
  BY SMT DEF Init
<1>6. CountsOK
  BY <1>5 DEF Init, CountsOK
<1> QED
  BY <1>1, <1>2, <1>3, <1>4, <1>6 DEF FlightInv

LEMMA FlightStep == FlightInv /\ [Next]_vars => FlightInv'
<1> SUFFICES ASSUME FlightInv, [Next]_vars PROVE FlightInv'
  OBVIOUS
<1>1. ASSUME NEW d \in Ends, SendFlight(d) \/ Timeout(d) PROVE FlightInv'
  BY <1>1, KeepsSendFlight, KeepsTimeout
<1>2. ASSUME NEW w \in wire["server"], ClientReceives(w) PROVE FlightInv'
  BY <1>2, KeepsClientDropsRecord, KeepsClientReceivesRecord DEF ClientReceives
<1>3. ASSUME NEW w \in wire["client"], ServerReceives(w) PROVE FlightInv'
  BY <1>3, KeepsServerReceivesOldRecord, KeepsServerReceivesRecord,
     KeepsServerReceivesLateRecord DEF ServerReceives
<1>4. CASE ServerReceivesEmptyAck
  BY <1>4, KeepsServerReceivesEmptyAck
<1>5. ASSUME NEW a \in acks["server"], ServerReceivesAck(a) PROVE FlightInv'
  BY <1>5, KeepsServerReceivesAck
<1>6. ASSUME NEW a \in acks["client"], ClientReceivesAck(a) PROVE FlightInv'
  BY <1>6, KeepsClientReceivesAck
<1>7. CASE TransportError
  BY <1>7, KeepsTransportError
<1>8. CASE Lose
  BY <1>8, KeepsLose
<1>9. CASE UNCHANGED vars
  BY <1>9 DEF vars, FlightInv, FlightsOK, WireOK, AcksOK, ClientRecordsOK, DoneOK,
     CountsOK
<1> QED
  BY <1>1, <1>2, <1>3, <1>4, <1>5, <1>6, <1>7, <1>8, <1>9 DEF Next

LEMMA FlightInvHolds == Spec => []FlightInv
  BY FlightInit, FlightStep, PTL DEF Spec

\* Every variable keeps its type, and only protected records are acknowledged.
THEOREM FlightsTyped == Spec => []TypeOK
<1>1. FlightInv => TypeOK
  BY DEF FlightInv, GotOK, FlightsOK, FlightOK, WireOK, AcksOK, ClientRecordsOK,
     DoneOK, CountsOK, TypeOK
<1> QED
  BY <1>1, FlightInvHolds, PTL

\* A record counts as acknowledged only if the peer holds all of it: however
\* often the flight is refragmented, no ACK of an older fragment counts for a
\* newer one (flight.ack).
THEOREM AcksAreSound == Spec => []AckedWereReceived
<1>1. FlightInv => AckedWereReceived
  BY DEF FlightInv, FlightsOK, FlightOK, Held, AckedWereReceived
<1> QED
  BY <1>1, FlightInvHolds, PTL

\* The client completes the handshake only when the server has every message of
\* its last flight (clientAwaitFinalACK).
THEOREM ClientLast == Spec => []ClientCompletesLast
<1>1. ASSUME FlightInv, clientDone, NEW m \in Messages("client")
      PROVE  Whole("client", m)
  <2> DEFINE f == flight["client"]
  <2>1. Complete("client", f) /\ FlightOK("client", f, got)
    BY <1>1, EndsTwo DEF FlightInv, DoneOK, FlightsOK
  <2>2. got["client"][m] \subseteq Body("client", m)
    BY <1>1, EndsTwo DEF FlightInv, GotOK
  <2>3. ASSUME NEW b \in Body("client", m) PROVE b \in got["client"][m]
    <3> DEFINE r == [message |-> m, part |-> b \div FragmentSizes[f.level]]
    <3>1. r \in Records("client", f.level)
      BY SMTT(30) DEF Records
    <3>2. r \in f.acked
      BY <2>1, <3>1 DEF Complete
    <3>3. b \in Bytes("client", f.level, r)
      BY DEF Bytes
    <3>4. Bytes("client", f.level, r) \subseteq got["client"][m]
      BY <2>1, <3>2 DEF FlightOK, Held
    <3> QED
      BY <3>3, <3>4
  <2> QED
    BY <2>2, <2>3 DEF Whole
<1>2. FlightInv => ClientCompletesLast
  BY <1>1 DEF ClientCompletesLast, AllDelivered
<1> QED
  BY <1>2, FlightInvHolds, PTL

-----------------------------------------------------------------------------
(* A flight never has more than a window of unacknowledged records.        *)
LEMMA LeastNatural ==
    ASSUME NEW T, T \subseteq Nat, T # {}
    PROVE  \E x \in T : \A y \in T : x <= y
<1>1. PICK x \in T : \A y \in T : ~(<<y, x>> \in OpToRel(<, Nat))
  BY NatLessThanWellFounded, WFMin
<1>2. ASSUME NEW y \in T PROVE x <= y
  <2>1. y \in Nat /\ x \in Nat
    OBVIOUS
  <2>2. y < x => <<y, x>> \in OpToRel(<, Nat)
    BY <2>1 DEF OpToRel
  <2>3. ~(y < x)
    BY <1>1, <2>2
  <2>4. QED
    BY <2>1, <2>3, SMTT(30)
<1>3. QED
  BY <1>2

\* Before orders the fragments of a flight.
Fragment == [message : Int, part : Int]

LEMMA BeforeOrders ==
    ASSUME NEW q \in Fragment, NEW r \in Fragment, NEW s \in Fragment
    PROVE  /\ ~Before(q, q)
           /\ Before(q, r) \/ Before(r, q) \/ q = r
           /\ Before(q, r) /\ Before(r, s) => Before(q, s)
  BY SMTT(30) DEF Before, Fragment

\* The number of fragments of S before r.
Rank(S, r) == Cardinality({q \in S : Before(q, r)})

LEMMA RankType ==
    ASSUME NEW S, IsFiniteSet(S), NEW r
    PROVE  IsFiniteSet({q \in S : Before(q, r)}) /\ Rank(S, r) \in Nat
<1>1. {q \in S : Before(q, r)} \subseteq S
  OBVIOUS
<1>2. QED
  BY <1>1, FS_Subset, FS_CardinalityType DEF Rank

LEMMA RankGrows ==
    ASSUME NEW S, IsFiniteSet(S), S \subseteq Fragment, NEW r \in S, NEW s \in S, Before(r, s)
    PROVE  Rank(S, r) < Rank(S, s)
<1> DEFINE A == {q \in S : Before(q, r)}
           B == {q \in S : Before(q, s)}
<1>1. IsFiniteSet(A) /\ IsFiniteSet(B)
  BY RankType
<1>2. r \notin A /\ A \cup {r} \subseteq B
  BY BeforeOrders
<1>3. Cardinality(A \cup {r}) = Cardinality(A) + 1
  BY <1>1, <1>2, FS_AddElement
<1>4. Cardinality(A \cup {r}) <= Cardinality(B)
  BY <1>1, <1>2, FS_Subset
<1>5. Cardinality(A) \in Nat /\ Cardinality(B) \in Nat
  BY <1>1, FS_CardinalityType
<1> HIDE DEF A, B
<1>6. Cardinality(A) < Cardinality(B)
  BY <1>3, <1>4, <1>5, SMTT(30)
<1>7. QED
  BY <1>6 DEF A, B, Rank

\* nextUnsentWire and retransmitWire take at most n records.
LEMMA EarliestBound ==
    ASSUME NEW S, IsFiniteSet(S), S \subseteq Fragment, NEW n \in Nat
    PROVE  IsFiniteSet(Earliest(n, S)) /\ Cardinality(Earliest(n, S)) <= n
<1> DEFINE E == Earliest(n, S)
<1>1. IsFiniteSet(E) /\ E \subseteq S
  BY EarliestIsSubset, FS_Subset
<1>2. \A r \in E : Rank(S, r) \in Nat /\ Rank(S, r) < n
  BY RankType DEF Earliest, Rank
<1>3. CASE E = {}
  BY <1>1, <1>3, FS_EmptySet, SMTT(30)
<1>4. CASE E # {}
  <2> DEFINE T == {n - Rank(S, r) : r \in E}
  <2>1. T \subseteq Nat /\ T # {}
    BY <1>2, <1>4, SMTT(30)
  <2>2. PICK x \in T : \A y \in T : x <= y
    BY <2>1, LeastNatural
  <2>3. PICK r \in E : x = n - Rank(S, r)
    OBVIOUS
  <2>4. ASSUME NEW q \in E, q # r PROVE Before(q, r)
    <3>1. Before(q, r) \/ Before(r, q)
      BY <1>1, <2>4, BeforeOrders
    <3>2. ASSUME Before(r, q) PROVE FALSE
      <4>1. Rank(S, r) < Rank(S, q)
        BY <1>1, <3>2, RankGrows
      <4>2. n - Rank(S, q) \in T
        OBVIOUS
      <4>3. n - Rank(S, r) <= n - Rank(S, q)
        BY <2>2, <2>3, <4>2
      <4>4. Rank(S, r) \in Nat /\ Rank(S, q) \in Nat
        BY <1>2
      <4>5. QED
        BY <4>1, <4>3, <4>4, SMTT(30)
    <3>3. QED
      BY <3>1, <3>2
  <2> DEFINE A == {q \in S : Before(q, r)}
  <2>5. IsFiniteSet(A) /\ E \subseteq A \cup {r} /\ r \notin A
    BY <1>1, <2>4, RankType, BeforeOrders, SMTT(30)
  <2>6. IsFiniteSet(A \cup {r}) /\ Cardinality(A \cup {r}) = Cardinality(A) + 1
    BY <2>5, FS_AddElement
  <2>7. Cardinality(E) <= Cardinality(A \cup {r})
    BY <2>5, <2>6, FS_Subset
  <2>8. Cardinality(A) = Rank(S, r)
    BY DEF Rank
  <2>9. Cardinality(E) \in Nat
    BY <1>1, FS_CardinalityType
  <2> HIDE DEF E, A
  <2>10. QED
    BY <1>1, <1>2, <2>6, <2>7, <2>8, <2>9, SMTT(30) DEF E
<1>5. QED
  BY <1>3, <1>4

LEMMA FiniteImage ==
    ASSUME NEW S, IsFiniteSet(S), NEW f PROVE IsFiniteSet({f[x] : x \in S})
<1> DEFINE g == [x \in S |-> f[x]]
           T == {f[x] : x \in S}
<1>1. g \in Surjection(S, T)
  BY DEF Surjection
<1>2. QED
  BY <1>1, FS_Surjection

USE FlightsAssumption, LimitsAssumption

LEMMA RecordsFinite ==
    ASSUME NEW d \in Ends, NEW l \in Levels
    PROVE  IsFiniteSet(Records(d, l)) /\ Records(d, l) \subseteq Fragment
<1> DEFINE part(b) == b \div FragmentSizes[l]
           row == [m \in Messages(d) |-> {[message |-> m, part |-> part(b)] : b \in Body(d, m)}]
<1>1. \A m \in Messages(d) : m \in Nat /\ Length[d][m] \in Nat
  BY ParameterTypes, SMTT(30) DEF Messages
<1>2. FragmentSizes[l] \in Nat \ {0}
  BY SMTT(30) DEF Levels
<1>3. ASSUME NEW b \in Nat PROVE part(b) \in Int
  <2>1. PICK k \in Nat \ {0} : k = FragmentSizes[l]
    BY <1>2
  <2>2. b \div k \in Int
    BY SMTT(30)
  <2>3. QED
    BY <2>1, <2>2
<1>4. ASSUME NEW m \in Messages(d) PROVE Body(d, m) \subseteq Nat /\ IsFiniteSet(Body(d, m))
  <2>1. PICK k \in Nat : k = Length[d][m]
    BY <1>1
  <2>2. 0 .. k - 1 \subseteq Nat /\ 0 \in Int /\ k - 1 \in Int
    BY SMTT(30)
  <2>3. QED
    BY <2>1, <2>2, FS_Interval DEF Body
<1>5. IsFiniteSet(Messages(d))
  <2>1. 1 \in Int /\ Len(Length[d]) \in Int
    BY ParameterTypes, SMTT(30)
  <2>2. QED
    BY <2>1, FS_Interval DEF Messages
<1> HIDE DEF part
<1>6. ASSUME NEW m \in Messages(d) PROVE IsFiniteSet(row[m])
  <2> DEFINE f == [b \in Body(d, m) |-> [message |-> m, part |-> part(b)]]
  <2>1. row[m] = {f[b] : b \in Body(d, m)}
    OBVIOUS
  <2>2. IsFiniteSet(Body(d, m))
    BY <1>4
  <2> HIDE DEF row, f
  <2>3. QED
    BY SMTT(30), <2>1, <2>2, FiniteImage
<1>7. Records(d, l) = UNION {row[m] : m \in Messages(d)}
  BY SMTT(30) DEF Records, part
<1> HIDE DEF row
<1>8. IsFiniteSet(UNION {row[m] : m \in Messages(d)})
  BY <1>5, <1>6, FiniteImage, FS_UNION
<1>9. Records(d, l) \subseteq Fragment
  BY <1>1, <1>3, <1>4, <1>7, SMTT(30) DEF row, Fragment
<1>10. QED
  BY <1>7, <1>8, <1>9

(***************************************************************************)
(* The window is kept by every operation of a flight.                      *)
(***************************************************************************)
WindowOK(f) == Cardinality(Outstanding(f)) <= Window
Windowed == \A d \in Ends : Cardinality(Outstanding(flight[d])) <= Window

LEMMA OutstandingFinite ==
    ASSUME NEW d \in Ends, NEW f, NEW g, FlightOK(d, f, g)
    PROVE  IsFiniteSet(Outstanding(f)) /\ Cardinality(Outstanding(f)) \in Nat
<1>1. f.level \in Levels /\ Outstanding(f) \subseteq Records(d, f.level)
  BY DEF FlightOK, Flight, Outstanding
<1>2. QED
  BY <1>1, RecordsFinite, FS_Subset, FS_CardinalityType

LEMMA SendUnsentWindow ==
    ASSUME NEW d \in Ends, NEW f, NEW g, FlightOK(d, f, g), WindowOK(f)
    PROVE  WindowOK(SendUnsent(d, f))
<1> DEFINE O == Outstanding(f)
           U == Unsent(d, f)
           S == Records(d, f.level) \ (f.sent \cup f.acked)
           n == Window - Cardinality(O)
<1>1. IsFiniteSet(O) /\ Cardinality(O) \in Nat
  BY OutstandingFinite
<1>2. n \in Nat
  BY <1>1, SMTT(30) DEF WindowOK
<1>3. f.level \in Levels
  BY DEF FlightOK, Flight
<1>4. IsFiniteSet(S) /\ S \subseteq Fragment
  BY <1>3, RecordsFinite, FS_Subset
<1>5. IsFiniteSet(U) /\ Cardinality(U) <= n
  BY <1>2, <1>4, EarliestBound DEF Unsent
<1>6. Outstanding(SendUnsent(d, f)) \subseteq O \cup U
  BY DEF Outstanding, SendUnsent
<1>7. IsFiniteSet(O \cup U) /\ Cardinality(O \cup U) = Cardinality(O) + Cardinality(U) - Cardinality(O \cap U)
  BY <1>1, <1>5, FS_Union
<1>8. Cardinality(Outstanding(SendUnsent(d, f))) <= Cardinality(O \cup U)
  BY <1>6, <1>7, FS_Subset
<1>9. /\ Cardinality(U) \in Nat /\ Cardinality(O \cap U) \in Nat
      /\ Cardinality(Outstanding(SendUnsent(d, f))) \in Nat
  BY <1>1, <1>5, <1>6, <1>7, FS_Subset, FS_Intersection, FS_CardinalityType
<1> HIDE DEF O, U
<1>10. QED
  BY <1>1, <1>5, <1>7, <1>8, <1>9, SMTT(30) DEF WindowOK

LEMMA OtherOperationsWindow ==
    ASSUME NEW d \in Ends, NEW f, NEW g, FlightOK(d, f, g), WindowOK(f)
    PROVE  /\ WindowOK(NoteRetransmission(f)) /\ WindowOK(Claimed(f))
           /\ WindowOK(Resize(f))
           /\ \A a : WindowOK(Ack(f, a))
<1>1. Outstanding(NoteRetransmission(f)) = Outstanding(f) /\ Outstanding(Claimed(f)) = Outstanding(f)
  BY DEF Outstanding, NoteRetransmission, Claimed
<1>2. Outstanding(Resize(f)) = {}
  BY DEF Outstanding, Resize
<1>3. \A a : Outstanding(Ack(f, a)) \subseteq Outstanding(f)
  BY DEF Outstanding, Ack
<1>4. IsFiniteSet(Outstanding(f)) /\ Cardinality(Outstanding(f)) \in Nat
  BY OutstandingFinite
<1>5. ASSUME NEW a PROVE WindowOK(Ack(f, a))
  <2>1. /\ Cardinality(Outstanding(Ack(f, a))) <= Cardinality(Outstanding(f))
        /\ Cardinality(Outstanding(Ack(f, a))) \in Nat
    BY <1>3, <1>4, FS_Subset, FS_CardinalityType
  <2>2. QED
    BY <1>4, <2>1, SMTT(30) DEF WindowOK
<1>6. WindowOK(Resize(f))
  BY <1>2, FS_EmptySet, SMTT(30) DEF WindowOK
<1>7. QED
  BY <1>1, <1>5, <1>6 DEF WindowOK

\* A step that replaces d's flight by one that keeps the window.
LEMMA WindowReplaced ==
    ASSUME FlightInv, Windowed, NEW d \in Ends, NEW f, WindowOK(f),
           flight' = [flight EXCEPT ![d] = f]
    PROVE  Windowed'
<1>1. flight'[d] = f /\ \A e \in Ends : e # d => flight'[e] = flight[e]
  BY DEF FlightInv, FlightsOK
<1>2. ASSUME NEW e \in Ends PROVE WindowOK(flight'[e])
  BY <1>1 DEF Windowed, WindowOK
<1>3. QED
  BY <1>2 DEF Windowed, WindowOK

LEMMA WriteFlightWindow ==
    ASSUME FlightInv, Windowed, NEW d \in Ends, NEW f, FlightOK(d, f, got),
           WindowOK(f), NEW resent, WriteFlight(d, f, resent)
    PROVE  Windowed'
<1>1. CASE flight' = [flight EXCEPT ![d] = SendUnsent(d, f)]
  BY <1>1, SendUnsentWindow, WindowReplaced
<1>2. CASE CanReduce(f) /\ flight' = [flight EXCEPT ![d] = SendUnsent(d, Resize(f))]
  <2>1. FlightOK(d, Resize(f), got) /\ WindowOK(Resize(f))
    BY <1>2, ResizeOK, OtherOperationsWindow
  <2>2. QED
    BY <1>2, <2>1, SendUnsentWindow, WindowReplaced
<1>3. QED
  BY <1>1, <1>2 DEF WriteFlight

LEMMA RetransmitFlightWindow ==
    ASSUME FlightInv, Windowed, NEW d \in Ends,
           flight' = [flight EXCEPT ![d] = NoteRetransmission(flight[d])]
    PROVE  Windowed'
<1>1. FlightOK(d, flight[d], got) /\ WindowOK(flight[d])
  BY DEF FlightInv, FlightsOK, Windowed, WindowOK
<1>2. QED
  BY <1>1, OtherOperationsWindow, WindowReplaced

LEMMA RetransmitPartialFlightWindow ==
    ASSUME FlightInv, Windowed, NEW d \in Ends, NEW f, FlightOK(d, f, got),
           WindowOK(f), RetransmitPartialFlight(d, f)
    PROVE  Windowed'
<1>1. FlightOK(d, Claimed(f), got) /\ WindowOK(Claimed(f))
  BY NoteRetransmissionOK, OtherOperationsWindow
<1>2. QED
  BY <1>1, WriteFlightWindow DEF RetransmitPartialFlight

\* A flight after an ACK.
LEMMA AckWindow ==
    ASSUME FlightInv, Windowed, NEW d \in Ends, NEW a \in acks[d]
    PROVE  FlightOK(d, Ack(flight[d], a), got) /\ WindowOK(Ack(flight[d], a))
<1>1. FlightOK(d, flight[d], got) /\ WindowOK(flight[d])
  BY DEF FlightInv, FlightsOK, Windowed, WindowOK
<1>2. a \in OnWireEver(d) /\ Held(d, a, got)
  BY DEF FlightInv, AcksOK, Protected
<1>3. QED
  BY <1>1, <1>2, AckOK, OtherOperationsWindow

LEMMA WindowStays ==
    ASSUME Windowed, flight' = flight PROVE Windowed'
  BY DEF Windowed

LEMMA WindowStep ==
    ASSUME FlightInv, Windowed, [Next]_vars
    PROVE  Windowed'
<1>1. ASSUME NEW d \in Ends
      PROVE  FlightOK(d, flight[d], got) /\ WindowOK(flight[d])
  BY DEF FlightInv, FlightsOK, Windowed, WindowOK
<1>2. ASSUME NEW d \in Ends, SendFlight(d) PROVE Windowed'
  BY <1>1, <1>2, WriteFlightWindow DEF SendFlight
<1>3. ASSUME NEW d \in Ends, Timeout(d) PROVE Windowed'
  <2>1. CASE timeouts[d] = 2 /\ CanReduce(flight[d])
    <3>1. FlightOK(d, Resize(flight[d]), got) /\ WindowOK(Resize(flight[d]))
      BY <1>1, <2>1, ResizeOK, OtherOperationsWindow
    <3>2. QED
      BY <1>3, <2>1, <3>1, WriteFlightWindow DEF Timeout
  <2>2. CASE ~(timeouts[d] = 2 /\ CanReduce(flight[d]))
    BY <1>3, <2>2, RetransmitFlightWindow DEF Timeout, RetransmitFlight
  <2>3. QED
    BY <2>1, <2>2
<1>4. CASE ServerReceivesEmptyAck
  <2>1. CASE Waiting("server")
    BY <1>4, <2>1, EndsTwo, RetransmitFlightWindow DEF ServerReceivesEmptyAck,
       RetransmitFlight
  <2>2. CASE ~Waiting("server")
    BY <1>4, <2>2, WindowStays DEF ServerReceivesEmptyAck
  <2>3. QED
    BY <2>1, <2>2
<1>5. ASSUME NEW a \in acks["server"], ServerReceivesAck(a) PROVE Windowed'
  <2>1. CASE Waiting("server")
    <3>1. RetransmitPartialFlight("server", Ack(flight["server"], a))
      BY <1>5, <2>1 DEF ServerReceivesAck
    <3>2. QED
      BY <3>1, EndsTwo, AckWindow, RetransmitPartialFlightWindow
  <2>2. CASE ~Waiting("server")
    BY <1>5, <2>2, WindowStays DEF ServerReceivesAck
  <2>3. QED
    BY <2>1, <2>2
<1>6. ASSUME NEW a \in acks["client"], ClientReceivesAck(a) PROVE Windowed'
  <2> DEFINE f == Ack(flight["client"], a)
  <2>1. FlightOK("client", f, got) /\ WindowOK(f)
    BY EndsTwo, AckWindow
  <2>2. \/ flight' = [flight EXCEPT !["client"] = f]
        \/ RetransmitPartialFlight("client", f)
        \/ flight' = flight
    BY <1>6 DEF ClientReceivesAck
  <2> HIDE DEF f
  <2>3. CASE flight' = [flight EXCEPT !["client"] = f]
    BY <2>1, <2>3, EndsTwo, WindowReplaced
  <2>4. CASE RetransmitPartialFlight("client", f)
    BY <2>1, <2>4, EndsTwo, RetransmitPartialFlightWindow
  <2>5. QED
    BY <2>2, <2>3, <2>4, WindowStays
<1>7. ASSUME NEW w, ServerReceivesOldRecord(w) PROVE Windowed'
  <2>1. \/ flight' = [flight EXCEPT !["server"] = NoteRetransmission(flight["server"])]
        \/ flight' = flight
    BY <1>7 DEF ServerReceivesOldRecord
  <2>2. QED
    BY <2>1, EndsTwo, RetransmitFlightWindow, WindowStays
<1>8. ASSUME \/ UNCHANGED vars \/ TransportError \/ Lose
             \/ \E w \in wire["server"] : ClientReceives(w)
             \/ \E w \in wire["client"] : ServerReceivesRecord(w) \/ ServerReceivesLateRecord(w)
      PROVE  Windowed'
  <2>1. flight' = flight
    BY <1>8 DEF vars, TransportError, Lose, ClientReceives, ClientDropsRecord,
       ClientLacksKeys, ClientReceivesRecord, ServerReceivesRecord,
       ServerReceivesLateRecord
  <2>2. QED
    BY <2>1, WindowStays
<1>9. QED
  <2>1. ASSUME NEW w \in wire["client"], ServerReceives(w) PROVE Windowed'
    BY <1>7, <1>8, <2>1 DEF ServerReceives
  <2>2. ASSUME NEW d \in Ends, SendFlight(d) \/ Timeout(d) PROVE Windowed'
    BY <1>2, <1>3, <2>2
  <2>3. QED
    BY <1>4, <1>5, <1>6, <1>8, <2>1, <2>2 DEF Next

LEMMA WindowInit == Init => Windowed
<1> SUFFICES ASSUME Init PROVE Windowed
  OBVIOUS
<1>1. \A d \in Ends : Outstanding(flight[d]) = {}
  BY DEF Init, NewFlight, Outstanding
<1>2. Cardinality({}) = 0
  BY FS_EmptySet
<1>3. 0 <= Window
  BY SMTT(30)
<1>4. QED
  BY <1>1, <1>2, <1>3 DEF Windowed

(***************************************************************************)
(* The window counts every record in the network.                          *)
(***************************************************************************)
AllCounted == \A d \in Ends : \A w \in wire[d] : Counted(flight[d], w)

\* Every record f counts, g counts too.
Continues(f, g) ==
    /\ f.level \in Int /\ g.level \in Int
    /\ \/ f.level < g.level
       \/ f.level = g.level /\ f.sent \subseteq g.sent

LEMMA ContinuesCounts ==
    ASSUME NEW f, NEW g, NEW w, Continues(f, g), w.level \in Int, Counted(f, w)
    PROVE  Counted(g, w)
  BY SMTT(30) DEF Continues, Counted

LEMMA ContinuesThrough ==
    ASSUME NEW f, NEW g, NEW h, Continues(f, g), Continues(g, h)
    PROVE  Continues(f, h)
  BY SMTT(30) DEF Continues

\* Each operation of a flight goes on counting what was counted.
LEMMA OperationsContinue ==
    ASSUME NEW d \in Ends, NEW f, NEW g, FlightOK(d, f, g)
    PROVE  /\ Continues(f, f)
           /\ Continues(f, SendUnsent(d, f)) /\ Continues(f, Resize(f))
           /\ Continues(f, NoteRetransmission(f)) /\ Continues(f, Claimed(f))
           /\ \A a : Continues(f, Ack(f, a))
<1>1. f.level \in Int
  BY ParameterTypes, SMTT(30) DEF FlightOK, Flight, Levels
<1>2. Continues(f, Resize(f))
  BY <1>1, SMTT(30) DEF Continues, Resize
<1>3. QED
  BY <1>1, <1>2 DEF Continues, SendUnsent, NoteRetransmission, Claimed, Ack

LEMMA OnWireFields ==
    ASSUME NEW l, NEW S, NEW w \in OnWire(l, S)
    PROVE  w.level = l /\ w.record \in S
  BY SMTT(30) DEF OnWire

\* What f has sent, and what SendUnsent sends, is counted.
LEMMA SentIsCounted ==
    ASSUME NEW f, NEW S, S \subseteq f.sent, NEW w \in OnWire(f.level, S)
    PROVE  Counted(f, w)
  BY OnWireFields DEF Counted

\* A step that replaces d's flight by one that continues it, and adds records
\* which that one counts.
LEMMA CountedReplaced ==
    ASSUME FlightInv, AllCounted, NEW d \in Ends, NEW f, Continues(flight[d], f),
           flight' = [flight EXCEPT ![d] = f],
           \A e \in Ends : e # d => wire'[e] \subseteq wire[e],
           \A w \in wire'[d] : w \in wire[d] \/ Counted(f, w)
    PROVE  AllCounted'
<1>1. flight'[d] = f /\ \A e \in Ends : e # d => flight'[e] = flight[e]
  BY DEF FlightInv, FlightsOK
<1>2. ASSUME NEW w \in wire[d] PROVE w.level \in Int
  <2>1. w \in OnWireEver(d)
    BY DEF FlightInv, WireOK
  <2>2. w.level \in Levels
    BY <2>1, WireParts
  <2>3. QED
    BY <2>2, ParameterTypes, SMTT(30) DEF Levels
<1>3. ASSUME NEW w \in wire[d] PROVE Counted(f, w)
  <2>1. Counted(flight[d], w)
    BY DEF AllCounted
  <2>2. QED
    BY <1>2, <2>1, ContinuesCounts
<1>4. ASSUME NEW e \in Ends, NEW w \in wire'[e] PROVE Counted(flight'[e], w)
  <2>1. CASE e = d
    BY <1>1, <1>3, <1>4, <2>1
  <2>2. CASE e # d
    BY <1>1, <1>4, <2>2 DEF AllCounted
  <2>3. QED
    BY <2>1, <2>2
<1>5. QED
  BY <1>4 DEF AllCounted, Counted

LEMMA WriteFlightCounted ==
    ASSUME FlightInv, AllCounted, NEW d \in Ends, NEW f, FlightOK(d, f, got),
           Continues(flight[d], f), NEW resent, WriteFlight(d, f, resent),
           \A w \in resent : w.level \in Int /\ Counted(f, w)
    PROVE  AllCounted'
<1> DEFINE g == SendUnsent(d, f)
           h == SendUnsent(d, Resize(f))
<1>0. DOMAIN wire = Ends
  BY DEF FlightInv, WireOK
<1>1. CASE /\ flight' = [flight EXCEPT ![d] = g]
           /\ wire' = [wire EXCEPT ![d] = @ \cup resent \cup OnWire(f.level, Unsent(d, f))]
  <2>1. Continues(f, g)
    BY OperationsContinue
  <2>2. g.level = f.level /\ Unsent(d, f) \subseteq g.sent
    BY DEF SendUnsent
  <2> HIDE DEF g
  <2>3. \A w \in OnWire(f.level, Unsent(d, f)) : Counted(g, w)
    BY <2>2, SentIsCounted
  <2>4. \A w \in resent : Counted(g, w)
    BY <2>1, ContinuesCounts
  <2>5. Continues(flight[d], g)
    BY <2>1, ContinuesThrough
  <2>6. \A w \in wire'[d] : w \in wire[d] \/ Counted(g, w)
    BY <1>0, <1>1, <2>3, <2>4
  <2>7. \A e \in Ends : e # d => wire'[e] \subseteq wire[e]
    BY <1>0, <1>1
  <2>8. QED
    BY <1>1, <2>5, <2>6, <2>7, CountedReplaced
<1>2. ASSUME CanReduce(f), flight' = [flight EXCEPT ![d] = h],
             NEW n,
             wire' = [wire EXCEPT ![d] =
                        @ \cup resent
                          \cup OnWire(f.level, Earliest(n, Unsent(d, f)))
                          \cup OnWire(f.level + 1, Unsent(d, Resize(f)))]
      PROVE  AllCounted'
  <2>1. FlightOK(d, Resize(f), got) /\ Continues(f, Resize(f))
    BY <1>2, ResizeOK, OperationsContinue
  <2>2. Continues(Resize(f), h)
    BY <2>1, OperationsContinue
  <2>3. Continues(f, h)
    BY <2>1, <2>2, ContinuesThrough
  <2>4. h.level = f.level + 1 /\ Unsent(d, Resize(f)) \subseteq h.sent
    BY DEF SendUnsent, Resize
  <2> HIDE DEF h
  <2>5. \A w \in OnWire(f.level + 1, Unsent(d, Resize(f))) : Counted(h, w)
    BY <2>4, SentIsCounted
  <2>6. \A w \in OnWire(f.level, Earliest(n, Unsent(d, f))) : Counted(h, w)
    <3>1. f.level < h.level
      BY <2>3, <2>4, SMTT(30) DEF Continues
    <3>2. ASSUME NEW w \in OnWire(f.level, Earliest(n, Unsent(d, f)))
          PROVE  w.level < h.level
      BY <3>1, OnWireFields
    <3>3. QED
      BY <3>2 DEF Counted
  <2>7. \A w \in resent : Counted(h, w)
    BY <2>3, ContinuesCounts
  <2>8. Continues(flight[d], h)
    BY <2>3, ContinuesThrough
  <2>9. \A w \in wire'[d] : w \in wire[d] \/ Counted(h, w)
    BY <1>0, <1>2, <2>5, <2>6, <2>7
  <2>10. \A e \in Ends : e # d => wire'[e] \subseteq wire[e]
    BY <1>0, <1>2
  <2>11. QED
    BY <1>2, <2>8, <2>9, <2>10, CountedReplaced
<1>3. QED
  BY <1>1, <1>2 DEF WriteFlight

LEMMA WriteUnsentCounted ==
    ASSUME FlightInv, AllCounted, NEW d \in Ends, NEW f, FlightOK(d, f, got),
           Continues(flight[d], f), WriteFlight(d, f, {})
    PROVE  AllCounted'
<1> DEFINE none == {}
<1>1. \A w \in none : w.level \in Int /\ Counted(f, w)
  OBVIOUS
<1>2. WriteFlight(d, f, none)
  OBVIOUS
<1> HIDE DEF none
<1>3. QED
  BY <1>1, <1>2, WriteFlightCounted

\* The records of a retransmission were sent before.
LEMMA ResentCounted ==
    ASSUME NEW d \in Ends, NEW f, NEW g, FlightOK(d, f, g)
    PROVE  \A w \in OnWire(f.level, Resent(f)) : w.level \in Int /\ Counted(f, w)
<1>1. f.level \in Int
  BY ParameterTypes, SMTT(30) DEF FlightOK, Flight, Levels
<1>2. Resent(f) \subseteq f.sent
  BY EarliestIsSubset DEF Resent, Outstanding
<1>3. QED
  BY <1>1, <1>2, OnWireFields DEF Counted

LEMMA RetransmitCounted ==
    ASSUME FlightInv, AllCounted, NEW d \in Ends,
           flight' = [flight EXCEPT ![d] = NoteRetransmission(flight[d])],
           \A e \in Ends : e # d => wire'[e] \subseteq wire[e],
           wire'[d] \subseteq wire[d] \cup OnWire(flight[d].level, Resent(flight[d]))
    PROVE  AllCounted'
<1> DEFINE f == flight[d]
           g == NoteRetransmission(f)
<1>1. FlightOK(d, f, got)
  BY DEF FlightInv, FlightsOK
<1>2. Continues(f, g)
  BY <1>1, OperationsContinue
<1>3. \A w \in OnWire(f.level, Resent(f)) : w.level \in Int /\ Counted(f, w)
  BY <1>1, ResentCounted
<1> HIDE DEF g
<1>4. \A w \in wire'[d] : w \in wire[d] \/ Counted(g, w)
  BY <1>2, <1>3, ContinuesCounts
<1>5. QED
  BY <1>2, <1>4, CountedReplaced DEF g

LEMMA RetransmitPartialCounted ==
    ASSUME FlightInv, AllCounted, NEW d \in Ends, NEW f, FlightOK(d, f, got),
           Continues(flight[d], f), RetransmitPartialFlight(d, f)
    PROVE  AllCounted'
<1>1. CASE f.retransmitted
  <2>1. WriteFlight(d, f, {})
    BY <1>1 DEF RetransmitPartialFlight
  <2>2. QED
    BY <2>1, WriteUnsentCounted
<1>2. CASE ~f.retransmitted
  <2>1. WriteFlight(d, Claimed(f), OnWire(f.level, Resent(f)))
    BY <1>2 DEF RetransmitPartialFlight
  <2>2. FlightOK(d, Claimed(f), got) /\ Continues(f, Claimed(f))
    BY NoteRetransmissionOK, OperationsContinue
  <2>3. \A w \in OnWire(f.level, Resent(f)) : w.level \in Int /\ Counted(Claimed(f), w)
    BY <2>2, ResentCounted, ContinuesCounts
  <2>4. Continues(flight[d], Claimed(f))
    BY <2>2, ContinuesThrough
  <2>5. QED
    BY <2>1, <2>2, <2>3, <2>4, WriteFlightCounted
<1>3. QED
  BY <1>1, <1>2

\* A step that sends nothing.
LEMMA CountedStays ==
    ASSUME AllCounted, flight' = flight, \A d \in Ends : wire'[d] \subseteq wire[d]
    PROVE  AllCounted'
  BY DEF AllCounted

LEMMA CountedStep ==
    ASSUME FlightInv, AllCounted, [Next]_vars
    PROVE  AllCounted'
<1>0. DOMAIN wire = Ends
  BY DEF FlightInv, WireOK
<1>1. ASSUME NEW d \in Ends
      PROVE  FlightOK(d, flight[d], got) /\ Continues(flight[d], flight[d])
  BY OperationsContinue DEF FlightInv, FlightsOK
<1>2. ASSUME NEW d \in Ends, SendFlight(d) PROVE AllCounted'
  BY <1>1, <1>2, WriteUnsentCounted DEF SendFlight
<1>3. ASSUME NEW d \in Ends, RetransmitFlight(d, flight[d]) PROVE AllCounted'
  <2>1. /\ \A e \in Ends : e # d => wire'[e] \subseteq wire[e]
        /\ wire'[d] \subseteq wire[d] \cup OnWire(flight[d].level, Resent(flight[d]))
    BY <1>0, <1>3 DEF RetransmitFlight
  <2>2. QED
    BY <1>3, <2>1, RetransmitCounted DEF RetransmitFlight
<1>4. ASSUME NEW d \in Ends, Timeout(d) PROVE AllCounted'
  <2>1. CASE timeouts[d] = 2 /\ CanReduce(flight[d])
    <3>1. FlightOK(d, Resize(flight[d]), got) /\ Continues(flight[d], Resize(flight[d]))
      BY <1>1, <2>1, ResizeOK, OperationsContinue
    <3>2. WriteFlight(d, Resize(flight[d]), {})
      BY <1>4, <2>1 DEF Timeout
    <3>3. QED
      BY <3>1, <3>2, WriteUnsentCounted
  <2>2. CASE ~(timeouts[d] = 2 /\ CanReduce(flight[d]))
    BY <1>3, <1>4, <2>2 DEF Timeout
  <2>3. QED
    BY <2>1, <2>2
<1>5. CASE ServerReceivesEmptyAck
  <2>1. CASE Waiting("server")
    BY <1>3, <1>5, <2>1, EndsTwo DEF ServerReceivesEmptyAck
  <2>2. CASE ~Waiting("server")
    BY <1>5, <2>2, CountedStays DEF ServerReceivesEmptyAck
  <2>3. QED
    BY <2>1, <2>2
<1>6. ASSUME NEW d \in Ends, NEW a \in acks[d]
      PROVE  /\ FlightOK(d, Ack(flight[d], a), got)
             /\ Continues(flight[d], Ack(flight[d], a))
  <2>1. a \in OnWireEver(d) /\ Held(d, a, got)
    BY <1>6 DEF FlightInv, AcksOK, Protected
  <2>2. QED
    BY <1>1, <2>1, AckOK, OperationsContinue
<1>7. ASSUME NEW a \in acks["server"], ServerReceivesAck(a) PROVE AllCounted'
  <2>1. CASE Waiting("server")
    <3>1. RetransmitPartialFlight("server", Ack(flight["server"], a))
      BY <1>7, <2>1 DEF ServerReceivesAck
    <3>2. QED
      BY <1>6, <3>1, EndsTwo, RetransmitPartialCounted
  <2>2. CASE ~Waiting("server")
    BY <1>7, <2>2, CountedStays DEF ServerReceivesAck
  <2>3. QED
    BY <2>1, <2>2
<1>8. ASSUME NEW a \in acks["client"], ClientReceivesAck(a) PROVE AllCounted'
  <2> DEFINE f == Ack(flight["client"], a)
  <2>1. FlightOK("client", f, got) /\ Continues(flight["client"], f)
    BY <1>6, EndsTwo
  <2>2. \/ flight' = [flight EXCEPT !["client"] = f] /\ wire' = wire
        \/ RetransmitPartialFlight("client", f)
        \/ flight' = flight /\ wire' = wire
    BY <1>8 DEF ClientReceivesAck
  <2> HIDE DEF f
  <2>3. CASE flight' = [flight EXCEPT !["client"] = f] /\ wire' = wire
    BY <2>1, <2>3, EndsTwo, CountedReplaced
  <2>4. CASE RetransmitPartialFlight("client", f)
    BY <2>1, <2>4, EndsTwo, RetransmitPartialCounted
  <2>5. QED
    BY <2>2, <2>3, <2>4, CountedStays
<1>9. ASSUME NEW w, ServerReceivesOldRecord(w) PROVE AllCounted'
  <2> DEFINE f == flight["server"]
  <2>1. CASE flight["server"].acked = {}
    <3>1. /\ flight' = [flight EXCEPT !["server"] = NoteRetransmission(f)]
          /\ wire' = [client |-> wire["client"] \ {w},
                      server |-> wire["server"] \cup OnWire(f.level, Resent(f))]
      BY <1>9, <2>1 DEF ServerReceivesOldRecord
    <3>2. /\ wire'["client"] \subseteq wire["client"]
          /\ wire'["server"] \subseteq wire["server"] \cup OnWire(f.level, Resent(f))
      BY <3>1, SMTT(30)
    <3>3. \A e \in Ends : e # "server" => wire'[e] \subseteq wire[e]
      BY <3>2 DEF Ends
    <3>4. QED
      BY <3>1, <3>2, <3>3, EndsTwo, RetransmitCounted
  <2>2. CASE flight["server"].acked # {}
    <3>1. flight' = flight /\ wire' = [wire EXCEPT !["client"] = @ \ {w}]
      BY <1>9, <2>2 DEF ServerReceivesOldRecord, Arrived
    <3>2. QED
      BY <1>0, <3>1, CountedStays
  <2>3. QED
    BY <2>1, <2>2
<1>10. ASSUME flight' = flight,
              wire' = wire \/ \E d \in Ends : \E w : wire' = Arrived(d, w)
       PROVE  AllCounted'
  <2>1. \A d \in Ends : wire'[d] \subseteq wire[d]
    BY <1>0, <1>10 DEF Arrived
  <2>2. QED
    BY <1>10, <2>1, CountedStays
<1>11. ASSUME \/ UNCHANGED vars \/ TransportError \/ Lose
              \/ \E w \in wire["server"] : ClientReceives(w)
              \/ \E w \in wire["client"] : ServerReceivesRecord(w) \/ ServerReceivesLateRecord(w)
       PROVE  AllCounted'
  <2>1. flight' = flight
    BY <1>11 DEF vars, TransportError, Lose, ClientReceives, ClientDropsRecord,
       ClientLacksKeys, ClientReceivesRecord, ServerReceivesRecord,
       ServerReceivesLateRecord
  <2>2. wire' = wire \/ \E d \in Ends : \E w : wire' = Arrived(d, w)
    BY <1>11, EndsTwo DEF vars, TransportError, Lose, ClientReceives,
       ClientDropsRecord, ClientLacksKeys, ClientReceivesRecord,
       ServerReceivesRecord, ServerReceivesLateRecord
  <2>3. QED
    BY <1>10, <2>1, <2>2
<1>12. QED
  <2>1. ASSUME NEW w \in wire["client"], ServerReceives(w) PROVE AllCounted'
    BY <1>9, <1>11, <2>1 DEF ServerReceives
  <2>2. ASSUME NEW d \in Ends, SendFlight(d) \/ Timeout(d) PROVE AllCounted'
    BY <1>2, <1>4, <2>2
  <2>3. QED
    BY <1>5, <1>7, <1>8, <1>11, <2>1, <2>2 DEF Next

LEMMA CountedInit == Init => AllCounted
  BY DEF Init, AllCounted

\* At most a window of records awaits acknowledgement (nextUnsentWire), however
\* the flight is refragmented and whatever ACKs and timeouts arrive, and the
\* window counts every record of the current size that is in the network.
THEOREM WindowIsKept == Spec => []WindowRespected
<1>1. FlightInv /\ Windowed /\ [Next]_vars => Windowed'
  BY WindowStep
<1>2. FlightInv /\ AllCounted /\ [Next]_vars => AllCounted'
  BY CountedStep
<1>3. Windowed /\ AllCounted => WindowRespected
  BY DEF Windowed, AllCounted, WindowRespected
<1>4. QED
  BY <1>1, <1>2, <1>3, WindowInit, CountedInit, FlightInvHolds, PTL DEF Spec

(***************************************************************************)
(* The inbox fails only when it is full.                                   *)
(***************************************************************************)
\* Messages that are incomplete, or ready and not delivered, are held.
LEMMA BufferedAreHeld ==
    ASSUME NEW d \in Ends
    PROVE  Incomplete(d) \subseteq Undelivered(d) /\ Ready(d) \subseteq Undelivered(d)
<1>1. ASSUME NEW m \in Incomplete(d) PROVE m \in Undelivered(d)
  <2>1. m \in Messages(d) /\ got[d][m] # {} /\ ~Whole(d, m)
    BY <1>1 DEF Incomplete
  <2>2. m \in 1 .. m
    BY <2>1, ParameterTypes, SMTT(30) DEF Messages
  <2>3. QED
    BY <2>1, <2>2 DEF Undelivered, Delivered
<1>2. ASSUME NEW m \in Ready(d) PROVE m \in Undelivered(d)
  <2>1. m \in Messages(d) /\ Whole(d, m) /\ ~Delivered(d, m)
    BY <1>2 DEF Ready
  <2>2. Length[d][m] \in Nat \ {0}
    BY <2>1, ParameterTypes, SMTT(30) DEF Messages
  <2>3. 0 \in Body(d, m)
    BY <2>2, SMTT(30) DEF Body
  <2>4. got[d][m] # {}
    BY <2>1, <2>3 DEF Whole
  <2>5. QED
    BY <2>1, <2>4 DEF Undelivered
<1>3. QED
  BY <1>1, <1>2

\* One message more than the inbox may hold, and it brings something new.
TooMany(d, w) ==
    /\ ~(Bytes(d, w.level, w.record) \subseteq got[d][w.record.message])
    /\ Cardinality(Undelivered(d) \cup {w.record.message}) > MaxBuffered

LEMMA OverflowIsTooMany ==
    ASSUME NEW d \in Ends, NEW w \in OnWireEver(d),
           got[d][w.record.message] \subseteq Body(d, w.record.message),
           Overflows(d, w.record.message, Bytes(d, w.level, w.record))
    PROVE  TooMany(d, w)
<1> DEFINE m == w.record.message
           bytes == Bytes(d, w.level, w.record)
<1>1. m \in Messages(d) /\ bytes # {}
  <2>1. w.level \in Levels /\ w.record \in Records(d, w.level) /\ m \in Messages(d)
    BY WireParts
  <2>2. PICK k \in Messages(d) :
          w.record \in {[message |-> k, part |-> b \div FragmentSizes[w.level]] : b \in Body(d, k)}
    BY <2>1 DEF Records
  <2>3. PICK b \in Body(d, k) :
          w.record = [message |-> k, part |-> b \div FragmentSizes[w.level]]
    BY <2>2
  <2>4. w.record.message = k /\ w.record.part = b \div FragmentSizes[w.level]
    BY <2>3, SMTT(30)
  <2>5. b \in bytes
    BY <2>3, <2>4 DEF Bytes
  <2>6. QED
    BY <2>1, <2>5
<1>2. ~(bytes \subseteq got[d][m])
  <2>1. CASE got[d][m] = {}
    BY <1>1, <2>1
  <2>2. CASE got[d][m] \cup bytes = Body(d, m)
    BY <2>2 DEF Overflows, Whole
  <2>3. QED
    BY <2>1, <2>2 DEF Overflows
<1> HIDE DEF bytes
<1>3. PICK B \in {Incomplete(d), Ready(d)} : Cardinality(B) >= MaxBuffered /\ m \notin B
  BY DEF Overflows, Incomplete, Ready
<1>4. B \subseteq Undelivered(d)
  BY BufferedAreHeld
<1>5. IsFiniteSet(Undelivered(d))
  <2>1. Len(Length[d]) \in Int /\ 1 \in Int
    BY ParameterTypes, SMTT(30)
  <2>2. IsFiniteSet(Messages(d))
    BY <2>1, FS_Interval DEF Messages
  <2>3. Undelivered(d) \subseteq Messages(d)
    BY DEF Undelivered
  <2>4. QED
    BY <2>2, <2>3, FS_Subset
<1> HIDE DEF m
<1>6. IsFiniteSet(B) /\ IsFiniteSet(Undelivered(d) \cup {m})
  BY <1>4, <1>5, FS_Subset, FS_AddElement
<1>7. B \cup {m} \subseteq Undelivered(d) \cup {m}
  BY <1>4
<1>8. IsFiniteSet(B \cup {m}) /\ Cardinality(B \cup {m}) = Cardinality(B) + 1
  BY <1>3, <1>6, FS_AddElement
<1>9. Cardinality(B \cup {m}) <= Cardinality(Undelivered(d) \cup {m})
  BY <1>6, <1>7, FS_Subset
<1>10. /\ Cardinality(B) \in Nat
       /\ Cardinality(Undelivered(d) \cup {m}) \in Nat
  BY <1>6, FS_CardinalityType
<1>11. Cardinality(Undelivered(d) \cup {m}) > MaxBuffered
  BY <1>3, <1>8, <1>9, <1>10, SMTT(30)
<1>12. QED
  BY <1>2, <1>11 DEF TooMany, m, bytes

\* A receiver that overflows has taken the record that makes it overflow from the network.
LEMMA OverflowStep ==
    ASSUME FlightInv, NEW d \in Ends, NEW w \in wire[d], wire' = Arrived(d, w),
           Overflows(d, w.record.message, Bytes(d, w.level, w.record))
    PROVE  \E e \in Ends : \E v \in wire[e] \ wire'[e] : TooMany(e, v)
<1>1. w \in OnWireEver(d) /\ w \notin wire'[d]
  BY DEF FlightInv, WireOK, Arrived
<1>2. w.record.message \in Messages(d)
  BY <1>1, WireParts
<1>3. got[d][w.record.message] \subseteq Body(d, w.record.message)
  BY <1>2 DEF FlightInv, GotOK
<1>4. QED
  BY <1>1, <1>3, OverflowIsTooMany

\* Every other step fails nothing, or follows a refused write.
LEMMA InboxStep ==
    ASSUME FlightInv, [Next]_vars, ~failed, failed', refusals' = refusals
    PROVE  \E d \in Ends : \E w \in wire[d] \ wire'[d] : TooMany(d, w)
<1>1. ASSUME NEW w \in wire["server"], ClientReceivesRecord(w)
      PROVE  /\ wire' = Arrived("server", w)
             /\ Overflows("server", w.record.message, Bytes("server", w.level, w.record))
  BY <1>1 DEF ClientReceivesRecord
<1>2. ASSUME NEW w \in wire["client"], ServerReceivesRecord(w)
      PROVE  /\ wire' = Arrived("client", w)
             /\ Overflows("client", w.record.message, Bytes("client", w.level, w.record))
  BY <1>2 DEF ServerReceivesRecord
<1>3. ASSUME TransportError PROVE FALSE
  <2>1. refusals \in Nat /\ refusals' = refusals + 1
    BY <1>3 DEF TransportError, FlightInv, CountsOK
  <2>2. QED
    BY <2>1, SMTT(30)
<1>4. ASSUME \/ UNCHANGED vars \/ Lose
             \/ \E d \in Ends : SendFlight(d) \/ Timeout(d)
             \/ ServerReceivesEmptyAck
             \/ \E a \in acks["server"] : ServerReceivesAck(a)
             \/ \E a \in acks["client"] : ClientReceivesAck(a)
             \/ \E w \in wire["server"] : ClientDropsRecord(w) \/ ClientLacksKeys(w)
             \/ \E w \in wire["client"] : \/ ServerReceivesOldRecord(w)
                                           \/ ServerReceivesLateRecord(w)
      PROVE  FALSE
  <2>1. failed' = failed
    BY <1>4 DEF vars, Lose, SendFlight, Timeout, ServerReceivesEmptyAck,
       ServerReceivesAck, ClientReceivesAck, ClientDropsRecord, ClientLacksKeys,
       ServerReceivesOldRecord, ServerReceivesLateRecord
  <2>2. QED
    BY <2>1
<1>5. \/ \E w \in wire["server"] : ClientReceivesRecord(w)
      \/ \E w \in wire["client"] : ServerReceivesRecord(w)
  BY <1>3, <1>4 DEF Next, ClientReceives, ServerReceives
<1>6. QED
  BY <1>1, <1>2, <1>5, EndsTwo, OverflowStep

\* The record a receiver fails on brings one message more than the inbox may
\* hold, for every flight, fragmentation and limit.
THEOREM InboxFailsOnlyWhenFull == Spec => InboxFailsWhenFull
<1> DEFINE Fails == ~failed /\ failed' /\ refusals' = refusals
           Explained == \E d \in Ends : \E w \in wire[d] \ wire'[d] :
                            LET m == w.record.message
                            IN  /\ ~(Bytes(d, w.level, w.record) \subseteq got[d][m])
                                /\ Cardinality(Undelivered(d) \cup {m}) > MaxBuffered
<1>1. ASSUME FlightInv, [Next]_vars, Fails PROVE Explained
  BY <1>1, InboxStep DEF TooMany
<1> HIDE DEF Fails, Explained
<1>2. FlightInv /\ [Next]_vars => [Fails => Explained]_vars
  BY <1>1
<1>3. Spec => [][Fails => Explained]_vars
  BY <1>2, FlightInvHolds, PTL DEF Spec
<1>4. QED
  BY <1>3 DEF InboxFailsWhenFull, Fails, Explained
==============================================================================
