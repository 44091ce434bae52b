--------------------------- MODULE HandshakeFlight ---------------------------
(***************************************************************************)
(* The two protected flights that end a handshake: the server's, a         *)
(* plaintext ServerHello followed by protected messages, and the client's  *)
(* answer, which the server acknowledges (flight.go, handshake_inbox.go,   *)
(* handshake.go and the receive loops of handshake_driver.go), over a      *)
(* network that loses and reorders records.                                *)
(*                                                                         *)
(* A record of a flight is one fragment of one message; which fragments    *)
(* there are depends on the path MTU, which refragmenting lowers one step  *)
(* at a time (level).  A retransmission gets a fresh record number, and a  *)
(* flightRecord remembers all of its numbers, so an ACK of any of them     *)
(* acknowledges it: a number is modelled by the record it was given to and *)
(* the level of the flight it belongs to, and refragmenting forgets the    *)
(* numbers of the level before.                                            *)
(***************************************************************************)
EXTENDS Integers, Sequences, FiniteSets

CONSTANTS
    Length,         \* Length[d][m]: bytes of the m-th message of d's flight
    FragmentSizes,  \* bytes of a message in a record, at each path MTU
    Window,         \* unacknowledged records a flight may have (10 in the code)
    MaxBuffered,    \* MaxBufferedHandshakeMessages
    MaxLosses,      \* bound: records and ACKs the network loses
    MaxSpurious,    \* bound: timeouts while something is still in the network
    MaxRefusals     \* bound: writes the transport refuses

Ends == {"client", "server"}

ASSUME FlightsAssumption ==
    /\ \A d \in Ends : Length[d] \in Seq(Nat \ {0})
    /\ FragmentSizes \in Seq(Nat \ {0})
    /\ Len(FragmentSizes) > 0
ASSUME LimitsAssumption ==
    /\ Window \in Nat
    /\ MaxBuffered \in Nat
    /\ MaxLosses \in Nat
    /\ MaxSpurious \in Nat
    /\ MaxRefusals \in Nat

VARIABLES
    flight,         \* flight[d]: the flight of each end
    timeouts,       \* timeoutCount of each end, modulo 3
    wire,           \* wire[d]: records of d's flight in the network
    acks,           \* acks[d]: ACKs of such records in the network
    emptyAck,       \* is an empty plaintext ACK in the network?
    got,            \* got[d][m]: bytes of d's m-th message its peer received
    clientRecords,  \* serverHandshakeState.clientRecords
    clientDone,     \* has clientAwaitFinalACK returned?
    failed,         \* did an end return an error?  The other fails with it,
                    \* on the alert or at the deadline
    losses, spurious, refusals

vars == <<flight, timeouts, wire, acks, emptyAck, got, clientRecords,
          clientDone, failed, losses, spurious, refusals>>

(***************************************************************************)
(* Messages, and the records they are fragmented into.                     *)
(***************************************************************************)
Messages(d) == 1 .. Len(Length[d])
Body(d, m) == 0 .. Length[d][m] - 1
Levels == 1 .. Len(FragmentSizes)

\* buildPlainFlight, buildProtectedFlight, combineFlights: the fragments of
\* the messages, in message order.
Records(d, level) ==
    UNION {{[message |-> m, part |-> b \div FragmentSizes[level]] : b \in Body(d, m)}
             : m \in Messages(d)}

Bytes(d, level, r) ==
    {b \in Body(d, r.message) : b \div FragmentSizes[level] = r.part}

Before(r, q) ==
    \/ r.message < q.message
    \/ r.message = q.message /\ r.part < q.part

Earliest(n, S) == {r \in S : Cardinality({q \in S : Before(q, r)}) < n}

\* The ServerHello travels in epoch 0; everything else is protected.
Plain(d, m) == d = "server" /\ m = 1

(***************************************************************************)
(* flight                                                                  *)
(***************************************************************************)
NewFlight == [level |-> 1, sent |-> {}, acked |-> {}, retransmitted |-> FALSE]

Outstanding(f) == f.sent \ f.acked

\* Mutant: the window ignores what is outstanding.
UnsentPastWindow(d, f) ==
    Earliest(Window, Records(d, f.level) \ (f.sent \cup f.acked))

\* nextUnsentWire
Unsent(d, f) ==
    Earliest(Window - Cardinality(Outstanding(f)),
             Records(d, f.level) \ (f.sent \cup f.acked))

SendUnsent(d, f) ==
    [level |-> f.level, sent |-> f.sent \cup Unsent(d, f), acked |-> f.acked,
     retransmitted |-> f.retransmitted]

\* retransmitWire, after refreshPending
Resent(f) == Earliest(Window, Outstanding(f))

NoteRetransmission(f) ==
    [level |-> f.level, sent |-> f.sent, acked |-> f.acked,
     retransmitted |-> f.retransmitted \/ Resent(f) # {}]

Claimed(f) ==
    [level |-> f.level, sent |-> f.sent, acked |-> f.acked, retransmitted |-> TRUE]

\* reducePathMTU and resize: nothing of the smaller fragments is sent yet.
CanReduce(f) == f.level < Len(FragmentSizes)
Resize(f) ==
    [level |-> f.level + 1, sent |-> {}, acked |-> {},
     retransmitted |-> f.retransmitted]

\* Mutant: an ACK from before the flight was refragmented counts.
AckOfAnyLevel(f, a) ==
    [level |-> f.level, sent |-> f.sent, acked |-> f.acked \cup {a.record},
     retransmitted |-> f.retransmitted]

\* ack
Ack(f, a) ==
    [level |-> f.level, sent |-> f.sent,
     acked |-> IF a.level = f.level THEN f.acked \cup {a.record} ELSE f.acked,
     retransmitted |-> f.retransmitted]

\* Mutant: one acknowledged record is enough.
CompleteOnAnyAck(d, f) == f.acked # {}

Complete(d, f) == Records(d, f.level) \subseteq f.acked

(***************************************************************************)
(* handshakeInbox and reassembler, of the peer that receives d's flight.   *)
(* expected is the first message that is not delivered.                    *)
(***************************************************************************)
Whole(d, m) == got[d][m] = Body(d, m)
Delivered(d, m) == \A k \in 1 .. m : Whole(d, k)
AllDelivered(d) == \A m \in Messages(d) : Whole(d, m)

Incomplete(d) == {m \in Messages(d) : got[d][m] # {} /\ ~Whole(d, m)}
Ready(d) == {m \in Messages(d) : Whole(d, m) /\ ~Delivered(d, m)}

\* Mutant: a duplicate of a message that is already ready counts as one more.
OverflowsOnDuplicate(d, m, bytes) ==
    \/ got[d][m] = {} /\ Cardinality(Incomplete(d)) >= MaxBuffered
    \/ got[d][m] \cup bytes = Body(d, m) /\ Cardinality(Ready(d)) >= MaxBuffered

\* The error returns of addAtEpochBatch and addAtEpochAndRecord.
Overflows(d, m, bytes) ==
    /\ ~Whole(d, m)
    /\ \/ got[d][m] = {} /\ Cardinality(Incomplete(d)) >= MaxBuffered
       \/ got[d][m] \cup bytes = Body(d, m) /\ Cardinality(Ready(d)) >= MaxBuffered

Add(d, m, bytes) == got' = [got EXCEPT ![d][m] = @ \cup bytes]

\* Mutant: plaintext records are acknowledged too.
AcknowledgesPlain(d, m) == ~Delivered(d, m)

\* receiveHandshakeMessageWithEarlyBatch: a record is acknowledged unless it is
\* plaintext or its message was delivered before.
Acknowledges(d, m) == ~Plain(d, m) /\ ~Delivered(d, m)

Init ==
    /\ flight = [d \in Ends |-> NewFlight]
    /\ timeouts = [d \in Ends |-> 0]
    /\ wire = [d \in Ends |-> {}]
    /\ acks = [d \in Ends |-> {}]
    /\ emptyAck = FALSE
    /\ got = [d \in Ends |-> [m \in Messages(d) |-> {}]]
    /\ clientRecords = {}
    /\ clientDone = FALSE
    /\ failed = FALSE
    /\ losses = 0
    /\ spurious = 0
    /\ refusals = 0

(***************************************************************************)
(* Sending.  A record that the transport finds too long makes writeFlight  *)
(* reduce the path MTU and start again with the smaller fragments.         *)
(***************************************************************************)
OnWire(level, S) == {[level |-> level, record |-> r] : r \in S}

\* writeFlight, after the records in resent.
WriteFlight(d, f, resent) ==
    \/ /\ flight' = [flight EXCEPT ![d] = SendUnsent(d, f)]
       /\ wire' = [wire EXCEPT ![d] = @ \cup resent \cup OnWire(f.level, Unsent(d, f))]
       /\ UNCHANGED refusals
    \/ /\ refusals < MaxRefusals
       /\ refusals' = refusals + 1
       /\ CanReduce(f)
       /\ \E n \in 0 .. Cardinality(Unsent(d, f)) - 1 :
             wire' = [wire EXCEPT ![d] =
                        @ \cup resent
                          \cup OnWire(f.level, Earliest(n, Unsent(d, f)))
                          \cup OnWire(f.level + 1, Unsent(d, Resize(f)))]
       /\ flight' = [flight EXCEPT ![d] = SendUnsent(d, Resize(f))]

\* refreshPending and retransmitFlight
RetransmitFlight(d, f) ==
    /\ flight' = [flight EXCEPT ![d] = NoteRetransmission(f)]
    /\ wire' = [wire EXCEPT ![d] = @ \cup OnWire(f.level, Resent(f))]
    /\ UNCHANGED refusals

RetransmitPartialFlight(d, f) ==
    IF f.retransmitted
    THEN WriteFlight(d, f, {})
    ELSE WriteFlight(d, Claimed(f), OnWire(f.level, Resent(f)))

\* serverSendFlight; clientSendAuthAndFinished, once clientProcessServerFlight
\* has returned.
SendFlight(d) ==
    /\ ~failed
    /\ flight[d].sent = {}
    /\ d = "client" => AllDelivered("server")
    /\ WriteFlight(d, flight[d], {})
    /\ UNCHANGED <<timeouts, acks, emptyAck, got, clientRecords, clientDone, failed, losses, spurious>>

\* Who still waits for an answer to its flight: the server until it has the
\* client's, the client until every record of its own is acknowledged.
Waiting(d) ==
    /\ ~failed
    /\ flight[d].sent # {}
    /\ IF d = "server" THEN ~AllDelivered("client") ELSE ~clientDone

\* Nothing of d's flight, and no ACK of it, is in the network.
Quiet(d) == wire[d] = {} /\ acks[d] = {} /\ ~(d = "server" /\ emptyAck)

\* The read deadline of the receive loops passes.  prepareFlightRetransmission
\* takes every third timeout in a row for a sign that the MTU is too large.
Timeout(d) ==
    /\ Waiting(d)
    /\ IF Quiet(d)
       THEN UNCHANGED spurious
       ELSE spurious < MaxSpurious /\ spurious' = spurious + 1
    /\ timeouts' = [timeouts EXCEPT ![d] = (@ + 1) % 3]
    /\ IF timeouts[d] = 2 /\ CanReduce(flight[d])
       THEN WriteFlight(d, Resize(flight[d]), {})
       ELSE RetransmitFlight(d, flight[d])
    /\ UNCHANGED <<acks, emptyAck, got, clientRecords, clientDone, failed, losses>>

(***************************************************************************)
(* The client receives the server's flight.                                *)
(***************************************************************************)
Arrived(d, w) == [wire EXCEPT ![d] = @ \ {w}]

\* The client has its own flight out, or holds the keys and sees a plaintext
\* record: nothing happens.
ClientIgnores(w) ==
    \/ AllDelivered("server")
    \/ Plain("server", w.record.message) /\ Delivered("server", 1)

ClientDropsRecord(w) ==
    /\ w \in wire["server"]
    /\ ClientIgnores(w)
    /\ wire' = Arrived("server", w)
    /\ UNCHANGED <<flight, timeouts, acks, emptyAck, got, clientRecords, clientDone, failed, losses, spurious, refusals>>

\* A protected record before the ServerHello cannot be opened: an empty ACK
\* asks for the flight again.
ClientLacksKeys(w) ==
    /\ ~failed
    /\ w \in wire["server"]
    /\ ~Delivered("server", 1)
    /\ ~Plain("server", w.record.message)
    /\ wire' = Arrived("server", w)
    /\ emptyAck' = TRUE
    /\ UNCHANGED <<flight, timeouts, acks, got, clientRecords, clientDone, failed, losses, spurious, refusals>>

ClientReceivesRecord(w) ==
    /\ ~failed
    /\ w \in wire["server"]
    /\ ~ClientIgnores(w)
    /\ Delivered("server", 1) \/ Plain("server", w.record.message)
    /\ wire' = Arrived("server", w)
    /\ LET m == w.record.message
           bytes == Bytes("server", w.level, w.record)
       IN  IF Overflows("server", m, bytes)
           THEN failed' = TRUE /\ UNCHANGED <<got, acks>>
           ELSE /\ Add("server", m, bytes)
                /\ acks' = IF Acknowledges("server", m)
                           THEN [acks EXCEPT !["server"] = @ \cup {w}]
                           ELSE acks
                /\ UNCHANGED failed
    /\ UNCHANGED <<flight, timeouts, emptyAck, clientRecords, clientDone, losses, spurious, refusals>>

(***************************************************************************)
(* The server, waiting for the client's flight, hears of its own.          *)
(***************************************************************************)
ServerReceivesEmptyAck ==
    /\ emptyAck
    /\ emptyAck' = FALSE
    /\ IF Waiting("server")
       THEN RetransmitFlight("server", flight["server"])
       ELSE UNCHANGED <<flight, wire, refusals>>
    /\ UNCHANGED <<timeouts, acks, got, clientRecords, clientDone, failed, losses, spurious>>

\* The flight is never complete: its ServerHello is not acknowledged.
ServerReceivesAck(a) ==
    /\ a \in acks["server"]
    /\ acks' = [acks EXCEPT !["server"] = @ \ {a}]
    /\ IF Waiting("server")
       THEN RetransmitPartialFlight("server", Ack(flight["server"], a))
       ELSE UNCHANGED <<flight, wire, refusals>>
    /\ UNCHANGED <<timeouts, emptyAck, got, clientRecords, clientDone, failed, losses, spurious>>

(***************************************************************************)
(* The server receives the client's flight.                                *)
(***************************************************************************)
\* A fragment of a delivered message says that the client did not see the
\* answer: unless some record was acknowledged, the flight is sent again.
ServerReceivesOldRecord(w) ==
    /\ Waiting("server")
    /\ w \in wire["client"]
    /\ Delivered("client", w.record.message)
    /\ IF flight["server"].acked = {}
       THEN LET f == flight["server"]
            IN  /\ flight' = [flight EXCEPT !["server"] = NoteRetransmission(f)]
                /\ wire' = [client |-> wire["client"] \ {w},
                            server |-> wire["server"] \cup OnWire(f.level, Resent(f))]
       ELSE wire' = Arrived("client", w) /\ UNCHANGED flight
    /\ UNCHANGED <<timeouts, acks, emptyAck, got, clientRecords, clientDone, failed, losses, spurious, refusals>>

\* A record that completes the next message ends one receive call, and with it
\* the count of timeouts; the one that completes the flight is followed by
\* serverSendFinalACK.
ServerReceivesRecord(w) ==
    /\ Waiting("server")
    /\ w \in wire["client"]
    /\ ~Delivered("client", w.record.message)
    /\ wire' = Arrived("client", w)
    /\ LET m == w.record.message
           bytes == Bytes("client", w.level, w.record)
           delivers == Delivered("client", m - 1) /\ got["client"][m] \cup bytes = Body("client", m)
           ends == delivers /\ \A k \in Messages("client") \ {m} : Whole("client", k)
           records == clientRecords \cup {w}
       IN  IF Overflows("client", m, bytes)
           THEN failed' = TRUE /\ UNCHANGED <<got, acks, clientRecords, timeouts>>
           ELSE /\ Add("client", m, bytes)
                /\ acks' = [acks EXCEPT !["client"] =
                              @ \cup (IF Acknowledges("client", m) THEN {w} ELSE {})
                                \cup (IF ends THEN records ELSE {})]
                /\ IF delivers
                   THEN /\ clientRecords' = records
                        /\ timeouts' = [timeouts EXCEPT !["server"] = 0]
                   ELSE UNCHANGED <<clientRecords, timeouts>>
                /\ UNCHANGED failed
    /\ UNCHANGED <<flight, emptyAck, clientDone, losses, spurious, refusals>>

\* Mutant: the established connection ignores the client's final flight.
AckCompletedPeerFlightRecordNot(w) == acks

\* The established connection acknowledges every record of that flight again.
AckCompletedPeerFlightRecord(w) == [acks EXCEPT !["client"] = @ \cup {w}]

ServerReceivesLateRecord(w) ==
    /\ ~failed
    /\ w \in wire["client"]
    /\ AllDelivered("client")
    /\ wire' = Arrived("client", w)
    /\ acks' = AckCompletedPeerFlightRecord(w)
    /\ UNCHANGED <<flight, timeouts, emptyAck, got, clientRecords, clientDone, failed, losses, spurious, refusals>>

\* receiveACKWithRetransmit
ClientReceivesAck(a) ==
    /\ a \in acks["client"]
    /\ acks' = [acks EXCEPT !["client"] = @ \ {a}]
    /\ IF Waiting("client")
       THEN LET f == Ack(flight["client"], a)
            IN  IF Complete("client", f)
                THEN /\ flight' = [flight EXCEPT !["client"] = f]
                     /\ clientDone' = TRUE
                     /\ UNCHANGED <<wire, refusals>>
                ELSE /\ RetransmitPartialFlight("client", f)
                     /\ UNCHANGED clientDone
       ELSE UNCHANGED <<flight, wire, refusals, clientDone>>
    /\ UNCHANGED <<timeouts, emptyAck, got, clientRecords, failed, losses, spurious>>

\* A refused write that no smaller MTU helps ends the handshake.
TransportError ==
    /\ \E d \in Ends : Waiting(d)
    /\ refusals < MaxRefusals
    /\ refusals' = refusals + 1
    /\ failed' = TRUE
    /\ UNCHANGED <<flight, timeouts, wire, acks, emptyAck, got, clientRecords, clientDone, losses, spurious>>

Lose ==
    /\ losses < MaxLosses
    /\ losses' = losses + 1
    /\ \/ /\ \E d \in Ends : \E w \in wire[d] : wire' = Arrived(d, w)
          /\ UNCHANGED <<acks, emptyAck>>
       \/ /\ \E d \in Ends : \E a \in acks[d] : acks' = [acks EXCEPT ![d] = @ \ {a}]
          /\ UNCHANGED <<wire, emptyAck>>
       \/ /\ emptyAck
          /\ emptyAck' = FALSE
          /\ UNCHANGED <<wire, acks>>
    /\ UNCHANGED <<flight, timeouts, got, clientRecords, clientDone, failed, spurious, refusals>>

ClientReceives(w) ==
    ClientDropsRecord(w) \/ ClientLacksKeys(w) \/ ClientReceivesRecord(w)
ServerReceives(w) ==
    ServerReceivesOldRecord(w) \/ ServerReceivesRecord(w) \/ ServerReceivesLateRecord(w)

Next ==
    \/ \E d \in Ends : SendFlight(d) \/ Timeout(d)
    \/ \E w \in wire["server"] : ClientReceives(w)
    \/ \E w \in wire["client"] : ServerReceives(w)
    \/ ServerReceivesEmptyAck
    \/ \E a \in acks["server"] : ServerReceivesAck(a)
    \/ \E a \in acks["client"] : ClientReceivesAck(a)
    \/ TransportError
    \/ Lose

Spec == Init /\ [][Next]_vars

\* The receive loops read whatever arrives and set a read deadline before each
\* read, so every record that is not lost is handled and every timer fires.
OnWireEver(d) == UNION {OnWire(l, Records(d, l)) : l \in Levels}
Fairness ==
    /\ \A d \in Ends : WF_vars(SendFlight(d)) /\ WF_vars(Timeout(d))
    /\ \A w \in OnWireEver("server") :
          WF_vars(ClientReceives(w)) /\ WF_vars(ServerReceivesAck(w))
    /\ \A w \in OnWireEver("client") :
          WF_vars(ServerReceives(w)) /\ WF_vars(ClientReceivesAck(w))
    /\ WF_vars(ServerReceivesEmptyAck)
FairSpec == Spec /\ Fairness

(***************************************************************************)
(* Properties.                                                             *)
(***************************************************************************)
Flight(d) ==
    [level : Levels, sent : SUBSET UNION {Records(d, l) : l \in Levels},
     acked : SUBSET UNION {Records(d, l) : l \in Levels}, retransmitted : BOOLEAN]

Protected(d) == {w \in OnWireEver(d) : ~Plain(d, w.record.message)}

\* Every variable has its type.  In particular only records of the current
\* fragmentation are sent, and only protected records are ever acknowledged
\* (receiveHandshakeMessageWithEarlyBatch).
TypeOK ==
    /\ \A d \in Ends :
          /\ flight[d] \in Flight(d)
          /\ flight[d].sent \subseteq Records(d, flight[d].level)
          /\ wire[d] \subseteq OnWireEver(d)
          /\ acks[d] \subseteq Protected(d)
          /\ \A m \in Messages(d) : got[d][m] \subseteq Body(d, m)
          /\ timeouts[d] \in 0 .. 2
    /\ clientRecords \subseteq Protected("client")
    /\ emptyAck \in BOOLEAN
    /\ clientDone \in BOOLEAN
    /\ failed \in BOOLEAN
    /\ losses \in Nat
    /\ spurious \in Nat
    /\ refusals \in Nat

\* A record counts as acknowledged only if the peer holds every byte of it,
\* whatever was refragmented, retransmitted or reordered in between: an ACK of
\* a record from before resize must not be taken for one of the new records
\* (flight.ack, resizeProtected).
AckedWereReceived ==
    \A d \in Ends : \A r \in flight[d].acked :
        Bytes(d, flight[d].level, r) \subseteq got[d][r.message]

\* Does the window count a record of d's flight that is in the network?  A
\* record from before resize it does not: resizeProtected forgets it.
Counted(f, w) ==
    \/ w.level < f.level
    \/ w.level = f.level /\ w.record \in f.sent

\* A flight never has more than ten records out that are not acknowledged
\* (nextUnsentWire), partial retransmissions included, and counts every record
\* of the current fragment size that is in the network: the window bounds what
\* the network holds of it.  Refragmenting opens a new window, whatever the
\* network still holds of the old one (resizeProtected).
WindowRespected ==
    \A d \in Ends :
        /\ Cardinality(Outstanding(flight[d])) <= Window
        /\ \A w \in wire[d] : Counted(flight[d], w)

\* The client completes the handshake only when the server has every message
\* of its last flight (clientAwaitFinalACK).
ClientCompletesLast == clientDone => AllDelivered("client")

\* Messages the peer holds a part of, or all of, and has not delivered.
Undelivered(d) == {m \in Messages(d) : got[d][m] # {} /\ ~Delivered(d, m)}

\* The record that makes a receiver fail brings it something new, of a message
\* that together with those it holds and cannot deliver yet is more than
\* MaxBufferedHandshakeMessages: reordering alone fails it, never a duplicate or
\* fragments of different sizes (handshakeInbox, reassembler).
InboxFailsWhenFull ==
    [][~failed /\ failed' /\ refusals' = refusals =>
          \E d \in Ends : \E w \in wire[d] \ wire'[d] :
              LET m == w.record.message
              IN  /\ ~(Bytes(d, w.level, w.record) \subseteq got[d][m])
                  /\ Cardinality(Undelivered(d) \cup {m}) > MaxBuffered]_vars

\* Both flights are delivered and the client sees its own acknowledged
\* (doc.go: the package "retransmits unacknowledged flight data"; docs: "loss
\* recovery").
HandshakeCompletes == <>(clientDone \/ refusals > 0)
=============================================================================
