------------------------------ MODULE KeyUpdate ------------------------------
(***************************************************************************)
(* The ACK-gated KeyUpdate protocol between the two ends of an established *)
(* association, over a network that loses, delays, reorders and duplicates *)
(* records (traffic_update.go, post_handshake.go, epoch.go, and the        *)
(* KeyUpdate and ACK handlers of conn_dispatch.go and conn.go).            *)
(*                                                                         *)
(* tx[p] is p's sendingTraffic, rx[p] its receivingTraffic with the        *)
(* epochSet inside it.  A handler runs under dispatchMu and writeMu, so it *)
(* is one atomic action.  A record is kept in the network after delivery:  *)
(* delivering it again is the duplication the replay window must absorb.   *)
(* The window is abstracted to the set of numbers already opened;          *)
(* RecordCipher.tla shows that the bitmap never does worse than that set,  *)
(* except to drop a record, which is loss.                                 *)
(***************************************************************************)
EXTENDS Integers, FiniteSetsExt

CONSTANTS
    Client, Server,      \* the two ends
    MaxSendingEpoch,     \* maxSendingEpoch (2^48-1 in the code)
    MessageSequences,    \* how many message_seq values there are (2^16)
    RecordLimit,         \* recordCipher.recordLimit, the AEAD usage limit
    MaxSpurious,         \* bound: retransmissions when nothing was lost
    MaxLosses,           \* bound: records the network loses
    MaxWriteErrors,      \* bound: writes the transport refuses
    MaxDatagrams,        \* bound: application datagrams written
    MaxCalls             \* bound: KeyUpdates started by a call, not an answer

ASSUME PeersDiffer == Client # Server
ASSUME LimitsAreNat ==
    /\ MaxSendingEpoch \in Nat
    /\ MessageSequences \in Nat
    /\ RecordLimit \in Nat
    /\ MaxSpurious \in Nat
    /\ MaxLosses \in Nat
    /\ MaxWriteErrors \in Nat
    /\ MaxDatagrams \in Nat
    /\ MaxCalls \in Nat

Peer == {Client, Server}
Other(p) == IF p = Client THEN Server ELSE Client

VARIABLES
    tx,               \* sendingTraffic of each end
    rx,               \* receivingTraffic of each end
    responsePending,  \* Conn.keyUpdateResponsePending
    timer,            \* is a KeyUpdate retransmission goroutine running?
    status,           \* "open" or "failed" (after failConnection)
    updates,          \* KeyUpdate records in the network
    acks,             \* ACK records in the network
    alerts,           \* fatal alert records in the network
    losses,           \* records lost so far
    writeErrors,      \* refused writes so far
    spurious,         \* retransmissions so far when nothing was lost
    datagrams,        \* application datagrams written so far
    calls             \* KeyUpdates started by a call so far

vars == <<tx, rx, responsePending, timer, status, updates, acks, alerts,
          losses, writeErrors, spurious, datagrams, calls>>

HandshakeEpoch == 2
FirstEpoch == 3       \* installApplicationKeysAt
NoSequence == -1      \* ~hasUpdateSequence

Number(e, n) == [epoch |-> e, sequence |-> n]
RecordNumber == [epoch : Nat, sequence : Nat]

(***************************************************************************)
(* sendingTraffic and its record cipher.                                   *)
(***************************************************************************)

NewSendingTraffic ==
    [epoch |-> FirstEpoch, next |-> 0, pending |-> FALSE, records |-> {},
     message |-> 0, fragment |-> 0, request |-> FALSE]

\* Mutant: one record too many.
CanSealPastLimit(s) == s.next <= RecordLimit

\* recordCipher.seal: refused once the AEAD limit is reached.
CanSeal(s) == s.next < RecordLimit
Seal(s) == [s EXCEPT !.next = @ + 1]
NextNumber(s) == Number(s.epoch, s.next)

CanAllocateMessageSequences(s) == s.message < MessageSequences
CanBeginKeyUpdate(s) == ~s.pending /\ s.epoch < MaxSendingEpoch

\* The error returns of beginKeyUpdate, all taken before it changes anything.
BeginSucceeds(s) ==
    CanBeginKeyUpdate(s) /\ CanAllocateMessageSequences(s) /\ CanSeal(s)

\* The record in which KeyUpdate fragment s.fragment is sealed.
UpdateRecord(p, s, message, request) ==
    [from |-> p, epoch |-> s.epoch, sequence |-> s.next,
     message |-> message, request |-> request]

\* Mutant: the new keys are used without waiting for the ACK.
BeginKeyUpdateUngated(s, request) ==
    [epoch |-> s.epoch + 1, next |-> 0, pending |-> TRUE,
     records |-> {NextNumber(s)},
     message |-> s.message + 1, fragment |-> s.message, request |-> request]

BeginKeyUpdate(s, request) ==
    [epoch |-> s.epoch, next |-> s.next + 1, pending |-> TRUE,
     records |-> {NextNumber(s)},
     message |-> s.message + 1, fragment |-> s.message, request |-> request]

\* Mutant: the retransmission does not use its record number up.
RetransmitKeyUpdateReusing(s) ==
    [epoch |-> s.epoch, next |-> s.next, pending |-> s.pending,
     records |-> s.records \cup {NextNumber(s)},
     message |-> s.message, fragment |-> s.fragment, request |-> s.request]

RetransmitKeyUpdate(s) ==
    [epoch |-> s.epoch, next |-> s.next + 1, pending |-> s.pending,
     records |-> s.records \cup {NextNumber(s)},
     message |-> s.message, fragment |-> s.fragment, request |-> s.request]

\* processACK: the pending cipher becomes the sending cipher.
AckCompletes(s, number) == s.pending /\ number \in s.records
SwitchEpoch(s) ==
    [epoch |-> s.epoch + 1, next |-> 0, pending |-> FALSE, records |-> {},
     message |-> s.message, fragment |-> 0, request |-> FALSE]

(***************************************************************************)
(* receivingTraffic and its epochSet.                                      *)
(***************************************************************************)

NewReceivingTraffic ==
    [current |-> FirstEpoch, epochs |-> {HandshakeEpoch, FirstEpoch},
     last |-> NoSequence, opened |-> {}]

\* The two epoch bits of the unified header.
EpochBits(e) == e % 4

NoEpoch == -1
SelectCipher(r, bits) ==
    IF EpochBits(r.current) = bits THEN r.current
    ELSE LET past == {e \in r.epochs : e < r.current /\ EpochBits(e) = bits}
         IN  IF past = {} THEN NoEpoch ELSE Max(past)

\* A record opens under the keys it was sealed with, once.
Opens(r, m) ==
    /\ SelectCipher(r, EpochBits(m.epoch)) = m.epoch
    /\ Number(m.epoch, m.sequence) \notin r.opened

Opened(r, m) ==
    [r EXCEPT !.opened = @ \cup {Number(m.epoch, m.sequence)}]

\* Mutant: the previous epoch goes as soon as the next one is installed.
KeptEpochsStrict(epochs, minimum, retained) ==
    {e \in epochs : e > minimum \/ e = retained}

\* discardBefore
KeptEpochs(epochs, minimum, retained) ==
    {e \in epochs : e >= minimum \/ e = retained}

\* Mutant: the last KeyUpdate, retransmitted, updates again.
UpdatesAgain(r, message) == message >= r.last

Updates(r, message) == message > r.last

\* Mutant: the handshake epoch is kept one epoch too long.
InstallNextEpochLate(r, message) ==
    LET retained == IF r.current + 1 <= 6 THEN HandshakeEpoch ELSE 0
        kept == KeptEpochs(r.epochs \cup {r.current + 1}, r.current, retained)
    IN  [current |-> r.current + 1, epochs |-> kept, last |-> message,
         opened |-> {n \in r.opened : n.epoch \in kept}]

\* Epoch 6 reuses epoch 2's wire bits, so epoch 2 goes by then.  A discarded
\* cipher takes its replay window with it.
InstallNextEpoch(r, message) ==
    LET retained == IF r.current + 1 < 6 THEN HandshakeEpoch ELSE 0
        kept == KeptEpochs(r.epochs \cup {r.current + 1}, r.current, retained)
    IN  [current |-> r.current + 1, epochs |-> kept, last |-> message,
         opened |-> {n \in r.opened : n.epoch \in kept}]

ProcessKeyUpdate(r, message) ==
    IF Updates(r, message) THEN InstallNextEpoch(r, message) ELSE r

(***************************************************************************)
(* failConnection: the traffic state is cleared, so a failed end takes no  *)
(* further step.  A protocol error is reported to the peer in an alert.    *)
(***************************************************************************)
Open(p) == status[p] = "open"

FailConnection(p) == status' = [status EXCEPT ![p] = "failed"]

SendFatalAlert(p, s) ==
    IF CanSeal(s)
    THEN /\ alerts' = alerts \cup {[from |-> p, epoch |-> s.epoch,
                                   sequence |-> s.next]}
         /\ tx' = [tx EXCEPT ![p] = Seal(s)]
    ELSE /\ tx' = [tx EXCEPT ![p] = s]
         /\ UNCHANGED alerts

Init ==
    /\ tx = [p \in Peer |-> NewSendingTraffic]
    /\ rx = [p \in Peer |-> NewReceivingTraffic]
    /\ responsePending = [p \in Peer |-> FALSE]
    /\ timer = [p \in Peer |-> FALSE]
    /\ status = [p \in Peer |-> "open"]
    /\ updates = {}
    /\ acks = {}
    /\ alerts = {}
    /\ losses = 0
    /\ writeErrors = 0
    /\ spurious = 0
    /\ datagrams = 0
    /\ calls = 0

(***************************************************************************)
(* Conn.SendKeyUpdate, and the KeyUpdate requested when authentication     *)
(* failures approach the AEAD limit.                                       *)
(***************************************************************************)
BeginAndSend(p, request) ==
    /\ Open(p)
    /\ BeginSucceeds(tx[p])
    /\ calls < MaxCalls
    /\ calls' = calls + 1
    /\ tx' = [tx EXCEPT ![p] = BeginKeyUpdate(@, request)]
    /\ updates' = updates \cup {UpdateRecord(p, tx[p], tx[p].message, request)}
    /\ timer' = [timer EXCEPT ![p] = TRUE]
    /\ UNCHANGED <<rx, responsePending, status, acks, alerts, losses, writeErrors, spurious, datagrams>>

SendKeyUpdate(p, request) == BeginAndSend(p, request)

RequestKeyUpdateAfterAuthFailures(p) == BeginAndSend(p, TRUE)

\* The reader treats an update it cannot begin as fatal.
RequestKeyUpdateFails(p) ==
    /\ Open(p)
    /\ CanBeginKeyUpdate(tx[p])
    /\ ~BeginSucceeds(tx[p])
    /\ calls < MaxCalls
    /\ calls' = calls + 1
    /\ SendFatalAlert(p, tx[p])
    /\ FailConnection(p)
    /\ UNCHANGED <<rx, responsePending, timer, updates, acks, losses, writeErrors, spurious, datagrams>>

\* The KeyUpdate is begun, its first write fails, and the error is returned
\* to the caller without a retransmission goroutine being started.
SendKeyUpdateWriteError(p, request) ==
    /\ Open(p)
    /\ BeginSucceeds(tx[p])
    /\ calls < MaxCalls
    /\ calls' = calls + 1
    /\ writeErrors < MaxWriteErrors
    /\ writeErrors' = writeErrors + 1
    /\ tx' = [tx EXCEPT ![p] = BeginKeyUpdate(@, request)]
    /\ UNCHANGED <<rx, responsePending, timer, status, updates, acks, alerts, losses, spurious, datagrams>>

(***************************************************************************)
(* Conn.WriteDatagram: one application record, and an automatic KeyUpdate  *)
(* when the AEAD limit is near.  The application record itself is not kept *)
(* in the network: KeysHeld speaks of any record sealed now.               *)
(***************************************************************************)
LimitMargin == Max({Min({RecordLimit \div 4, 1024}), 1})
NearLimit(s) == s.next >= RecordLimit - LimitMargin

WriteDatagram(p) ==
    /\ Open(p)
    /\ datagrams < MaxDatagrams
    /\ datagrams' = datagrams + 1
    /\ CanSeal(tx[p])
    /\ LET s == Seal(tx[p])
       IN  IF NearLimit(s) /\ BeginSucceeds(s)
           THEN /\ tx' = [tx EXCEPT ![p] = BeginKeyUpdate(s, FALSE)]
                /\ updates' = updates \cup {UpdateRecord(p, s, s.message, FALSE)}
                /\ timer' = [timer EXCEPT ![p] = TRUE]
           ELSE /\ tx' = [tx EXCEPT ![p] = s]
                /\ UNCHANGED <<updates, timer>>
    /\ UNCHANGED <<rx, responsePending, status, acks, alerts, losses, writeErrors, spurious, calls>>

\* The datagram's own write fails: its record number is used up all the same.
WriteDatagramWriteError(p) ==
    /\ Open(p)
    /\ datagrams < MaxDatagrams
    /\ datagrams' = datagrams + 1
    /\ CanSeal(tx[p])
    /\ writeErrors < MaxWriteErrors
    /\ writeErrors' = writeErrors + 1
    /\ tx' = [tx EXCEPT ![p] = Seal(@)]
    /\ UNCHANGED <<rx, responsePending, timer, status, updates, acks, alerts, losses, spurious, calls>>

\* The automatic KeyUpdate is begun and its write fails, as above.
WriteDatagramUpdateWriteError(p) ==
    /\ Open(p)
    /\ datagrams < MaxDatagrams
    /\ datagrams' = datagrams + 1
    /\ CanSeal(tx[p])
    /\ NearLimit(Seal(tx[p]))
    /\ BeginSucceeds(Seal(tx[p]))
    /\ writeErrors < MaxWriteErrors
    /\ writeErrors' = writeErrors + 1
    /\ tx' = [tx EXCEPT ![p] = BeginKeyUpdate(Seal(@), FALSE)]
    /\ UNCHANGED <<rx, responsePending, timer, status, updates, acks, alerts, losses, spurious, calls>>

(***************************************************************************)
(* The goroutine of startKeyUpdateRetransmission wakes up.                 *)
(***************************************************************************)
\* Mutant: the goroutine gives up while the KeyUpdate awaits its ACK.
TimerStopsEarly(p) ==
    /\ Open(p)
    /\ timer[p]
    /\ timer' = [timer EXCEPT ![p] = FALSE]
    /\ UNCHANGED <<tx, rx, responsePending, status, updates, acks, alerts, losses, writeErrors, spurious, datagrams, calls>>

TimerStops(p) ==
    /\ Open(p)
    /\ timer[p]
    /\ ~tx[p].pending
    /\ timer' = [timer EXCEPT ![p] = FALSE]
    /\ UNCHANGED <<tx, rx, responsePending, status, updates, acks, alerts, losses, writeErrors, spurious, datagrams, calls>>

\* The network still holds a record of p's KeyUpdate, or an ACK of one, that
\* would open if it were delivered.
Undelivered(m) == Opens(rx[Other(m.from)], m)
AwaitingDelivery(p) ==
    \/ \E m \in updates : m.from = p /\ m.epoch = tx[p].epoch /\ Undelivered(m)
    \/ \E a \in acks : /\ a.from = Other(p)
                       /\ a.number \in tx[p].records
                       /\ Undelivered(a)

TimerRetransmits(p) ==
    /\ Open(p)
    /\ timer[p]
    /\ tx[p].pending
    /\ CanSeal(tx[p])
    /\ IF AwaitingDelivery(p)
       THEN spurious < MaxSpurious /\ spurious' = spurious + 1
       ELSE UNCHANGED spurious
    /\ tx' = [tx EXCEPT ![p] = RetransmitKeyUpdate(@)]
    /\ updates' = updates \cup
                    {UpdateRecord(p, tx[p], tx[p].fragment, tx[p].request)}
    /\ UNCHANGED <<rx, responsePending, timer, status, acks, alerts, losses, writeErrors, datagrams, calls>>

\* The limit leaves no room to seal: neither the KeyUpdate nor an alert.
TimerFails(p) ==
    /\ Open(p)
    /\ timer[p]
    /\ tx[p].pending
    /\ ~CanSeal(tx[p])
    /\ FailConnection(p)
    /\ UNCHANGED <<tx, rx, responsePending, timer, updates, acks, alerts, losses, writeErrors, spurious, datagrams, calls>>

(***************************************************************************)
(* processKeyUpdateFragment: install the next receive epoch, acknowledge   *)
(* the record, and answer update_requested now or once the KeyUpdate that  *)
(* is outstanding has been acknowledged.                                   *)
(***************************************************************************)
AckRecord(p, s, m) ==
    [from |-> p, epoch |-> s.epoch, sequence |-> s.next,
     number |-> Number(m.epoch, m.sequence)]

ReceiveKeyUpdate(p, m) ==
    /\ Open(p)
    /\ m.from = Other(p)
    /\ Opens(rx[p], m)
    /\ rx' = [rx EXCEPT ![p] = ProcessKeyUpdate(Opened(@, m), m.message)]
    /\ CanSeal(tx[p])
    /\ LET s == Seal(tx[p])
           asked == Updates(rx[p], m.message) /\ m.request
       IN  /\ acks' = acks \cup {AckRecord(p, tx[p], m)}
           /\ \/ /\ ~asked
                 /\ tx' = [tx EXCEPT ![p] = s]
                 /\ UNCHANGED <<responsePending, timer, status, updates, alerts>>
              \/ /\ asked
                 /\ ~CanBeginKeyUpdate(s)
                 /\ tx' = [tx EXCEPT ![p] = s]
                 /\ responsePending' = [responsePending EXCEPT
                                          ![p] = @ \/ s.epoch < MaxSendingEpoch]
                 /\ UNCHANGED <<timer, status, updates, alerts>>
              \/ /\ asked
                 /\ BeginSucceeds(s)
                 /\ tx' = [tx EXCEPT ![p] = BeginKeyUpdate(s, FALSE)]
                 /\ updates' = updates \cup {UpdateRecord(p, s, s.message, FALSE)}
                 /\ timer' = [timer EXCEPT ![p] = TRUE]
                 /\ UNCHANGED <<responsePending, status, alerts>>
              \/ /\ asked
                 /\ CanBeginKeyUpdate(s)
                 /\ ~BeginSucceeds(s)
                 /\ SendFatalAlert(p, s)
                 /\ FailConnection(p)
                 /\ UNCHANGED <<responsePending, timer, updates>>
    /\ UNCHANGED <<losses, writeErrors, spurious, datagrams, calls>>

\* The receive epoch is installed but the ACK cannot be sealed.
ReceiveKeyUpdateCannotAck(p, m) ==
    /\ Open(p)
    /\ m.from = Other(p)
    /\ Opens(rx[p], m)
    /\ rx' = [rx EXCEPT ![p] = ProcessKeyUpdate(Opened(@, m), m.message)]
    /\ ~CanSeal(tx[p])
    /\ FailConnection(p)
    /\ UNCHANGED <<tx, responsePending, timer, updates, acks, alerts, losses, writeErrors, spurious, datagrams, calls>>

(***************************************************************************)
(* dispatchACK: validateACKEpoch, then applyACK.  When the acknowledged    *)
(* KeyUpdate was holding back a requested one, that one starts now, in the *)
(* new epoch.                                                              *)
(***************************************************************************)
\* Mutant: an ACK from the epoch of the record it names is refused too.
ValidACKEpochStrict(a) == a.number.epoch < a.epoch

ValidACKEpoch(a) == a.number.epoch <= a.epoch

DropResponseAtEpochLimit(p, s) ==
    responsePending' = [responsePending EXCEPT ![p] = @ /\ s.epoch < MaxSendingEpoch]

\* Mutant: the deferred answer is never sent.
ApplyACKForgetting(p, a) ==
    /\ tx' = [tx EXCEPT ![p] =
                IF AckCompletes(tx[p], a.number) THEN SwitchEpoch(@) ELSE @]
    /\ UNCHANGED <<responsePending, timer, status, updates, alerts>>

ApplyACK(p, a) ==
    LET s == IF AckCompletes(tx[p], a.number) THEN SwitchEpoch(tx[p]) ELSE tx[p]
        answer == /\ AckCompletes(tx[p], a.number)
                  /\ responsePending[p]
                  /\ CanBeginKeyUpdate(s)
    IN  \/ /\ ~answer
           /\ tx' = [tx EXCEPT ![p] = s]
           /\ IF AckCompletes(tx[p], a.number)
              THEN DropResponseAtEpochLimit(p, s)
              ELSE UNCHANGED responsePending
           /\ UNCHANGED <<timer, status, updates, alerts>>
        \/ /\ answer
           /\ BeginSucceeds(s)
           /\ tx' = [tx EXCEPT ![p] = BeginKeyUpdate(s, FALSE)]
           /\ updates' = updates \cup {UpdateRecord(p, s, s.message, FALSE)}
           /\ responsePending' = [responsePending EXCEPT ![p] = FALSE]
           /\ timer' = [timer EXCEPT ![p] = TRUE]
           /\ UNCHANGED <<status, alerts>>
        \/ /\ answer
           /\ ~BeginSucceeds(s)
           /\ SendFatalAlert(p, s)
           /\ FailConnection(p)
           /\ UNCHANGED <<responsePending, timer, updates>>

ReceiveACK(p, a) ==
    /\ Open(p)
    /\ a.from = Other(p)
    /\ Opens(rx[p], a)
    /\ ValidACKEpoch(a)
    /\ rx' = [rx EXCEPT ![p] = Opened(@, a)]
    /\ ApplyACK(p, a)
    /\ UNCHANGED <<acks, losses, writeErrors, spurious, datagrams, calls>>

\* An ACK sealed in an epoch below that of the record it names is fatal.
RejectACK(p, a) ==
    /\ Open(p)
    /\ a.from = Other(p)
    /\ Opens(rx[p], a)
    /\ ~ValidACKEpoch(a)
    /\ rx' = [rx EXCEPT ![p] = Opened(@, a)]
    /\ SendFatalAlert(p, tx[p])
    /\ FailConnection(p)
    /\ UNCHANGED <<responsePending, timer, updates, acks, losses, writeErrors, spurious, datagrams, calls>>

\* A fatal alert from the peer ends the association; none is sent back.
ReceiveAlert(p, m) ==
    /\ Open(p)
    /\ m.from = Other(p)
    /\ Opens(rx[p], m)
    /\ rx' = [rx EXCEPT ![p] = Opened(@, m)]
    /\ FailConnection(p)
    /\ UNCHANGED <<tx, responsePending, timer, updates, acks, alerts, losses, writeErrors, spurious, datagrams, calls>>

\* A write refused inside a record handler or the retransmission goroutine
\* is passed to failConnection; a transport error sends no alert.
TransportError(p) ==
    /\ Open(p)
    /\ writeErrors < MaxWriteErrors
    /\ writeErrors' = writeErrors + 1
    /\ FailConnection(p)
    /\ UNCHANGED <<tx, rx, responsePending, timer, updates, acks, alerts, losses, spurious, datagrams, calls>>

(***************************************************************************)
(* The network loses a record that was not delivered yet.                  *)
(***************************************************************************)
Lose ==
    /\ losses < MaxLosses
    /\ losses' = losses + 1
    /\ \/ /\ \E m \in updates : Undelivered(m) /\ updates' = updates \ {m}
          /\ UNCHANGED acks
       \/ /\ \E a \in acks : Undelivered(a) /\ acks' = acks \ {a}
          /\ UNCHANGED updates
    /\ UNCHANGED <<tx, rx, responsePending, timer, status, alerts, writeErrors, spurious, datagrams, calls>>

ReceiveAny(p) ==
    \/ \E m \in updates : ReceiveKeyUpdate(p, m) \/ ReceiveKeyUpdateCannotAck(p, m)
    \/ \E a \in acks : ReceiveACK(p, a) \/ RejectACK(p, a)
    \/ \E m \in alerts : ReceiveAlert(p, m)

TimerWakes(p) == TimerStops(p) \/ TimerRetransmits(p) \/ TimerFails(p)

Next ==
    \/ \E p \in Peer :
          \/ \E request \in BOOLEAN :
                SendKeyUpdate(p, request) \/ SendKeyUpdateWriteError(p, request)
          \/ RequestKeyUpdateAfterAuthFailures(p) \/ RequestKeyUpdateFails(p)
          \/ WriteDatagram(p) \/ WriteDatagramWriteError(p)
          \/ WriteDatagramUpdateWriteError(p)
          \/ TimerWakes(p)
          \/ ReceiveAny(p)
          \/ TransportError(p)
    \/ Lose

Spec == Init /\ [][Next]_vars
(***************************************************************************)
(* Properties.                                                             *)
(***************************************************************************)

SendingTraffic ==
    [epoch : Nat, next : Nat, pending : BOOLEAN, records : SUBSET RecordNumber,
     message : Nat, fragment : Nat, request : BOOLEAN]

ReceivingTraffic ==
    [current : Nat, epochs : SUBSET Nat, last : Nat \cup {NoSequence},
     opened : SUBSET RecordNumber]

\* Every variable has its type; a send cipher never counts past the AEAD limit
\* (recordCipher.seal) nor a direction past its last message_seq.
TypeOK ==
    /\ tx \in [Peer -> SendingTraffic]
    /\ rx \in [Peer -> ReceivingTraffic]
    /\ responsePending \in [Peer -> BOOLEAN]
    /\ timer \in [Peer -> BOOLEAN]
    /\ status \in [Peer -> {"open", "failed"}]
    /\ updates \subseteq [from : Peer, epoch : Nat, sequence : Nat,
                          message : Nat, request : BOOLEAN]
    /\ acks \subseteq [from : Peer, epoch : Nat, sequence : Nat,
                       number : RecordNumber]
    /\ alerts \subseteq [from : Peer, epoch : Nat, sequence : Nat]
    /\ losses \in Nat
    /\ writeErrors \in Nat
    /\ spurious \in Nat
    /\ datagrams \in Nat
    /\ calls \in Nat
    /\ \A p \in Peer : /\ tx[p].next <= RecordLimit
                       /\ tx[p].message <= MessageSequences

\* A record sealed now by either end opens under the keys the other end would
\* select for it, whatever KeyUpdates, ACKs and duplicates are in the network:
\* the receiver never discards the sender's epoch (processKeyUpdate), and the
\* two epoch bits never point it at another one (selectCipherLocked).
KeysHeld ==
    \A p \in Peer :
        SelectCipher(rx[Other(p)], EpochBits(tx[p].epoch)) = tx[p].epoch

\* New sending keys are used only once the peer has installed them, and the
\* peer is ahead by at most the one KeyUpdate that awaits acknowledgement
\* (sendingTraffic: "the next epoch is not used until an ACK covers that
\* KeyUpdate record").
AckGated ==
    \A p \in Peer :
        LET current == rx[Other(p)].current
        IN  \/ current = tx[p].epoch
            \/ current = tx[p].epoch + 1 /\ tx[p].pending

\* A record number, and so an AEAD nonce, is used for one record only, across
\* KeyUpdates, retransmissions, ACKs, alerts and the switch of epochs.
Sealed == updates \cup acks \cup alerts

NumbersUnique ==
    \A m, n \in Sealed :
        /\ m.from = n.from
        /\ Number(m.epoch, m.sequence) = Number(n.epoch, n.sequence)
        => m = n

\* However many updates there are, an end keeps the receive keys of the current
\* and the previous epoch and, before epoch 6 reuses its wire bits, of the
\* handshake, and no others (processKeyUpdate's discardBefore).
RetainedEpochsBounded ==
    \A p \in Peer :
        /\ rx[p].epochs \subseteq {HandshakeEpoch, rx[p].current - 1, rx[p].current}
        /\ HandshakeEpoch \in rx[p].epochs => rx[p].current < 6

\* Two ends of this package end an association only for a reason: a refused
\* write, an ACK that names a record of a higher epoch than its own, or an end
\* that failed with its AEAD limit used up, or with no message_seq left for an
\* update it could otherwise have begun.
FailuresExplained ==
    (\E p \in Peer : ~Open(p)) =>
        \/ writeErrors > 0
        \/ \E a \in acks : a.epoch < a.number.epoch
        \/ \E p \in Peer :
              /\ ~Open(p)
              /\ \/ tx[p].next >= RecordLimit
                 \/ CanBeginKeyUpdate(tx[p]) /\ ~CanAllocateMessageSequences(tx[p])

\* Each direction implements the abstract ratchet: the receiver installs the
\* next epoch, once, before the sender switches to it, and no loss, duplicate,
\* late ACK or crossing update makes either skip an epoch or go back.
RatchetOfSender ==
    INSTANCE Ratchet WITH Sender <- Peer, First <- FirstEpoch,
                          send <- [p \in Peer |-> tx[p].epoch],
                          recv <- [p \in Peer |-> rx[Other(p)].current]

RefinesRatchet == RatchetOfSender!Spec

\* What SendKeyUpdate's documentation promises ("reliably sends"): between two
\* ends that only use the API, over a network that only loses records, no
\* update ends the association.
UpdatesAreReliable == \A p \in Peer : Open(p)

Fairness == \A p \in Peer : WF_vars(TimerWakes(p)) /\ WF_vars(ReceiveAny(p))
FairSpec == Spec /\ Fairness

BothOpen == \A p \in Peer : Open(p)

\* A KeyUpdate that awaits acknowledgement is retransmitted until it is
\* acknowledged, or the association ends (startKeyUpdateRetransmission).
UpdatesComplete ==
    \A p \in Peer : tx[p].pending ~> (~tx[p].pending \/ ~BothOpen)

\* A requested update that had to wait for an outstanding one is not
\* forgotten: the end that was asked completes both (keyUpdateResponsePending).
DeferredResponsesComplete ==
    \A p \in Peer : \A e \in FirstEpoch .. MaxSendingEpoch - 2 :
        (responsePending[p] /\ tx[p].epoch = e)
            ~> (tx[p].epoch >= e + 2 \/ ~BothOpen)
=============================================================================
