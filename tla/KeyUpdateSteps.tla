-------------------------- MODULE KeyUpdateSteps ---------------------------
(***************************************************************************)
(* Lemmas about the operators of KeyUpdate, and the shape every step has.  *)
(* Every action has that shape, and so preserves the type invariant.       *)
(***************************************************************************)
EXTENDS KeyUpdate, TLAPS

USE ZenonT(30)

(***************************************************************************)
(* Operators on the records of the two halves of the traffic state.        *)
(***************************************************************************)
LEMMA OtherPeer ==
    \A p \in Peer : Other(p) \in Peer /\ Other(p) # p /\ Other(Other(p)) = p
  BY SMT, PeersDiffer DEF Peer, Other

\* recordCipher.seal counts the record and changes nothing else.
LEMMA SealType ==
    ASSUME NEW s \in SendingTraffic
    PROVE  /\ Seal(s) \in SendingTraffic
           /\ Seal(s).next = s.next + 1
           /\ Seal(s).epoch = s.epoch
           /\ Seal(s).pending = s.pending
           /\ Seal(s).records = s.records
           /\ Seal(s).message = s.message
           /\ Seal(s).fragment = s.fragment
  BY SMT DEF Seal, SendingTraffic

\* beginKeyUpdate stays in the sending epoch and takes the next message_seq.
LEMMA BeginType ==
    ASSUME NEW s \in SendingTraffic, NEW request \in BOOLEAN
    PROVE  /\ BeginKeyUpdate(s, request) \in SendingTraffic
           /\ BeginKeyUpdate(s, request).next = s.next + 1
           /\ BeginKeyUpdate(s, request).epoch = s.epoch
           /\ BeginKeyUpdate(s, request).pending
           /\ BeginKeyUpdate(s, request).records = {Number(s.epoch, s.next)}
           /\ BeginKeyUpdate(s, request).message = s.message + 1
           /\ BeginKeyUpdate(s, request).fragment = s.message
  BY SMT DEF BeginKeyUpdate, Seal, SendingTraffic, NextNumber, Number, RecordNumber

\* retransmitKeyUpdate seals the same fragment under a new record number.
LEMMA RetransmitType ==
    ASSUME NEW s \in SendingTraffic
    PROVE  /\ RetransmitKeyUpdate(s) \in SendingTraffic
           /\ RetransmitKeyUpdate(s).next = s.next + 1
           /\ RetransmitKeyUpdate(s).epoch = s.epoch
           /\ RetransmitKeyUpdate(s).pending = s.pending
           /\ RetransmitKeyUpdate(s).records
                = s.records \cup {Number(s.epoch, s.next)}
           /\ RetransmitKeyUpdate(s).message = s.message
           /\ RetransmitKeyUpdate(s).fragment = s.fragment
  BY SMT DEF RetransmitKeyUpdate, Seal, SendingTraffic, NextNumber, Number,
     RecordNumber

\* processACK moves to the next epoch with a fresh record counter.
LEMMA SwitchType ==
    ASSUME NEW s \in SendingTraffic
    PROVE  /\ SwitchEpoch(s) \in SendingTraffic
           /\ SwitchEpoch(s).next = 0
           /\ SwitchEpoch(s).epoch = s.epoch + 1
           /\ ~SwitchEpoch(s).pending
           /\ SwitchEpoch(s).records = {}
           /\ SwitchEpoch(s).message = s.message
  BY SMT DEF SwitchEpoch, SendingTraffic

\* Opening a record touches the replay state only.
LEMMA OpenedType ==
    ASSUME NEW r \in ReceivingTraffic, NEW m,
           m.epoch \in Nat, m.sequence \in Nat
    PROVE  /\ Opened(r, m) \in ReceivingTraffic
           /\ Opened(r, m).current = r.current
           /\ Opened(r, m).epochs = r.epochs
           /\ Opened(r, m).last = r.last
  BY SMT DEF Opened, ReceivingTraffic, Number, RecordNumber

\* processKeyUpdate ignores a message it has seen, and otherwise installs the
\* next epoch and discards what is older than the previous one.
LEMMA ProcessType ==
    ASSUME NEW r \in ReceivingTraffic, NEW message \in Nat
    PROVE  /\ ProcessKeyUpdate(r, message) \in ReceivingTraffic
           /\ ~(message > r.last) => ProcessKeyUpdate(r, message) = r
           /\ message > r.last =>
                /\ ProcessKeyUpdate(r, message).current = r.current + 1
                /\ ProcessKeyUpdate(r, message).last = message
                /\ ProcessKeyUpdate(r, message).epochs =
                     {e \in r.epochs \cup {r.current + 1} :
                        \/ e >= r.current
                        \/ e = IF r.current + 1 < 6 THEN HandshakeEpoch ELSE 0}
  BY SMT DEF ProcessKeyUpdate, Updates, InstallNextEpoch, KeptEpochs,
     ReceivingTraffic, NoSequence, HandshakeEpoch

(***************************************************************************)
(* Type correctness.  WellSent(s) is what TypeOK says of one sender.       *)
(***************************************************************************)
WellSent(s) ==
    s \in SendingTraffic /\ s.next <= RecordLimit /\ s.message <= MessageSequences

LEMMA TypeOfPeer ==
    ASSUME TypeOK, NEW p \in Peer
    PROVE  WellSent(tx[p]) /\ rx[p] \in ReceivingTraffic
  BY DEF TypeOK, WellSent

LEMMA WellSentSeal ==
    ASSUME NEW s, WellSent(s), CanSeal(s)
    PROVE  WellSent(Seal(s))
<1>1. s \in SendingTraffic /\ s.next < RecordLimit
  BY DEF WellSent, CanSeal
<1>2. s.next \in Nat
  BY <1>1 DEF SendingTraffic
<1>3. QED
  BY SMT, <1>1, <1>2, SealType, LimitsAreNat DEF WellSent

LEMMA WellSentBegin ==
    ASSUME NEW s, WellSent(s), BeginSucceeds(s), NEW request \in BOOLEAN
    PROVE  WellSent(BeginKeyUpdate(s, request))
<1>1. s \in SendingTraffic /\ s.next < RecordLimit /\ s.message < MessageSequences
  BY DEF WellSent, BeginSucceeds, CanSeal, CanAllocateMessageSequences
<1>2. s.next \in Nat /\ s.message \in Nat
  BY <1>1 DEF SendingTraffic
<1>3. QED
  BY SMT, <1>1, <1>2, BeginType, LimitsAreNat DEF WellSent

LEMMA WellSentRetransmit ==
    ASSUME NEW s, WellSent(s), CanSeal(s)
    PROVE  WellSent(RetransmitKeyUpdate(s))
<1>1. s \in SendingTraffic /\ s.next < RecordLimit
  BY DEF WellSent, CanSeal
<1>2. s.next \in Nat
  BY <1>1 DEF SendingTraffic
<1>3. QED
  BY SMT, <1>1, <1>2, RetransmitType, LimitsAreNat DEF WellSent

LEMMA WellSentSwitch ==
    ASSUME NEW s, WellSent(s)
    PROVE  WellSent(SwitchEpoch(s))
  BY SMT, SwitchType, LimitsAreNat DEF WellSent

\* What a step of p that sets tx[p] to s and rx[p] to r does to the types.
LEMMA TypeOfStep ==
    ASSUME TypeOK, NEW p \in Peer, NEW s, NEW r,
           WellSent(s), tx' = [tx EXCEPT ![p] = s],
           r \in ReceivingTraffic, rx' = [rx EXCEPT ![p] = r]
    PROVE  /\ tx' \in [Peer -> SendingTraffic]
           /\ rx' \in [Peer -> ReceivingTraffic]
           /\ \A q \in Peer : /\ tx'[q].next <= RecordLimit
                              /\ tx'[q].message <= MessageSequences
  BY DEF TypeOK, WellSent

Updated == [from : Peer, epoch : Nat, sequence : Nat, message : Nat, request : BOOLEAN]
Acked == [from : Peer, epoch : Nat, sequence : Nat, number : RecordNumber]
Alerted == [from : Peer, epoch : Nat, sequence : Nat]

LEMMA UpdateRecordType ==
    ASSUME NEW p \in Peer, NEW s \in SendingTraffic, NEW message \in Nat,
           NEW request \in BOOLEAN
    PROVE  UpdateRecord(p, s, message, request) \in Updated
  BY DEF UpdateRecord, Updated, SendingTraffic

LEMMA AckRecordType ==
    ASSUME NEW p \in Peer, NEW s \in SendingTraffic, NEW m,
           m.epoch \in Nat, m.sequence \in Nat
    PROVE  AckRecord(p, s, m) \in Acked
  BY DEF AckRecord, Acked, SendingTraffic, Number, RecordNumber

\* The rest of TypeOK.
NetworkOK ==
    /\ responsePending \in [Peer -> BOOLEAN]
    /\ timer \in [Peer -> BOOLEAN]
    /\ status \in [Peer -> {"open", "failed"}]
    /\ updates \subseteq Updated
    /\ acks \subseteq Acked
    /\ alerts \subseteq Alerted
    /\ losses \in Nat /\ writeErrors \in Nat /\ spurious \in Nat
    /\ datagrams \in Nat /\ calls \in Nat

LEMMA TypeSplit ==
    TypeOK <=> /\ tx \in [Peer -> SendingTraffic]
               /\ rx \in [Peer -> ReceivingTraffic]
               /\ \A q \in Peer : /\ tx[q].next <= RecordLimit
                                  /\ tx[q].message <= MessageSequences
               /\ NetworkOK
  BY DEF TypeOK, NetworkOK, Updated, Acked, Alerted

LEMMA InitType == Init => TypeOK
<1> SUFFICES ASSUME Init PROVE TypeOK
  OBVIOUS
<1>1. NewSendingTraffic \in SendingTraffic
  BY DEF NewSendingTraffic, SendingTraffic, FirstEpoch
<1>2. NewReceivingTraffic \in ReceivingTraffic
  BY SMT DEF NewReceivingTraffic, ReceivingTraffic, FirstEpoch, HandshakeEpoch,
     NoSequence
<1>3. NewSendingTraffic.next = 0 /\ NewSendingTraffic.message = 0
  BY DEF NewSendingTraffic
<1>4. NetworkOK
  BY DEF Init, NetworkOK
<1>5. QED
  BY SMT, <1>1, <1>2, <1>3, <1>4, LimitsAreNat, TypeSplit DEF Init

(***************************************************************************)
(* The shape of a step.  Whatever the handler, a step of p does one of     *)
(* five things to its sending half and one of two to its receiving half,   *)
(* and touches nothing of the other end.                                   *)
(***************************************************************************)
Keeps(s, t) ==
    /\ t.epoch = s.epoch /\ t.pending = s.pending /\ t.records = s.records
    /\ t.message = s.message /\ t.fragment = s.fragment

Begins(s, t) ==
    /\ t.epoch = s.epoch /\ t.pending
    /\ \A n \in t.records : n.epoch = s.epoch
    /\ t.message = s.message + 1 /\ t.fragment = s.message

Retransmits(s, t) ==
    /\ t.epoch = s.epoch /\ t.pending = s.pending
    /\ \A n \in t.records : n \in s.records \/ n.epoch = s.epoch
    /\ t.message = s.message /\ t.fragment = s.fragment

Switches(s, t) ==
    /\ t.epoch = s.epoch + 1 /\ ~t.pending /\ t.records = {}
    /\ t.message = s.message

SwitchesAndBegins(s, t) ==
    /\ t.epoch = s.epoch + 1 /\ t.pending
    /\ \A n \in t.records : n.epoch = s.epoch + 1
    /\ t.message = s.message + 1 /\ t.fragment = s.message

\* The only KeyUpdate records the step adds are p's, of this epoch and message.
AddsUpdates(p, epoch, message) ==
    \A m \in updates' : \/ m \in updates
                        \/ m.from = p /\ m.epoch = epoch /\ m.message = message

SameEpochs(r, t) == t.current = r.current /\ t.last = r.last /\ t.epochs = r.epochs

\* An ACK of the outstanding KeyUpdate is processed; no epoch is installed.
Acknowledged(p) ==
    /\ tx[p].pending
    /\ \E a \in acks : a.from = Other(p) /\ a.number \in tx[p].records
    /\ SameEpochs(rx[p], rx'[p])

SendingStep(p) ==
    \/ Keeps(tx[p], tx'[p]) /\ updates' \subseteq updates
    \/ /\ ~tx[p].pending /\ Begins(tx[p], tx'[p])
       /\ AddsUpdates(p, tx[p].epoch, tx[p].message)
    \/ /\ tx[p].pending /\ Retransmits(tx[p], tx'[p])
       /\ AddsUpdates(p, tx[p].epoch, tx[p].fragment)
    \/ /\ Acknowledged(p) /\ Switches(tx[p], tx'[p])
       /\ updates' \subseteq updates
    \/ /\ Acknowledged(p) /\ SwitchesAndBegins(tx[p], tx'[p])
       /\ AddsUpdates(p, tx[p].epoch + 1, tx[p].message)

InstallsEpoch(r, t, message) ==
    /\ message > r.last
    /\ t.current = r.current + 1 /\ t.last = message
    /\ t.epochs = {e \in r.epochs \cup {r.current + 1} :
                     \/ e >= r.current
                     \/ e = IF r.current + 1 < 6 THEN HandshakeEpoch ELSE 0}

ReceivingStep(p) ==
    \/ SameEpochs(rx[p], rx'[p]) /\ acks' \subseteq acks
    \/ \E m \in updates :
          /\ m.from = Other(p)
          /\ \A a \in acks' : a \in acks \/ (a.from = p /\ a.number.epoch = m.epoch)
          /\ \/ InstallsEpoch(rx[p], rx'[p], m.message)
             \/ ~(m.message > rx[p].last) /\ SameEpochs(rx[p], rx'[p])

PeerStep(p) ==
    /\ \E s : WellSent(s) /\ tx' = [tx EXCEPT ![p] = s]
    /\ \E r \in ReceivingTraffic : rx' = [rx EXCEPT ![p] = r]
    /\ SendingStep(p)
    /\ ReceivingStep(p)
    /\ NetworkOK'

LEMMA SealKeeps ==
    ASSUME NEW s \in SendingTraffic PROVE Keeps(s, s) /\ Keeps(s, Seal(s))
  BY SealType DEF Keeps

LEMMA BeginBegins ==
    ASSUME NEW s \in SendingTraffic, NEW request \in BOOLEAN
    PROVE  /\ Begins(s, BeginKeyUpdate(s, request))
           /\ Begins(s, BeginKeyUpdate(Seal(s), request))
<1>1. /\ Begins(s, BeginKeyUpdate(s, request))
      /\ Begins(Seal(s), BeginKeyUpdate(Seal(s), request))
  BY SMT, BeginType, SealType DEF Begins, Number
<1>2. QED
  BY <1>1, SealType DEF Begins

LEMMA RetransmitRetransmits ==
    ASSUME NEW s \in SendingTraffic PROVE Retransmits(s, RetransmitKeyUpdate(s))
  BY SMT, RetransmitType DEF Retransmits, Number

LEMMA SwitchSwitches ==
    ASSUME NEW s \in SendingTraffic
    PROVE  /\ Switches(s, SwitchEpoch(s))
           /\ Switches(s, Seal(SwitchEpoch(s)))
           /\ SwitchesAndBegins(s, BeginKeyUpdate(SwitchEpoch(s), FALSE))
<1>1. Switches(s, SwitchEpoch(s)) /\ SwitchEpoch(s) \in SendingTraffic
  BY SwitchType DEF Switches
<1>2. Keeps(SwitchEpoch(s), Seal(SwitchEpoch(s)))
  BY <1>1, SealKeeps
<1>3. Begins(SwitchEpoch(s), BeginKeyUpdate(SwitchEpoch(s), FALSE))
  BY <1>1, BeginBegins
<1>4. QED
  BY <1>1, <1>2, <1>3 DEF Keeps, Begins, Switches, SwitchesAndBegins

(***************************************************************************)
(* Every action has the shape of a step.                                   *)
(***************************************************************************)
LEMMA NoReceivingStep ==
    ASSUME TypeOK, NEW p \in Peer, UNCHANGED <<rx, acks>>
    PROVE  /\ \E r \in ReceivingTraffic : rx' = [rx EXCEPT ![p] = r]
           /\ ReceivingStep(p)
<1>1. rx[p] \in ReceivingTraffic /\ rx' = [rx EXCEPT ![p] = rx[p]]
  BY DEF TypeOK
<1>2. QED
  BY <1>1 DEF ReceivingStep, SameEpochs

\* A KeyUpdate is begun, after at most one other record has been sealed; it
\* is written, or its write fails.
Started(p) ==
    \E s, t, m : \E request \in BOOLEAN :
        /\ s = tx[p] \/ (s = Seal(tx[p]) /\ CanSeal(tx[p]))
        /\ BeginSucceeds(s)
        /\ t = BeginKeyUpdate(s, request)
        /\ m = UpdateRecord(p, s, s.message, request)
        /\ tx' = [tx EXCEPT ![p] = t]
        /\ updates' = updates \/ updates' = updates \cup {m}

LEMMA BeginStep ==
    ASSUME TypeOK, NEW p \in Peer, Started(p)
    PROVE  /\ \E u : WellSent(u) /\ tx' = [tx EXCEPT ![p] = u]
           /\ SendingStep(p)
           /\ updates' \subseteq Updated
<1> PICK s, t, m : \E request \in BOOLEAN :
        /\ s = tx[p] \/ (s = Seal(tx[p]) /\ CanSeal(tx[p]))
        /\ BeginSucceeds(s)
        /\ t = BeginKeyUpdate(s, request)
        /\ m = UpdateRecord(p, s, s.message, request)
        /\ tx' = [tx EXCEPT ![p] = t]
        /\ updates' = updates \/ updates' = updates \cup {m}
  BY DEF Started
<1> PICK request \in BOOLEAN : t = BeginKeyUpdate(s, request)
                               /\ m = UpdateRecord(p, s, s.message, request)
  OBVIOUS
<1>1. WellSent(tx[p]) /\ WellSent(s)
  BY TypeOfPeer, WellSentSeal
<1>2. WellSent(BeginKeyUpdate(s, request))
  BY <1>1, WellSentBegin
<1>3. tx[p] \in SendingTraffic /\ s \in SendingTraffic
  BY <1>1 DEF WellSent
<1>4. tx'[p] = t
  BY DEF TypeOK
<1>5. Begins(tx[p], t)
  BY <1>3, BeginBegins
<1>6. Keeps(tx[p], s)
  BY <1>3, SealKeeps
<1>7. ~tx[p].pending
  BY <1>6 DEF BeginSucceeds, CanBeginKeyUpdate, Keeps
<1>8. AddsUpdates(p, tx[p].epoch, tx[p].message)
  BY SMT, <1>6 DEF AddsUpdates, UpdateRecord, Keeps
<1>9. s.message \in Nat
  BY <1>3 DEF SendingTraffic
<1>10. updates' \subseteq Updated
  BY SMT, <1>3, <1>9, UpdateRecordType DEF TypeOK, Updated
<1>11. QED
  BY <1>2, <1>4, <1>5, <1>7, <1>8, <1>10 DEF SendingStep

LEMMA BeginAndSendStep ==
    ASSUME TypeOK, NEW p \in Peer, NEW request \in BOOLEAN, BeginAndSend(p, request)
    PROVE  PeerStep(p)
<1>1. Started(p)
  BY DEF BeginAndSend, Started
<1>2. /\ \E u : WellSent(u) /\ tx' = [tx EXCEPT ![p] = u]
      /\ SendingStep(p)
      /\ updates' \subseteq Updated
  BY <1>1, BeginStep
<1>3. /\ \E r \in ReceivingTraffic : rx' = [rx EXCEPT ![p] = r]
      /\ ReceivingStep(p)
  BY NoReceivingStep DEF BeginAndSend
<1>4. NetworkOK'
  BY SMTT(30), <1>2, TypeSplit DEF BeginAndSend, NetworkOK
<1>5. QED
  BY <1>2, <1>3, <1>4 DEF PeerStep

LEMMA SendKeyUpdateWriteErrorStep ==
    ASSUME TypeOK, NEW p \in Peer, NEW request \in BOOLEAN, SendKeyUpdateWriteError(p, request)
    PROVE  PeerStep(p)
<1>1. Started(p)
  BY DEF SendKeyUpdateWriteError, Started
<1>2. /\ \E u : WellSent(u) /\ tx' = [tx EXCEPT ![p] = u]
      /\ SendingStep(p)
      /\ updates' \subseteq Updated
  BY <1>1, BeginStep
<1>3. /\ \E r \in ReceivingTraffic : rx' = [rx EXCEPT ![p] = r]
      /\ ReceivingStep(p)
  BY NoReceivingStep DEF SendKeyUpdateWriteError
<1>4. NetworkOK'
  BY SMT, <1>2, TypeSplit DEF SendKeyUpdateWriteError, NetworkOK
<1>5. QED
  BY <1>2, <1>3, <1>4 DEF PeerStep

LEMMA KeepStep ==
    ASSUME TypeOK, NEW p \in Peer, NEW s,
           \/ s = tx[p]
           \/ s = Seal(tx[p]) /\ CanSeal(tx[p])
           \/ s = Seal(Seal(tx[p])) /\ CanSeal(tx[p]) /\ CanSeal(Seal(tx[p])),
           tx' = [tx EXCEPT ![p] = s], updates' = updates
    PROVE  /\ \E t : WellSent(t) /\ tx' = [tx EXCEPT ![p] = t]
           /\ SendingStep(p)
           /\ updates' \subseteq Updated
<1>1. WellSent(tx[p]) /\ WellSent(s)
  BY TypeOfPeer, WellSentSeal
<1>2. tx[p] \in SendingTraffic /\ Seal(tx[p]) \in SendingTraffic
  BY <1>1, SealType DEF WellSent
<1>3. tx'[p] = s
  BY DEF TypeOK
<1>4. Keeps(tx[p], s)
  BY <1>2, SealKeeps DEF Keeps
<1>5. updates' \subseteq Updated
  BY DEF TypeOK, Updated
<1>6. QED
  BY <1>1, <1>3, <1>4, <1>5 DEF SendingStep

LEMMA WriteDatagramStep ==
    ASSUME TypeOK, NEW p \in Peer, WriteDatagram(p)
    PROVE  PeerStep(p)
<1>1. /\ \E t : WellSent(t) /\ tx' = [tx EXCEPT ![p] = t]
      /\ SendingStep(p)
      /\ updates' \subseteq Updated
  <2>1. CASE NearLimit(Seal(tx[p])) /\ BeginSucceeds(Seal(tx[p]))
    BY <2>1, BeginStep DEF WriteDatagram, Started
  <2>2. CASE ~(NearLimit(Seal(tx[p])) /\ BeginSucceeds(Seal(tx[p])))
    BY <2>2, KeepStep DEF WriteDatagram
  <2>3. QED
    BY <2>1, <2>2
<1>2. /\ \E r \in ReceivingTraffic : rx' = [rx EXCEPT ![p] = r]
      /\ ReceivingStep(p)
  BY NoReceivingStep DEF WriteDatagram
<1>3. timer' \in [Peer -> BOOLEAN]
  BY DEF WriteDatagram, TypeOK
<1>4. NetworkOK'
  BY SMTT(30), <1>1, <1>3, TypeSplit DEF WriteDatagram, NetworkOK
<1>5. QED
  BY <1>1, <1>2, <1>4 DEF PeerStep

LEMMA WriteDatagramWriteErrorStep ==
    ASSUME TypeOK, NEW p \in Peer, WriteDatagramWriteError(p)
    PROVE  PeerStep(p)
<1>1. /\ \E t : WellSent(t) /\ tx' = [tx EXCEPT ![p] = t]
      /\ SendingStep(p)
      /\ updates' \subseteq Updated
  BY KeepStep DEF WriteDatagramWriteError
<1>2. /\ \E r \in ReceivingTraffic : rx' = [rx EXCEPT ![p] = r]
      /\ ReceivingStep(p)
  BY NoReceivingStep DEF WriteDatagramWriteError
<1>3. NetworkOK'
  BY SMTT(30), <1>1, TypeSplit DEF WriteDatagramWriteError, NetworkOK
<1>4. QED
  BY <1>1, <1>2, <1>3 DEF PeerStep

LEMMA WriteDatagramUpdateWriteErrorStep ==
    ASSUME TypeOK, NEW p \in Peer, WriteDatagramUpdateWriteError(p)
    PROVE  PeerStep(p)
<1>1. /\ \E t : WellSent(t) /\ tx' = [tx EXCEPT ![p] = t]
      /\ SendingStep(p)
      /\ updates' \subseteq Updated
  BY BeginStep DEF WriteDatagramUpdateWriteError, Started
<1>2. /\ \E r \in ReceivingTraffic : rx' = [rx EXCEPT ![p] = r]
      /\ ReceivingStep(p)
  BY NoReceivingStep DEF WriteDatagramUpdateWriteError
<1>3. NetworkOK'
  BY SMT, <1>1, TypeSplit DEF WriteDatagramUpdateWriteError, NetworkOK
<1>4. QED
  BY <1>1, <1>2, <1>3 DEF PeerStep

LEMMA UnchangedTraffic ==
    ASSUME TypeOK, NEW p \in Peer, UNCHANGED <<tx, updates>>
    PROVE  /\ \E u : WellSent(u) /\ tx' = [tx EXCEPT ![p] = u]
           /\ SendingStep(p)
           /\ updates' \subseteq Updated
<1> PICK s : s = tx[p]
  OBVIOUS
<1>1. tx' = [tx EXCEPT ![p] = s] /\ updates' = updates
  BY DEF TypeOK
<1>2. QED
  BY <1>1, KeepStep

LEMMA TimerStopsStep ==
    ASSUME TypeOK, NEW p \in Peer, TimerStops(p) PROVE PeerStep(p)
<1>1. /\ \E u : WellSent(u) /\ tx' = [tx EXCEPT ![p] = u]
      /\ SendingStep(p)
      /\ updates' \subseteq Updated
  BY UnchangedTraffic DEF TimerStops
<1>2. /\ \E r \in ReceivingTraffic : rx' = [rx EXCEPT ![p] = r]
      /\ ReceivingStep(p)
  BY NoReceivingStep DEF TimerStops
<1>3. NetworkOK'
  BY TypeSplit DEF TimerStops, NetworkOK
<1>4. QED
  BY <1>1, <1>2, <1>3 DEF PeerStep

\* FailConnection keeps the type of status.
LEMMA FailType ==
    ASSUME TypeOK, NEW p \in Peer, FailConnection(p)
    PROVE  status' \in [Peer -> {"open", "failed"}]
  BY DEF FailConnection, TypeOK

LEMMA TimerFailsStep ==
    ASSUME TypeOK, NEW p \in Peer, TimerFails(p) PROVE PeerStep(p)
<1>1. /\ \E u : WellSent(u) /\ tx' = [tx EXCEPT ![p] = u]
      /\ SendingStep(p)
      /\ updates' \subseteq Updated
  BY UnchangedTraffic DEF TimerFails
<1>2. /\ \E r \in ReceivingTraffic : rx' = [rx EXCEPT ![p] = r]
      /\ ReceivingStep(p)
  BY NoReceivingStep DEF TimerFails
<1>3. NetworkOK'
  BY TypeSplit, FailType DEF TimerFails, NetworkOK
<1>4. QED
  BY <1>1, <1>2, <1>3 DEF PeerStep

LEMMA TransportErrorStep ==
    ASSUME TypeOK, NEW p \in Peer, TransportError(p) PROVE PeerStep(p)
<1>1. /\ \E u : WellSent(u) /\ tx' = [tx EXCEPT ![p] = u]
      /\ SendingStep(p)
      /\ updates' \subseteq Updated
  BY UnchangedTraffic DEF TransportError
<1>2. /\ \E r \in ReceivingTraffic : rx' = [rx EXCEPT ![p] = r]
      /\ ReceivingStep(p)
  BY NoReceivingStep DEF TransportError
<1>3. NetworkOK'
  BY SMT, TypeSplit, FailType DEF TransportError, NetworkOK
<1>4. QED
  BY <1>1, <1>2, <1>3 DEF PeerStep

LEMMA TimerRetransmitsStep ==
    ASSUME TypeOK, NEW p \in Peer, TimerRetransmits(p) PROVE PeerStep(p)
<1> DEFINE m == UpdateRecord(p, tx[p], tx[p].fragment, tx[p].request)
<1>1. WellSent(tx[p]) /\ tx[p] \in SendingTraffic
  BY TypeOfPeer DEF WellSent
<1>2. WellSent(RetransmitKeyUpdate(tx[p]))
  BY <1>1, WellSentRetransmit DEF TimerRetransmits
<1>3. tx' = [tx EXCEPT ![p] = RetransmitKeyUpdate(tx[p])]
  BY DEF TimerRetransmits
<1>4. Retransmits(tx[p], tx'[p])
  BY <1>1, <1>3, RetransmitRetransmits DEF TypeOK
<1>5. AddsUpdates(p, tx[p].epoch, tx[p].fragment)
  BY SMTT(30) DEF TimerRetransmits, AddsUpdates, UpdateRecord
<1>6. SendingStep(p)
  BY <1>4, <1>5 DEF TimerRetransmits, SendingStep
<1>7. tx[p].fragment \in Nat /\ tx[p].request \in BOOLEAN
  BY <1>1 DEF SendingTraffic
<1>8. m \in Updated
  BY <1>1, <1>7, UpdateRecordType
<1>9. updates' \subseteq Updated
  BY <1>8 DEF TimerRetransmits, TypeOK, Updated
<1>10. /\ \E r \in ReceivingTraffic : rx' = [rx EXCEPT ![p] = r]
       /\ ReceivingStep(p)
  BY NoReceivingStep DEF TimerRetransmits
<1>11. spurious' \in Nat
  BY SMTT(30) DEF TimerRetransmits, TypeOK
<1>12. NetworkOK'
  BY <1>9, <1>11, TypeSplit DEF TimerRetransmits, NetworkOK
<1>13. QED
  BY <1>2, <1>3, <1>6, <1>10, <1>12 DEF PeerStep

\* A handler that only marks a record as opened.
LEMMA OpenStep ==
    ASSUME TypeOK, NEW p \in Peer, NEW m, m.epoch \in Nat, m.sequence \in Nat,
           rx' = [rx EXCEPT ![p] = Opened(rx[p], m)], acks' = acks
    PROVE  /\ \E r \in ReceivingTraffic : rx' = [rx EXCEPT ![p] = r]
           /\ ReceivingStep(p)
<1>1. rx[p] \in ReceivingTraffic
  BY TypeOfPeer
<1>2. Opened(rx[p], m) \in ReceivingTraffic /\ SameEpochs(rx[p], Opened(rx[p], m))
  BY <1>1, OpenedType DEF SameEpochs
<1>3. rx'[p] = Opened(rx[p], m)
  BY DEF TypeOK
<1>4. QED
  BY <1>2, <1>3 DEF ReceivingStep

LEMMA ReceiveAlertStep ==
    ASSUME TypeOK, NEW p \in Peer, NEW m \in alerts, ReceiveAlert(p, m)
    PROVE  PeerStep(p)
<1>1. /\ \E u : WellSent(u) /\ tx' = [tx EXCEPT ![p] = u]
      /\ SendingStep(p)
      /\ updates' \subseteq Updated
  BY UnchangedTraffic DEF ReceiveAlert
<1>2. m.epoch \in Nat /\ m.sequence \in Nat
  BY DEF TypeOK
<1>3. /\ \E r \in ReceivingTraffic : rx' = [rx EXCEPT ![p] = r]
      /\ ReceivingStep(p)
  BY <1>2, OpenStep DEF ReceiveAlert
<1>4. NetworkOK'
  BY TypeSplit, FailType DEF ReceiveAlert, NetworkOK
<1>5. QED
  BY <1>1, <1>3, <1>4 DEF PeerStep

LEMMA AlertType ==
    ASSUME TypeOK, NEW p \in Peer, NEW s, WellSent(s), SendFatalAlert(p, s)
    PROVE  /\ \/ tx' = [tx EXCEPT ![p] = s]
              \/ CanSeal(s) /\ tx' = [tx EXCEPT ![p] = Seal(s)]
           /\ alerts' \subseteq Alerted
<1>1. s.epoch \in Nat /\ s.next \in Nat
  BY DEF WellSent, SendingTraffic
<1>2. QED
  BY SMT, <1>1 DEF SendFatalAlert, TypeOK, Alerted

LEMMA RequestKeyUpdateFailsStep ==
    ASSUME TypeOK, NEW p \in Peer, RequestKeyUpdateFails(p)
    PROVE  PeerStep(p)
<1>1. WellSent(tx[p])
  BY TypeOfPeer
<1>2. PICK s : s = tx[p]
  OBVIOUS
<1>3. /\ \/ tx' = [tx EXCEPT ![p] = s]
         \/ CanSeal(s) /\ tx' = [tx EXCEPT ![p] = Seal(s)]
      /\ alerts' \subseteq Alerted
  BY <1>1, <1>2, AlertType DEF RequestKeyUpdateFails
<1>4. updates' = updates
  BY DEF RequestKeyUpdateFails
<1>5. /\ \E u : WellSent(u) /\ tx' = [tx EXCEPT ![p] = u]
      /\ SendingStep(p)
      /\ updates' \subseteq Updated
  BY <1>2, <1>3, <1>4, KeepStep
<1>6. /\ \E r \in ReceivingTraffic : rx' = [rx EXCEPT ![p] = r]
      /\ ReceivingStep(p)
  BY NoReceivingStep DEF RequestKeyUpdateFails
<1>7. NetworkOK'
  BY SMTT(30), <1>3, TypeSplit, FailType DEF RequestKeyUpdateFails, NetworkOK
<1>8. QED
  BY <1>5, <1>6, <1>7 DEF PeerStep

LEMMA RejectACKStep ==
    ASSUME TypeOK, NEW p \in Peer, NEW a \in acks, RejectACK(p, a)
    PROVE  PeerStep(p)
<1>1. WellSent(tx[p])
  BY TypeOfPeer
<1>2. PICK s : s = tx[p]
  OBVIOUS
<1>3. /\ \/ tx' = [tx EXCEPT ![p] = s]
         \/ CanSeal(s) /\ tx' = [tx EXCEPT ![p] = Seal(s)]
      /\ alerts' \subseteq Alerted
  BY <1>1, <1>2, AlertType DEF RejectACK
<1>4. updates' = updates
  BY DEF RejectACK
<1>5. /\ \E u : WellSent(u) /\ tx' = [tx EXCEPT ![p] = u]
      /\ SendingStep(p)
      /\ updates' \subseteq Updated
  BY <1>2, <1>3, <1>4, KeepStep
<1>6. a.epoch \in Nat /\ a.sequence \in Nat
  BY DEF TypeOK
<1>7. /\ \E r \in ReceivingTraffic : rx' = [rx EXCEPT ![p] = r]
      /\ ReceivingStep(p)
  BY <1>6, OpenStep DEF RejectACK
<1>8. NetworkOK'
  BY <1>3, TypeSplit, FailType DEF RejectACK, NetworkOK
<1>9. QED
  BY <1>5, <1>7, <1>8 DEF PeerStep

\* The receiving half of processKeyUpdateFragment.
LEMMA ProcessStep ==
    ASSUME TypeOK, NEW p \in Peer, NEW m \in updates, m.from = Other(p),
           rx' = [rx EXCEPT ![p] = ProcessKeyUpdate(Opened(rx[p], m), m.message)],
           acks' = acks \/ acks' = acks \cup {AckRecord(p, tx[p], m)}
    PROVE  /\ \E r \in ReceivingTraffic : rx' = [rx EXCEPT ![p] = r]
           /\ ReceivingStep(p)
           /\ acks' \subseteq Acked
<1> DEFINE o == Opened(rx[p], m)
           t == ProcessKeyUpdate(o, m.message)
<1>1. /\ rx[p] \in ReceivingTraffic /\ tx[p] \in SendingTraffic
      /\ m.epoch \in Nat /\ m.sequence \in Nat /\ m.message \in Nat
  BY DEF TypeOK
<1>2. o \in ReceivingTraffic /\ SameEpochs(rx[p], o)
  BY <1>1, OpenedType DEF SameEpochs
<1>3. rx'[p] = t
  BY DEF TypeOK
<1>4. t \in ReceivingTraffic
  BY <1>1, <1>2, ProcessType
<1>5. \/ InstallsEpoch(o, t, m.message)
      \/ ~(m.message > o.last) /\ t = o
  <2> HIDE DEF o
  <2>1. QED
    BY <1>1, <1>2, ProcessType DEF InstallsEpoch
<1>6. \/ InstallsEpoch(rx[p], t, m.message)
      \/ ~(m.message > rx[p].last) /\ SameEpochs(rx[p], t)
  <2> HIDE DEF o, t
  <2>1. QED
    BY <1>2, <1>5 DEF SameEpochs, InstallsEpoch
<1>7. \A a \in acks' : a \in acks \/ (a.from = p /\ a.number.epoch = m.epoch)
  BY SMT DEF AckRecord, Number
<1>8. acks' \subseteq Acked
  <2>1. AckRecord(p, tx[p], m) \in Acked
    BY <1>1, AckRecordType
  <2>2. acks \subseteq Acked
    BY DEF TypeOK, Acked
  <2>3. QED
    BY <2>1, <2>2
<1>9. ReceivingStep(p)
  <2> HIDE DEF o, t
  <2>1. QED
    BY <1>3, <1>6, <1>7 DEF ReceivingStep
<1>10. QED
  BY <1>4, <1>8, <1>9

LEMMA ReceiveKeyUpdateCannotAckStep ==
    ASSUME TypeOK, NEW p \in Peer, NEW m \in updates,
           ReceiveKeyUpdateCannotAck(p, m)
    PROVE  PeerStep(p)
<1>1. /\ \E u : WellSent(u) /\ tx' = [tx EXCEPT ![p] = u]
      /\ SendingStep(p)
      /\ updates' \subseteq Updated
  BY UnchangedTraffic DEF ReceiveKeyUpdateCannotAck
<1>2. /\ \E r \in ReceivingTraffic : rx' = [rx EXCEPT ![p] = r]
      /\ ReceivingStep(p)
  BY ProcessStep DEF ReceiveKeyUpdateCannotAck
<1>3. NetworkOK'
  BY TypeSplit, FailType DEF ReceiveKeyUpdateCannotAck, NetworkOK
<1>4. QED
  BY <1>1, <1>2, <1>3 DEF PeerStep

LEMMA ReceiveKeyUpdateStep ==
    ASSUME TypeOK, NEW p \in Peer, NEW m \in updates, ReceiveKeyUpdate(p, m)
    PROVE  PeerStep(p)
<1>1. WellSent(tx[p]) /\ WellSent(Seal(tx[p]))
  BY TypeOfPeer, WellSentSeal DEF ReceiveKeyUpdate
<1>2. /\ \E r \in ReceivingTraffic : rx' = [rx EXCEPT ![p] = r]
      /\ ReceivingStep(p)
      /\ acks' \subseteq Acked
  BY ProcessStep DEF ReceiveKeyUpdate
<1>3. CASE /\ tx' = [tx EXCEPT ![p] = Seal(tx[p])]
           /\ UNCHANGED <<timer, status, updates, alerts>>
           /\ \/ UNCHANGED responsePending
              \/ responsePending' = [responsePending EXCEPT
                   ![p] = @ \/ Seal(tx[p]).epoch < MaxSendingEpoch]
  <2>1. CanSeal(tx[p])
    BY DEF ReceiveKeyUpdate
  <2>2. /\ \E u : WellSent(u) /\ tx' = [tx EXCEPT ![p] = u]
        /\ SendingStep(p)
        /\ updates' \subseteq Updated
    BY <1>3, <2>1, KeepStep
  <2>3. responsePending' \in [Peer -> BOOLEAN]
    BY <1>3 DEF TypeOK
  <2>4. NetworkOK'
    BY <1>2, <1>3, <2>2, <2>3, TypeSplit DEF ReceiveKeyUpdate, NetworkOK
  <2>5. QED
    BY <1>2, <2>2, <2>4 DEF PeerStep
<1>4. CASE /\ BeginSucceeds(Seal(tx[p]))
           /\ tx' = [tx EXCEPT ![p] = BeginKeyUpdate(Seal(tx[p]), FALSE)]
           /\ updates' = updates \cup
                {UpdateRecord(p, Seal(tx[p]), Seal(tx[p]).message, FALSE)}
           /\ timer' = [timer EXCEPT ![p] = TRUE]
           /\ UNCHANGED <<responsePending, status, alerts>>
  <2>1. CanSeal(tx[p])
    BY DEF ReceiveKeyUpdate
  <2>2. /\ \E u : WellSent(u) /\ tx' = [tx EXCEPT ![p] = u]
        /\ SendingStep(p)
        /\ updates' \subseteq Updated
    BY <1>4, <2>1, BeginStep DEF Started
  <2>3. NetworkOK'
    BY <1>2, <1>4, <2>2, TypeSplit DEF ReceiveKeyUpdate, NetworkOK
  <2>4. QED
    BY <1>2, <2>2, <2>3 DEF PeerStep
<1>5. CASE /\ SendFatalAlert(p, Seal(tx[p]))
           /\ FailConnection(p)
           /\ UNCHANGED <<responsePending, timer, updates>>
  <2>1. CanSeal(tx[p])
    BY DEF ReceiveKeyUpdate
  <2>2. /\ \/ tx' = [tx EXCEPT ![p] = Seal(tx[p])]
           \/ /\ CanSeal(Seal(tx[p]))
              /\ tx' = [tx EXCEPT ![p] = Seal(Seal(tx[p]))]
        /\ alerts' \subseteq Alerted
    BY <1>1, <1>5, AlertType
  <2>3. /\ \E u : WellSent(u) /\ tx' = [tx EXCEPT ![p] = u]
        /\ SendingStep(p)
        /\ updates' \subseteq Updated
    BY <1>5, <2>1, <2>2, KeepStep
  <2>4. NetworkOK'
    BY <1>2, <1>5, <2>2, <2>3, TypeSplit, FailType DEF ReceiveKeyUpdate, NetworkOK
  <2>5. QED
    BY <1>2, <2>3, <2>4 DEF PeerStep
<1>6. QED
  BY <1>3, <1>4, <1>5 DEF ReceiveKeyUpdate

\* processACK completes the outstanding KeyUpdate: the sending half of applyACK.
LEMMA SwitchStep ==
    ASSUME TypeOK, NEW p \in Peer, NEW a \in acks, a.from = Other(p),
           AckCompletes(tx[p], a.number), SameEpochs(rx[p], rx'[p]), NEW s, NEW t,
           s = SwitchEpoch(tx[p]), tx' = [tx EXCEPT ![p] = t],
           \/ /\ t = s \/ (t = Seal(s) /\ CanSeal(s))
              /\ updates' = updates
           \/ /\ t = BeginKeyUpdate(s, FALSE) /\ BeginSucceeds(s)
              /\ updates' = updates \cup {UpdateRecord(p, s, s.message, FALSE)}
    PROVE  /\ \E u : WellSent(u) /\ tx' = [tx EXCEPT ![p] = u]
           /\ SendingStep(p)
           /\ updates' \subseteq Updated
<1>1. WellSent(tx[p]) /\ WellSent(s)
  BY TypeOfPeer, WellSentSwitch
<1>2. tx[p] \in SendingTraffic /\ s \in SendingTraffic /\ tx'[p] = t
  BY <1>1 DEF WellSent, TypeOK
<1>3. Acknowledged(p)
  BY DEF Acknowledged, AckCompletes
<1>4. updates \subseteq Updated
  BY DEF TypeOK, Updated
<1>5. CASE /\ t = s \/ (t = Seal(s) /\ CanSeal(s))
           /\ updates' = updates
  <2>1. WellSent(t)
    BY <1>1, <1>5, WellSentSeal
  <2>2. Switches(tx[p], tx'[p])
    BY <1>2, <1>5, SwitchSwitches
  <2>3. QED
    BY <1>3, <1>4, <1>5, <2>1, <2>2 DEF SendingStep
<1>6. CASE /\ t = BeginKeyUpdate(s, FALSE) /\ BeginSucceeds(s)
           /\ updates' = updates \cup {UpdateRecord(p, s, s.message, FALSE)}
  <2>1. WellSent(t)
    BY <1>1, <1>6, WellSentBegin
  <2>2. SwitchesAndBegins(tx[p], tx'[p])
    BY <1>2, <1>6, SwitchSwitches
  <2>3. s.epoch = tx[p].epoch + 1 /\ s.message = tx[p].message
    BY <1>2, SwitchType
  <2>4. AddsUpdates(p, tx[p].epoch + 1, tx[p].message)
    BY <1>6, <2>3, SMTT(30) DEF AddsUpdates, UpdateRecord
  <2>5. s.message \in Nat
    BY <1>2 DEF SendingTraffic
  <2>6. UpdateRecord(p, s, s.message, FALSE) \in Updated
    BY <1>2, <2>5, UpdateRecordType
  <2>7. QED
    BY <1>3, <1>4, <1>6, <2>1, <2>2, <2>4, <2>6 DEF SendingStep
<1>7. QED
  BY <1>5, <1>6

LEMMA ReceiveACKStep ==
    ASSUME TypeOK, NEW p \in Peer, NEW a \in acks, ReceiveACK(p, a)
    PROVE  PeerStep(p)
<1>1. a.epoch \in Nat /\ a.sequence \in Nat /\ a.from = Other(p)
  BY DEF TypeOK, ReceiveACK
<1>2. /\ \E r \in ReceivingTraffic : rx' = [rx EXCEPT ![p] = r]
      /\ ReceivingStep(p)
  BY <1>1, OpenStep DEF ReceiveACK
<1> SameEpochs(rx[p], rx'[p])
  <2>1. rx[p] \in ReceivingTraffic /\ rx'[p] = Opened(rx[p], a)
    BY DEF TypeOK, ReceiveACK
  <2>2. QED
    BY SMTT(30), <1>1, <2>1, OpenedType DEF SameEpochs
<1>3. CASE ~AckCompletes(tx[p], a.number)
  <2>1. /\ tx' = [tx EXCEPT ![p] = tx[p]]
        /\ UNCHANGED <<responsePending, timer, status, updates, alerts>>
    BY <1>3 DEF ReceiveACK, ApplyACK
  <2>2. tx' = tx
    BY <2>1 DEF TypeOK
  <2>3. /\ \E u : WellSent(u) /\ tx' = [tx EXCEPT ![p] = u]
        /\ SendingStep(p)
        /\ updates' \subseteq Updated
    BY <2>1, <2>2, UnchangedTraffic
  <2>4. NetworkOK'
    BY <2>1, <2>3, TypeSplit DEF ReceiveACK, NetworkOK
  <2>5. QED
    BY <1>2, <2>3, <2>4 DEF PeerStep
<1>4. CASE AckCompletes(tx[p], a.number)
  <2> PICK s : s = SwitchEpoch(tx[p])
    OBVIOUS
  <2>1. WellSent(s)
    BY TypeOfPeer, WellSentSwitch
  <2>2. CASE /\ tx' = [tx EXCEPT ![p] = s]
             /\ DropResponseAtEpochLimit(p, s)
             /\ UNCHANGED <<timer, status, updates, alerts>>
    <3>1. /\ \E u : WellSent(u) /\ tx' = [tx EXCEPT ![p] = u]
          /\ SendingStep(p)
          /\ updates' \subseteq Updated
      BY <1>1, <1>4, <2>2, SwitchStep
    <3>2. responsePending' \in [Peer -> BOOLEAN]
      BY <2>2 DEF DropResponseAtEpochLimit, TypeOK
    <3>3. NetworkOK'
      BY <2>2, <3>1, <3>2, TypeSplit DEF ReceiveACK, NetworkOK
    <3>4. QED
      BY <1>2, <3>1, <3>3 DEF PeerStep
  <2>3. CASE /\ BeginSucceeds(s)
             /\ tx' = [tx EXCEPT ![p] = BeginKeyUpdate(s, FALSE)]
             /\ updates' = updates \cup {UpdateRecord(p, s, s.message, FALSE)}
             /\ responsePending' = [responsePending EXCEPT ![p] = FALSE]
             /\ timer' = [timer EXCEPT ![p] = TRUE]
             /\ UNCHANGED <<status, alerts>>
    <3>1. /\ \E u : WellSent(u) /\ tx' = [tx EXCEPT ![p] = u]
          /\ SendingStep(p)
          /\ updates' \subseteq Updated
      BY <1>1, <1>4, <2>3, SwitchStep
    <3>2. NetworkOK'
      BY <2>3, <3>1, TypeSplit DEF ReceiveACK, NetworkOK
    <3>3. QED
      BY <1>2, <3>1, <3>2 DEF PeerStep
  <2>4. CASE /\ SendFatalAlert(p, s)
             /\ FailConnection(p)
             /\ UNCHANGED <<responsePending, timer, updates>>
    <3>1. /\ \/ tx' = [tx EXCEPT ![p] = s]
             \/ CanSeal(s) /\ tx' = [tx EXCEPT ![p] = Seal(s)]
          /\ alerts' \subseteq Alerted
      BY <2>1, <2>4, AlertType
    <3>2. /\ \E u : WellSent(u) /\ tx' = [tx EXCEPT ![p] = u]
          /\ SendingStep(p)
          /\ updates' \subseteq Updated
      BY <1>1, <1>4, <2>4, <3>1, SwitchStep
    <3>3. NetworkOK'
      BY <2>4, <3>1, <3>2, TypeSplit, FailType DEF ReceiveACK, NetworkOK
    <3>4. QED
      BY <1>2, <3>2, <3>3 DEF PeerStep
  <2>5. QED
    BY <1>4, <2>2, <2>3, <2>4 DEF ReceiveACK, ApplyACK
<1>5. QED
  BY <1>3, <1>4

LEMMA LoseStep ==
    ASSUME TypeOK, Lose
    PROVE  /\ tx' = tx /\ rx' = rx
           /\ updates' \subseteq updates /\ acks' \subseteq acks
           /\ NetworkOK'
<1>1. updates' \subseteq updates /\ acks' \subseteq acks
  BY DEF Lose
<1>2. QED
  BY SMTT(30), <1>1, TypeSplit DEF Lose, NetworkOK

\* Every step is a step of one end, or the loss of a record.
\* The steps of one end.
Moves(p) ==
    \/ \E request \in BOOLEAN :
          SendKeyUpdate(p, request) \/ SendKeyUpdateWriteError(p, request)
    \/ RequestKeyUpdateAfterAuthFailures(p) \/ RequestKeyUpdateFails(p)
    \/ WriteDatagram(p) \/ WriteDatagramWriteError(p)
    \/ WriteDatagramUpdateWriteError(p)
    \/ TimerWakes(p)
    \/ ReceiveAny(p)
    \/ TransportError(p)

LEMMA MoveStep ==
    ASSUME TypeOK, NEW p \in Peer, Moves(p)
    PROVE  PeerStep(p)
<1>1. ASSUME NEW request \in BOOLEAN, SendKeyUpdate(p, request) PROVE PeerStep(p)
  BY <1>1, BeginAndSendStep DEF SendKeyUpdate
<1>2. ASSUME RequestKeyUpdateAfterAuthFailures(p) PROVE PeerStep(p)
  BY <1>2, BeginAndSendStep DEF RequestKeyUpdateAfterAuthFailures
<1>3. ASSUME TimerWakes(p) PROVE PeerStep(p)
  BY <1>3, TimerStopsStep, TimerRetransmitsStep, TimerFailsStep DEF TimerWakes
<1>4. ASSUME ReceiveAny(p) PROVE PeerStep(p)
  BY <1>4, ReceiveKeyUpdateStep, ReceiveKeyUpdateCannotAckStep, ReceiveACKStep,
     RejectACKStep, ReceiveAlertStep DEF ReceiveAny
<1>5. QED
  BY <1>1, <1>2, <1>3, <1>4, SendKeyUpdateWriteErrorStep, WriteDatagramStep,
     WriteDatagramWriteErrorStep, WriteDatagramUpdateWriteErrorStep,
     RequestKeyUpdateFailsStep, TransportErrorStep DEF Moves

LEMMA NextMoves ==
    ASSUME Next
    PROVE  Lose \/ \E p \in Peer : Moves(p)
  BY DEF Next, Moves

LEMMA NextStep ==
    ASSUME TypeOK, Next
    PROVE  Lose \/ \E p \in Peer : PeerStep(p)
  BY NextMoves, MoveStep

LEMMA TypeStep ==
    ASSUME TypeOK, [Next]_vars
    PROVE  TypeOK'
<1>1. ASSUME NEW p \in Peer, PeerStep(p) PROVE TypeOK'
  <2>1. /\ tx' \in [Peer -> SendingTraffic] /\ rx' \in [Peer -> ReceivingTraffic]
        /\ \A q \in Peer : /\ tx'[q].next <= RecordLimit
                           /\ tx'[q].message <= MessageSequences
    BY <1>1, TypeOfStep DEF PeerStep
  <2>2. QED
    BY <1>1, <2>1 DEF PeerStep, TypeOK, NetworkOK, Updated, Acked, Alerted
<1>2. ASSUME Lose PROVE TypeOK'
  BY <1>2, LoseStep DEF TypeOK, NetworkOK, Updated, Acked, Alerted
<1>3. ASSUME UNCHANGED vars PROVE TypeOK'
  BY <1>3 DEF vars, TypeOK
<1>4. QED
  BY <1>1, <1>2, <1>3, NextStep

\* Every variable has its type, a send cipher never counts past the AEAD limit
\* and a direction never past its last message_seq, whatever the limits are
\* (recordCipher.seal and sendingTraffic.canAllocateMessageSequences).
THEOREM TypeCorrect == Spec => []TypeOK
  BY InitType, TypeStep, PTL DEF Spec
=============================================================================
