-------------------------- MODULE KeyUpdateProofs --------------------------
(***************************************************************************)
(* Proofs about KeyUpdate for every value of its constants: the ACK gate,  *)
(* that the receiver always holds the sender's keys and never more than    *)
(* three epochs of them, that each direction implements the Ratchet, that  *)
(* no record number is used twice, and that an association ends only for   *)
(* a reason.                                                               *)
(***************************************************************************)
EXTENDS KeyUpdateSteps, TLAPS

USE ZenonT(30)

(***************************************************************************)
(* The inductive invariant.  Direction(p) ties the sending state of p to   *)
(* the receiving state of its peer and to every KeyUpdate of p and every   *)
(* ACK of one that the network holds; EpochsKept says which keys a         *)
(* receiver has.                                                           *)
(***************************************************************************)
Gate(p) ==
    \/ rx[Other(p)].current = tx[p].epoch
    \/ rx[Other(p)].current = tx[p].epoch + 1 /\ tx[p].pending

\* The receiver has seen the message of the outstanding KeyUpdate exactly
\* when it has moved on to the next epoch.
Seen(p) ==
    /\ rx[Other(p)].last < tx[p].message
    /\ tx[p].pending => tx[p].fragment < tx[p].message
    /\ rx[Other(p)].current = tx[p].epoch /\ tx[p].pending
          => rx[Other(p)].last < tx[p].fragment
    /\ rx[Other(p)].current = tx[p].epoch + 1
          => tx[p].fragment <= rx[Other(p)].last

RecordsCurrent(p) == \A n \in tx[p].records : n.epoch = tx[p].epoch

UpdatesInFlight(p) ==
    \A m \in updates : m.from = p =>
        /\ m.epoch <= tx[p].epoch
        /\ m.epoch = tx[p].epoch => tx[p].pending /\ m.message = tx[p].fragment
        /\ m.epoch < tx[p].epoch => m.message <= rx[Other(p)].last

AcksInFlight(p) ==
    \A a \in acks : a.from = Other(p) =>
        /\ a.number.epoch <= tx[p].epoch
        /\ a.number.epoch = tx[p].epoch
              => rx[Other(p)].current = tx[p].epoch + 1

Direction(p) ==
    /\ Gate(p)
    /\ Seen(p)
    /\ RecordsCurrent(p)
    /\ UpdatesInFlight(p)
    /\ AcksInFlight(p)

EpochsKept(r) ==
    /\ r.current >= FirstEpoch
    /\ r.current \in r.epochs
    /\ r.current - 1 \in r.epochs
    /\ \A e \in r.epochs : e \in {HandshakeEpoch, r.current - 1, r.current}
    /\ HandshakeEpoch \in r.epochs => r.current < 6

IInv ==
    /\ TypeOK
    /\ \A p \in Peer : Direction(p)
    /\ \A p \in Peer : EpochsKept(rx[p])

(***************************************************************************)
(* The ACK gate.  A step of p disturbs Direction(p) through its sending    *)
(* half and Direction(Other(p)) through its receiving half.                *)
(***************************************************************************)

\* What the other end sees of a step of p.
LEMMA OtherUnchanged ==
    ASSUME TypeOK, NEW p \in Peer, PeerStep(p)
    PROVE  /\ tx'[Other(p)] = tx[Other(p)]
           /\ rx'[Other(p)] = rx[Other(p)]
  BY OtherPeer DEF PeerStep, TypeOK

LEMMA NumbersOfPeer ==
    ASSUME TypeOK, NEW p \in Peer
    PROVE  /\ tx[p].epoch \in Nat /\ tx[p].message \in Nat /\ tx[p].fragment \in Nat
           /\ rx[p].current \in Nat /\ rx[p].last \in Int
           /\ \A m \in updates : m.epoch \in Nat /\ m.message \in Nat
           /\ \A a \in acks : a.number.epoch \in Nat
  BY SMTT(30) DEF TypeOK, SendingTraffic, ReceivingTraffic, NoSequence, RecordNumber

LEMMA SenderKeepsDirection ==
    ASSUME TypeOK, TypeOK', NEW p \in Peer, PeerStep(p), Direction(p)
    PROVE  Direction(p)'
<1> DEFINE q == Other(p)
           s == tx[p]
           t == tx'[p]
<1>1. /\ q \in Peer /\ q # p /\ rx'[q] = rx[q]
  BY OtherPeer, OtherUnchanged
<1>2. /\ s.epoch \in Nat /\ s.message \in Nat /\ s.fragment \in Nat
      /\ rx[q].current \in Nat /\ rx[q].last \in Int
      /\ \A m \in updates : m.epoch \in Nat /\ m.message \in Nat
      /\ \A a \in acks : a.number.epoch \in Nat
  BY <1>1, NumbersOfPeer
<1>3. \A a \in acks' : a.from = q => a \in acks
  BY <1>1 DEF PeerStep, ReceivingStep
<1>4. CASE Keeps(s, t) /\ updates' \subseteq updates
  BY <1>1, <1>3, <1>4 DEF Keeps, Direction, Gate, Seen, RecordsCurrent,
     UpdatesInFlight, AcksInFlight
<1>5. CASE ~s.pending /\ Begins(s, t) /\ AddsUpdates(p, s.epoch, s.message)
  <2>1. Gate(p)' /\ Seen(p)'
    BY SMTT(30), <1>1, <1>2, <1>5 DEF Begins, Direction, Gate, Seen
  <2>2. RecordsCurrent(p)'
    BY <1>5 DEF Begins, RecordsCurrent
  <2>3. UpdatesInFlight(p)'
    BY SMTT(30), <1>1, <1>2, <1>5 DEF Begins, AddsUpdates, Direction, UpdatesInFlight
  <2>4. AcksInFlight(p)'
    BY <1>1, <1>3, <1>5 DEF Begins, Direction, AcksInFlight
  <2>5. QED
    BY <2>1, <2>2, <2>3, <2>4 DEF Direction
<1>6. CASE s.pending /\ Retransmits(s, t) /\ AddsUpdates(p, s.epoch, s.fragment)
  <2>1. Gate(p)' /\ Seen(p)'
    BY <1>1, <1>6 DEF Retransmits, Direction, Gate, Seen
  <2>2. RecordsCurrent(p)'
    BY <1>6 DEF Retransmits, Direction, RecordsCurrent
  <2>3. UpdatesInFlight(p)'
    BY SMTT(30), <1>1, <1>2, <1>6 DEF Retransmits, AddsUpdates, Direction,
       UpdatesInFlight
  <2>4. AcksInFlight(p)'
    BY <1>1, <1>3, <1>6 DEF Retransmits, Direction, AcksInFlight
  <2>5. QED
    BY <2>1, <2>2, <2>3, <2>4 DEF Direction
<1>7. ASSUME Acknowledged(p)
      PROVE  s.pending /\ rx[q].current = s.epoch + 1 /\ s.fragment <= rx[q].last
  <2>1. PICK a \in acks : a.from = q /\ a.number \in s.records
    BY <1>7 DEF Acknowledged
  <2>2. a.number.epoch = s.epoch
    BY <2>1 DEF Direction, RecordsCurrent
  <2>3. QED
    BY <1>7, <2>1, <2>2 DEF Direction, AcksInFlight, Seen, Acknowledged
<1>8. CASE Acknowledged(p) /\ Switches(s, t) /\ updates' \subseteq updates
  <2>1. Gate(p)' /\ Seen(p)'
    BY SMTT(30), <1>1, <1>2, <1>7, <1>8 DEF Switches, Direction, Gate, Seen
  <2>2. RecordsCurrent(p)'
    BY <1>8 DEF Switches, RecordsCurrent
  <2>3. UpdatesInFlight(p)'
    BY SMTT(30), <1>1, <1>2, <1>7, <1>8 DEF Switches, Direction, UpdatesInFlight
  <2>4. AcksInFlight(p)'
    BY <1>1, <1>2, <1>3, <1>8, SMTT(30) DEF Switches, Direction, AcksInFlight
  <2>5. QED
    BY <2>1, <2>2, <2>3, <2>4 DEF Direction
<1>9. CASE /\ Acknowledged(p) /\ SwitchesAndBegins(s, t)
           /\ AddsUpdates(p, s.epoch + 1, s.message)
  <2>1. Gate(p)' /\ Seen(p)'
    BY SMTT(30), <1>1, <1>2, <1>7, <1>9 DEF SwitchesAndBegins, Direction, Gate, Seen
  <2>2. RecordsCurrent(p)'
    BY <1>9 DEF SwitchesAndBegins, RecordsCurrent
  <2>3. UpdatesInFlight(p)'
    BY SMTT(30), <1>1, <1>2, <1>7, <1>9 DEF SwitchesAndBegins, AddsUpdates, Direction,
       UpdatesInFlight
  <2>4. AcksInFlight(p)'
    BY SMTT(30), <1>1, <1>2, <1>3, <1>9 DEF SwitchesAndBegins, Direction, AcksInFlight
  <2>5. QED
    BY <2>1, <2>2, <2>3, <2>4 DEF Direction
<1>10. QED
  BY <1>4, <1>5, <1>6, <1>8, <1>9 DEF PeerStep, SendingStep

LEMMA ReceiverKeepsDirection ==
    ASSUME TypeOK, TypeOK', NEW p \in Peer, PeerStep(p), Direction(Other(p))
    PROVE  Direction(Other(p))'
<1> DEFINE q == Other(p)
           s == tx[q]
<1>1. /\ q \in Peer /\ q # p /\ Other(q) = p /\ tx'[q] = s
  BY OtherPeer, OtherUnchanged
<1>2. /\ s.epoch \in Nat /\ s.message \in Nat /\ s.fragment \in Nat
      /\ rx[p].current \in Nat /\ rx[p].last \in Int
      /\ \A m \in updates : m.epoch \in Nat /\ m.message \in Nat
      /\ \A a \in acks : a.number.epoch \in Nat
  BY <1>1, NumbersOfPeer
<1>3. \A m \in updates' : m.from = q => m \in updates
  BY <1>1 DEF PeerStep, SendingStep, AddsUpdates
<1>4. RecordsCurrent(q)'
  BY <1>1 DEF Direction, RecordsCurrent
<1>5. CASE SameEpochs(rx[p], rx'[p]) /\ acks' \subseteq acks
  <2>1. Gate(q)' /\ Seen(q)'
    BY <1>1, <1>5 DEF SameEpochs, Direction, Gate, Seen
  <2>2. UpdatesInFlight(q)'
    BY <1>1, <1>3, <1>5 DEF SameEpochs, Direction, UpdatesInFlight
  <2>3. AcksInFlight(q)'
    BY <1>1, <1>5 DEF SameEpochs, Direction, AcksInFlight
  <2>4. QED
    BY <1>4, <2>1, <2>2, <2>3 DEF Direction
<1>6. ASSUME NEW m \in updates, m.from = q,
             \A a \in acks' : a \in acks \/ (a.from = p /\ a.number.epoch = m.epoch),
             ~(m.message > rx[p].last), SameEpochs(rx[p], rx'[p])
      PROVE  Direction(q)'
  <2>1. Gate(q)' /\ Seen(q)'
    BY <1>1, <1>6 DEF SameEpochs, Direction, Gate, Seen
  <2>2. UpdatesInFlight(q)'
    BY <1>1, <1>3, <1>6 DEF SameEpochs, Direction, UpdatesInFlight
  <2>3. m.epoch <= s.epoch /\ (m.epoch = s.epoch => rx[p].current = s.epoch + 1)
    BY <1>1, <1>2, <1>6 DEF Direction, UpdatesInFlight, Seen, Gate
  <2>4. AcksInFlight(q)'
    BY <1>1, <1>6, <2>3 DEF SameEpochs, Direction, AcksInFlight
  <2>5. QED
    BY <1>4, <2>1, <2>2, <2>4 DEF Direction
<1>7. ASSUME NEW m \in updates, m.from = q,
             \A a \in acks' : a \in acks \/ (a.from = p /\ a.number.epoch = m.epoch),
             InstallsEpoch(rx[p], rx'[p], m.message)
      PROVE  Direction(q)'
  <2>1. /\ m.epoch = s.epoch /\ s.pending /\ m.message = s.fragment
        /\ rx[p].current = s.epoch /\ rx[p].last < s.fragment
    <3>1. /\ m.epoch <= s.epoch /\ m.message > rx[p].last
          /\ m.epoch = s.epoch => s.pending /\ m.message = s.fragment
          /\ m.epoch < s.epoch => m.message <= rx[p].last
          /\ rx[p].current = s.epoch \/ rx[p].current = s.epoch + 1
          /\ rx[p].current = s.epoch + 1 => s.fragment <= rx[p].last
      BY <1>1, <1>7 DEF InstallsEpoch, Direction, UpdatesInFlight, Seen, Gate
    <3>2. QED
      BY SMTT(30), <1>2, <3>1
  <2>2. rx'[p].current = s.epoch + 1 /\ rx'[p].last = s.fragment
    BY <1>7, <2>1 DEF InstallsEpoch
  <2>3. Gate(q)' /\ Seen(q)'
    <3>1. s.fragment < s.message
      BY <2>1 DEF Direction, Seen
    <3>2. s.epoch + 1 # s.epoch /\ s.fragment <= s.fragment
      BY SMTT(30), <1>2
    <3>3. QED
      BY <1>1, <2>1, <2>2, <3>1, <3>2 DEF Gate, Seen
  <2>4. UpdatesInFlight(q)'
    <3>1. \A n \in updates : n.message <= rx[p].last => n.message <= s.fragment
      BY SMTT(30), <1>2, <2>1
    <3>2. QED
      BY <1>1, <1>3, <2>2, <3>1 DEF Direction, UpdatesInFlight
  <2>5. AcksInFlight(q)'
    <3>1. s.epoch <= s.epoch
      BY SMTT(30), <1>2
    <3>2. QED
      BY <1>1, <1>7, <2>1, <2>2, <3>1 DEF Direction, AcksInFlight
  <2>6. QED
    BY <1>4, <2>3, <2>4, <2>5 DEF Direction
<1>8. QED
  BY <1>5, <1>6, <1>7 DEF PeerStep, ReceivingStep

(***************************************************************************)
(* The keys a receiver holds.                                              *)
(***************************************************************************)
LEMMA InstallKeepsEpochs ==
    ASSUME NEW r \in ReceivingTraffic, NEW t \in ReceivingTraffic, NEW message,
           EpochsKept(r), InstallsEpoch(r, t, message)
    PROVE  EpochsKept(t)
<1>1. r.current \in Nat /\ r.epochs \subseteq Nat
  BY DEF ReceivingTraffic
<1>2. QED
  BY SMT, <1>1 DEF EpochsKept, InstallsEpoch, FirstEpoch, HandshakeEpoch

LEMMA StepKeepsEpochs ==
    ASSUME TypeOK, TypeOK', NEW p \in Peer, PeerStep(p), EpochsKept(rx[p])
    PROVE  EpochsKept(rx'[p])
<1>1. rx[p] \in ReceivingTraffic /\ rx'[p] \in ReceivingTraffic
  BY DEF TypeOK
<1>2. CASE SameEpochs(rx[p], rx'[p])
  BY <1>2 DEF SameEpochs, EpochsKept
<1>3. ASSUME NEW message, InstallsEpoch(rx[p], rx'[p], message)
      PROVE  EpochsKept(rx'[p])
  BY <1>1, <1>3, InstallKeepsEpochs
<1>4. QED
  BY <1>2, <1>3 DEF PeerStep, ReceivingStep

LEMMA InitIInv == Init => IInv
<1> SUFFICES ASSUME Init PROVE IInv
  OBVIOUS
<1>1. TypeOK
  BY InitType
<1>2. ASSUME NEW p \in Peer PROVE Direction(p)
  <2>1. tx[p] = NewSendingTraffic /\ rx[Other(p)] = NewReceivingTraffic
    BY OtherPeer DEF Init
  <2>2. updates = {} /\ acks = {}
    BY DEF Init
  <2>3. QED
    BY SMTT(30), <2>1, <2>2 DEF Direction, Gate, Seen, RecordsCurrent,
       UpdatesInFlight, AcksInFlight, NewSendingTraffic, NewReceivingTraffic,
       NoSequence, FirstEpoch
<1>3. ASSUME NEW p \in Peer PROVE EpochsKept(rx[p])
  BY SMT DEF Init, EpochsKept, NewReceivingTraffic, FirstEpoch, HandshakeEpoch
<1>4. QED
  BY <1>1, <1>2, <1>3 DEF IInv

LEMMA LoseKeepsIInv ==
    ASSUME IInv, TypeOK', Lose
    PROVE  IInv'
<1>1. /\ tx' = tx /\ rx' = rx /\ updates' \subseteq updates /\ acks' \subseteq acks
  BY LoseStep DEF IInv
<1>2. ASSUME NEW p \in Peer PROVE Direction(p)'
  BY <1>1 DEF IInv, Direction, Gate, Seen, RecordsCurrent, UpdatesInFlight,
     AcksInFlight
<1>3. QED
  BY <1>1, <1>2 DEF IInv

LEMMA IInvStep ==
    ASSUME IInv, [Next]_vars
    PROVE  IInv'
<1>1. TypeOK /\ TypeOK'
  BY TypeStep DEF IInv
<1>2. ASSUME NEW p \in Peer, PeerStep(p) PROVE IInv'
  <2>1. Other(p) \in Peer /\ \A q \in Peer : q = p \/ q = Other(p)
    BY OtherPeer DEF Peer, Other
  <2>2. Direction(p)'
    BY <1>1, <1>2, SenderKeepsDirection DEF IInv
  <2>3. Direction(Other(p))'
    BY <1>1, <1>2, <2>1, ReceiverKeepsDirection DEF IInv
  <2>4. \A q \in Peer : Direction(q)'
    BY <2>1, <2>2, <2>3
  <2>5. EpochsKept(rx'[p]) /\ EpochsKept(rx'[Other(p)])
    BY <1>1, <1>2, <2>1, StepKeepsEpochs, OtherUnchanged DEF IInv
  <2>6. QED
    BY <1>1, <2>1, <2>4, <2>5 DEF IInv
<1>3. CASE UNCHANGED vars
  BY SMT, <1>1, <1>3 DEF vars, IInv, Direction, Gate, Seen, RecordsCurrent,
     UpdatesInFlight, AcksInFlight
<1>4. QED
  BY <1>1, <1>2, <1>3, NextStep, LoseKeepsIInv

LEMMA IInvHolds == Spec => []IInv
  BY InitIInv, IInvStep, PTL DEF Spec

\* New sending keys are used only once the peer has installed them, and the
\* peer is never more than the one outstanding KeyUpdate ahead, for every
\* limit and any number of updates, losses, duplicates and refused writes.
THEOREM AckGateHolds == Spec => []AckGated
<1>1. IInv => AckGated
  BY DEF IInv, Direction, Gate, AckGated
<1>2. QED
  BY <1>1, IInvHolds, PTL

LEMMA MaxOfSingleton ==
    ASSUME NEW e \in Nat PROVE Max({e}) = e
  BY SMTT(30) DEF Max

LEMMA SelectsSendingEpoch ==
    ASSUME NEW r \in ReceivingTraffic, EpochsKept(r), NEW e \in Nat,
           r.current = e \/ r.current = e + 1
    PROVE  SelectCipher(r, EpochBits(e)) = e
<1>1. CASE r.current = e
  BY <1>1 DEF SelectCipher
<1>2. CASE r.current = e + 1
  <2> DEFINE past == {x \in r.epochs : x < r.current /\ EpochBits(x) = EpochBits(e)}
  <2>1. EpochBits(e + 1) # EpochBits(e)
    BY SMTT(30) DEF EpochBits
  <2>2. past = {e}
    <3>1. e \in past
      BY SMT, <1>2 DEF EpochsKept
    <3>2. ASSUME NEW x \in past PROVE x = e
      <4>1. x \in {HandshakeEpoch, e, e + 1} /\ x < e + 1 /\ e >= 2
        BY SMT, <1>2 DEF EpochsKept, FirstEpoch
      <4>2. CASE x = HandshakeEpoch
        <5>1. e < 5
          BY SMTT(30), <1>2, <4>2 DEF EpochsKept
        <5>2. 2 % 4 = 2 /\ 3 % 4 = 3 /\ 4 % 4 = 0
          BY SMT
        <5>3. e \in {2, 3, 4} /\ EpochBits(e) = EpochBits(2)
          BY SMTT(30), <4>1, <4>2, <5>1 DEF HandshakeEpoch
        <5>4. QED
          BY <4>2, <5>2, <5>3 DEF EpochBits, HandshakeEpoch
      <4>3. QED
        BY SMTT(30), <4>1, <4>2
    <3>3. QED
      BY <3>1, <3>2
  <2>3. QED
    BY <1>2, <2>1, <2>2, MaxOfSingleton DEF SelectCipher
<1>3. QED
  BY <1>1, <1>2

\* A record sealed now by either end opens under the keys its peer selects by
\* the two epoch bits, however many KeyUpdates there have been.
THEOREM KeysHeldAlways == Spec => []KeysHeld
<1>1. IInv => KeysHeld
  <2> SUFFICES ASSUME IInv, NEW p \in Peer
               PROVE  SelectCipher(rx[Other(p)], EpochBits(tx[p].epoch)) = tx[p].epoch
    BY DEF KeysHeld
  <2>1. /\ rx[Other(p)] \in ReceivingTraffic /\ tx[p].epoch \in Nat
        /\ EpochsKept(rx[Other(p)])
    BY OtherPeer, TypeOfPeer, NumbersOfPeer DEF IInv
  <2>2. rx[Other(p)].current = tx[p].epoch \/ rx[Other(p)].current = tx[p].epoch + 1
    BY DEF IInv, Direction, Gate
  <2>3. QED
    BY <2>1, <2>2, SelectsSendingEpoch
<1>2. QED
  BY <1>1, IInvHolds, PTL

\* An end keeps the receive keys of the current and the previous epoch and,
\* before epoch 6, of the handshake, and no others (discardBefore).
THEOREM RetentionBounded == Spec => []RetainedEpochsBounded
<1>1. IInv => RetainedEpochsBounded
  BY DEF IInv, EpochsKept, RetainedEpochsBounded
<1>2. QED
  BY <1>1, IInvHolds, PTL

(***************************************************************************)
(* Each direction of KeyUpdate implements the Ratchet.                     *)
(***************************************************************************)
LEMMA InitRefines == Init => RatchetOfSender!Init
<1> SUFFICES ASSUME Init PROVE RatchetOfSender!Init
  OBVIOUS
<1>1. ASSUME NEW p \in Peer
      PROVE  tx[p].epoch = FirstEpoch /\ rx[Other(p)].current = FirstEpoch
  BY OtherPeer DEF Init, NewSendingTraffic, NewReceivingTraffic
<1>2. QED
  BY <1>1 DEF RatchetOfSender!Init

LEMMA StepRefines ==
    ASSUME IInv, [Next]_vars
    PROVE  [RatchetOfSender!Next]_<<[p \in Peer |-> tx[p].epoch],
                                    [p \in Peer |-> rx[Other(p)].current]>>
<1> DEFINE send == [p \in Peer |-> tx[p].epoch]
           recv == [p \in Peer |-> rx[Other(p)].current]
<1>1. ASSUME tx' = tx, rx' = rx PROVE UNCHANGED <<send, recv>>
  BY <1>1
<1>2. ASSUME NEW p \in Peer, PeerStep(p)
      PROVE  RatchetOfSender!Next \/ UNCHANGED <<send, recv>>
  <2> DEFINE q == Other(p)
  <2>1. /\ q \in Peer /\ q # p /\ Other(q) = p
        /\ \A x \in Peer : x = p \/ x = q
        /\ tx'[q] = tx[q] /\ rx'[q] = rx[q]
    BY <1>2, OtherPeer, OtherUnchanged DEF IInv, Peer, Other
  <2>2. CASE tx'[p].epoch = tx[p].epoch /\ rx'[p].current = rx[p].current
    BY <2>1, <2>2
  <2>3. CASE Acknowledged(p) /\ tx'[p].epoch = tx[p].epoch + 1
    <3>1. rx[q].current = tx[p].epoch + 1 /\ rx'[p].current = rx[p].current
      BY <2>3 DEF Acknowledged, SameEpochs, IInv, Direction, RecordsCurrent,
         AcksInFlight
    <3>2. recv' = recv
      BY <2>1, <3>1
    <3>3. send' = [send EXCEPT ![p] = @ + 1]
      BY <2>1, <2>3
    <3>4. recv[p] = send[p] + 1
      BY <3>1
    <3>5. QED
      BY <3>2, <3>3, <3>4 DEF RatchetOfSender!Next, RatchetOfSender!Switch
  <2>4. CASE /\ tx'[p].epoch = tx[p].epoch
             /\ \E m \in updates : m.from = q /\ InstallsEpoch(rx[p], rx'[p], m.message)
    <3>1. PICK m \in updates : m.from = q /\ InstallsEpoch(rx[p], rx'[p], m.message)
      BY <2>4
    <3>2. /\ tx[q].epoch \in Nat /\ rx[p].last \in Int /\ rx[p].current \in Nat
          /\ m.epoch \in Nat /\ m.message \in Nat /\ Direction(q)
          /\ tx[q].fragment \in Nat
      BY <2>1, <3>1, NumbersOfPeer DEF IInv
    <3>3. rx[p].current = tx[q].epoch
      <4>1. /\ m.epoch <= tx[q].epoch /\ m.message > rx[p].last
            /\ m.epoch = tx[q].epoch => m.message = tx[q].fragment
            /\ m.epoch < tx[q].epoch => m.message <= rx[p].last
            /\ rx[p].current = tx[q].epoch \/ rx[p].current = tx[q].epoch + 1
            /\ rx[p].current = tx[q].epoch + 1 => tx[q].fragment <= rx[p].last
        BY <2>1, <3>1, <3>2 DEF InstallsEpoch, Direction, UpdatesInFlight, Seen, Gate
      <4>2. QED
        BY SMTT(30), <3>2, <4>1
    <3>4. send' = send
      BY <2>1, <2>4
    <3>5. recv' = [recv EXCEPT ![q] = @ + 1]
      BY <2>1, <3>1 DEF InstallsEpoch
    <3>6. recv[q] = send[q]
      BY <2>1, <3>3
    <3>7. QED
      BY <2>1, <3>4, <3>5, <3>6 DEF RatchetOfSender!Next, RatchetOfSender!Install
  <2>5. \/ tx'[p].epoch = tx[p].epoch
        \/ Acknowledged(p) /\ tx'[p].epoch = tx[p].epoch + 1
    BY <1>2 DEF PeerStep, SendingStep, Keeps, Begins, Retransmits, Switches,
       SwitchesAndBegins
  <2>6. \/ rx'[p].current = rx[p].current
        \/ \E m \in updates : m.from = q /\ InstallsEpoch(rx[p], rx'[p], m.message)
    BY <1>2 DEF PeerStep, ReceivingStep, SameEpochs
  <2>7. QED
    BY <2>2, <2>3, <2>4, <2>5, <2>6
<1>3. TypeOK
  BY DEF IInv
<1>4. CASE Next
  BY <1>1, <1>2, <1>3, <1>4, NextStep, LoseStep
<1>5. CASE UNCHANGED vars
  BY <1>1, <1>5 DEF vars
<1>6. QED
  BY <1>4, <1>5

\* KeyUpdate implements Ratchet in each direction, for every limit: the
\* receiver installs the next epoch, once, before the sender switches to it,
\* and neither ever skips an epoch or goes back.
THEOREM Refinement == Spec => RefinesRatchet
<1>1. Init => RatchetOfSender!Init
  BY InitRefines
<1>2. IInv /\ [Next]_vars
        => [RatchetOfSender!Next]_<<[p \in Peer |-> tx[p].epoch],
                                    [p \in Peer |-> rx[Other(p)].current]>>
  BY StepRefines
<1>3. QED
  BY <1>1, <1>2, IInvHolds, PTL DEF Spec, RefinesRatchet, RatchetOfSender!Spec

-----------------------------------------------------------------------------
(***************************************************************************)
(* Record numbers.  A sender has used up the numbers below its counter;    *)
(* a step seals records under numbers that were not used up before it and  *)
(* are used up after it.                                                   *)
(***************************************************************************)
Used(m, s) == m.epoch < s.epoch \/ (m.epoch = s.epoch /\ m.sequence < s.next)

Advances(s, t) == s.epoch < t.epoch \/ (s.epoch = t.epoch /\ s.next <= t.next)

SameNumber(m, n) == m.epoch = n.epoch /\ m.sequence = n.sequence

SealingStep(p) ==
    /\ \A q \in Peer : q # p => tx'[q] = tx[q]
    /\ Advances(tx[p], tx'[p])
    /\ \A m \in Sealed' \ Sealed :
          m.from = p /\ ~Used(m, tx[p]) /\ Used(m, tx'[p])
    /\ \A m, n \in Sealed' \ Sealed : SameNumber(m, n) => m = n

NumbersUsed == \A m \in Sealed : Used(m, tx[m.from])

NumbersInv == NumbersUsed /\ NumbersUnique

LEMMA SealedType ==
    ASSUME TypeOK, NEW m \in Sealed
    PROVE  m.from \in Peer /\ m.epoch \in Nat /\ m.sequence \in Nat
  BY DEF TypeOK, Sealed

LEMMA CounterType ==
    ASSUME TypeOK, NEW p \in Peer
    PROVE  tx[p] \in SendingTraffic /\ tx[p].epoch \in Nat /\ tx[p].next \in Nat
  BY DEF TypeOK, SendingTraffic

\* The record that a cipher in state s seals next.
SealedBy(m, p, s) == m.from = p /\ m.epoch = s.epoch /\ m.sequence = s.next

LEMMA RecordsSealed ==
    ASSUME NEW p, NEW s, NEW m, NEW message, NEW request
    PROVE  /\ SealedBy(UpdateRecord(p, s, message, request), p, s)
           /\ SealedBy(AckRecord(p, s, m), p, s)
           /\ SealedBy([from |-> p, epoch |-> s.epoch, sequence |-> s.next], p, s)
  BY DEF SealedBy, UpdateRecord, AckRecord

LEMMA NothingSealed ==
    ASSUME TypeOK, NEW p \in Peer, NEW t, tx' = [tx EXCEPT ![p] = t],
           Advances(tx[p], t),
           updates' \subseteq updates, acks' \subseteq acks, alerts' \subseteq alerts
    PROVE  SealingStep(p)
<1>1. tx'[p] = t /\ \A q \in Peer : q # p => tx'[q] = tx[q]
  BY DEF TypeOK
<1>2. Sealed' \ Sealed = {}
  BY DEF Sealed
<1>3. QED
  BY <1>1, <1>2 DEF SealingStep

\* The cipher in state t is the one in state s after it has sealed.
After(s, t) ==
    /\ s.epoch \in Nat /\ s.next \in Nat /\ t.next \in Nat
    /\ t.epoch = s.epoch /\ s.next < t.next

LEMMA OneNumber ==
    ASSUME NEW p, NEW r, NEW s, NEW t, NEW m, r.epoch \in Nat, r.next \in Nat,
           Advances(r, s), After(s, t), SealedBy(m, p, s)
    PROVE  m.from = p /\ ~Used(m, r) /\ Used(m, t) /\ Advances(r, t)
  BY SMTT(30) DEF SealedBy, Used, Advances, After

\* One record is sealed by the cipher in state s, on the way from tx[p] to t.
LEMMA OneSealed ==
    ASSUME TypeOK, NEW p \in Peer, NEW s, NEW t, tx' = [tx EXCEPT ![p] = t],
           Advances(tx[p], s), After(s, t),
           NEW m, SealedBy(m, p, s), Sealed' \subseteq Sealed \cup {m}
    PROVE  SealingStep(p)
<1>1. tx'[p] = t /\ \A q \in Peer : q # p => tx'[q] = tx[q]
  BY DEF TypeOK
<1>2. m.from = p /\ ~Used(m, tx[p]) /\ Used(m, t) /\ Advances(tx[p], t)
  <2>1. SUFFICES ASSUME NEW r, r = tx[p]
                 PROVE  m.from = p /\ ~Used(m, r) /\ Used(m, t) /\ Advances(r, t)
    OBVIOUS
  <2>2. Advances(r, s) /\ r.epoch \in Nat /\ r.next \in Nat
    BY <2>1, CounterType
  <2>3. QED
    BY <2>2, OneNumber
<1>3. \A x \in Sealed' \ Sealed : x = m
  OBVIOUS
<1>4. QED
  BY <1>1, <1>2, <1>3 DEF SealingStep

\* m and n are records of p, not used by the cipher in state r and used in
\* state t, with different numbers.
FreshPair(p, r, t, m, n) ==
    /\ m.from = p /\ ~Used(m, r) /\ Used(m, t)
    /\ n.from = p /\ ~Used(n, r) /\ Used(n, t)
    /\ ~SameNumber(m, n) /\ ~SameNumber(n, m)

LEMMA TwoNumbers ==
    ASSUME NEW p, NEW r, NEW s, NEW t, NEW m, NEW n,
           After(r, s), After(s, t), SealedBy(m, p, r), SealedBy(n, p, s)
    PROVE  FreshPair(p, r, t, m, n)
<1>1. /\ m.from = p /\ m.epoch = r.epoch /\ m.sequence = r.next
      /\ n.from = p /\ n.epoch = s.epoch /\ n.sequence = s.next
  BY DEF SealedBy
<1>. USE DEF After
<1>2. ~(r.epoch < r.epoch) /\ ~(r.next < r.next) /\ ~(s.next < r.next)
  BY SMTT(30)
<1>3. r.next < t.next
  BY SMTT(30)
<1>4. ~Used(m, r) /\ ~Used(n, r)
  BY <1>1, <1>2 DEF Used
<1>5. Used(m, t) /\ Used(n, t)
  BY <1>1, <1>3 DEF Used
<1>6. m.sequence # n.sequence
  BY <1>1, SMTT(30)
<1>7. QED
  BY <1>1, <1>4, <1>5, <1>6 DEF SameNumber, FreshPair

\* Two records are sealed, by the cipher in states tx[p] and then s.
LEMMA TwoSealed ==
    ASSUME TypeOK, NEW p \in Peer, NEW s, NEW t, tx' = [tx EXCEPT ![p] = t],
           After(tx[p], s), After(s, t),
           NEW m, SealedBy(m, p, tx[p]), NEW n, SealedBy(n, p, s),
           Sealed' \subseteq Sealed \cup {m, n}
    PROVE  SealingStep(p)
<1>1. tx'[p] = t /\ \A q \in Peer : q # p => tx'[q] = tx[q]
  BY DEF TypeOK
<1>2. Advances(tx[p], t)
  <2>1. tx[p].epoch = t.epoch /\ tx[p].next <= t.next
    BY SMTT(30) DEF After
  <2>2. QED
    BY <2>1 DEF Advances
<1>3. /\ m.from = p /\ ~Used(m, tx[p]) /\ Used(m, t)
      /\ n.from = p /\ ~Used(n, tx[p]) /\ Used(n, t)
      /\ ~SameNumber(m, n) /\ ~SameNumber(n, m)
  <2>1. FreshPair(p, tx[p], t, m, n)
    BY TwoNumbers
  <2>2. QED
    BY <2>1 DEF FreshPair
<1>4. \A x \in Sealed' \ Sealed : x = m \/ x = n
  OBVIOUS
<1>5. \A x, y \in Sealed' \ Sealed : SameNumber(x, y) => x = y
  BY <1>3, <1>4
<1>6. QED
  BY <1>1, <1>2, <1>3, <1>4, <1>5 DEF SealingStep

(***************************************************************************)
(* Every action is such a step.                                            *)
(***************************************************************************)
\* What Seal, BeginKeyUpdate and SwitchEpoch do to the counter.
LEMMA Counters ==
    ASSUME NEW s \in SendingTraffic
    PROVE  /\ Advances(s, s) /\ Advances(s, Seal(s)) /\ Advances(s, SwitchEpoch(s))
           /\ Seal(s) \in SendingTraffic /\ SwitchEpoch(s) \in SendingTraffic
           /\ After(s, Seal(s)) /\ After(s, RetransmitKeyUpdate(s))
           /\ \A request \in BOOLEAN : After(s, BeginKeyUpdate(s, request))
<1>1. s.epoch \in Nat /\ s.next \in Nat
  BY DEF SendingTraffic
<1>2. QED
  BY <1>1, SealType, BeginType, RetransmitType, SwitchType, SMTT(30) DEF Advances,
     After

LEMMA AfterAdvances ==
    ASSUME NEW s, NEW t, After(s, t)
    PROVE  Advances(s, t)
  BY SMTT(30) DEF After, Advances

\* A KeyUpdate is begun and written by the cipher in state s.
LEMMA UpdateSeals ==
    ASSUME TypeOK, NEW p \in Peer, NEW s \in SendingTraffic, Advances(tx[p], s),
           NEW request \in BOOLEAN, NEW message,
           tx' = [tx EXCEPT ![p] = BeginKeyUpdate(s, request)],
           updates' = updates \cup {UpdateRecord(p, s, message, request)},
           acks' = acks, alerts' = alerts
    PROVE  SealingStep(p)
<1>1. Sealed' \subseteq Sealed \cup {UpdateRecord(p, s, message, request)}
  BY DEF Sealed
<1>2. After(s, BeginKeyUpdate(s, request))
  BY Counters
<1>3. SealedBy(UpdateRecord(p, s, message, request), p, s)
  BY RecordsSealed
<1>4. QED
  BY <1>1, <1>2, <1>3, OneSealed

\* A fatal alert is written by the cipher in state s, or there is no room.
LEMMA AlertSeals ==
    ASSUME TypeOK, NEW p \in Peer, NEW s \in SendingTraffic, Advances(tx[p], s),
           SendFatalAlert(p, s), updates' = updates, acks' = acks
    PROVE  SealingStep(p)
<1> DEFINE m == [from |-> p, epoch |-> s.epoch, sequence |-> s.next]
<1>1. CASE CanSeal(s)
  <2>1. alerts' = alerts \cup {m} /\ tx' = [tx EXCEPT ![p] = Seal(s)]
    BY <1>1 DEF SendFatalAlert
  <2>2. SealedBy(m, p, s) /\ After(s, Seal(s))
    BY RecordsSealed, Counters
  <2> HIDE DEF m
  <2>3. Sealed' \subseteq Sealed \cup {m}
    BY <2>1 DEF Sealed
  <2>4. QED
    BY <2>1, <2>2, <2>3, OneSealed
<1>2. CASE ~CanSeal(s)
  BY <1>2, NothingSealed DEF SendFatalAlert
<1>3. QED
  BY <1>1, <1>2

\* The steps that put no record into the network.
LEMMA QuietSeals ==
    ASSUME TypeOK, NEW p \in Peer,
           UNCHANGED <<updates, acks, alerts>>,
           \/ UNCHANGED tx
           \/ \E request \in BOOLEAN : SendKeyUpdateWriteError(p, request)
           \/ WriteDatagramWriteError(p) \/ WriteDatagramUpdateWriteError(p)
    PROVE  SealingStep(p)
<1>1. \E t : tx' = [tx EXCEPT ![p] = t] /\ Advances(tx[p], t)
  <2>1. tx[p] \in SendingTraffic /\ Seal(tx[p]) \in SendingTraffic
    BY CounterType, SealType
  <2>2. CASE UNCHANGED tx
    <3>1. tx' = [tx EXCEPT ![p] = tx[p]]
      BY <2>2 DEF TypeOK
    <3>2. QED
      BY <2>1, <3>1, Counters
  <2>3. CASE \E request \in BOOLEAN : SendKeyUpdateWriteError(p, request)
    BY <2>1, <2>3, Counters, AfterAdvances DEF SendKeyUpdateWriteError
  <2>4. CASE WriteDatagramWriteError(p)
    BY <2>1, <2>4, Counters DEF WriteDatagramWriteError
  <2>5. CASE WriteDatagramUpdateWriteError(p)
    <3> DEFINE s == Seal(tx[p])
               t == BeginKeyUpdate(s, FALSE)
    <3>1. tx' = [tx EXCEPT ![p] = t]
      BY <2>5 DEF WriteDatagramUpdateWriteError
    <3>2. After(tx[p], s) /\ After(s, t)
      BY <2>1, Counters
    <3> HIDE DEF s, t
    <3>3. Advances(tx[p], t)
      BY <3>2, SMTT(30) DEF After, Advances
    <3>4. QED
      BY <3>1, <3>3
  <2>6. QED
    BY <2>2, <2>3, <2>4, <2>5
<1>2. updates' \subseteq updates /\ acks' \subseteq acks /\ alerts' \subseteq alerts
  OBVIOUS
<1>3. QED
  BY <1>1, <1>2, NothingSealed

LEMMA BeginAndSendSeals ==
    ASSUME TypeOK, NEW p \in Peer, NEW request \in BOOLEAN, BeginAndSend(p, request)
    PROVE  SealingStep(p)
<1>1. tx[p] \in SendingTraffic /\ Advances(tx[p], tx[p])
  BY CounterType, Counters
<1>2. QED
  BY <1>1, UpdateSeals DEF BeginAndSend

LEMMA WriteDatagramSeals ==
    ASSUME TypeOK, NEW p \in Peer, WriteDatagram(p)
    PROVE  SealingStep(p)
<1> DEFINE s == Seal(tx[p])
<1>1. s \in SendingTraffic /\ Advances(tx[p], s)
  BY CounterType, Counters
<1>2. CASE NearLimit(s) /\ BeginSucceeds(s)
  <2>1. /\ tx' = [tx EXCEPT ![p] = BeginKeyUpdate(s, FALSE)]
        /\ updates' = updates \cup {UpdateRecord(p, s, s.message, FALSE)}
        /\ acks' = acks /\ alerts' = alerts
    BY <1>2 DEF WriteDatagram
  <2> HIDE DEF s
  <2>2. QED
    BY <1>1, <2>1, UpdateSeals
<1>3. CASE ~(NearLimit(s) /\ BeginSucceeds(s))
  BY <1>1, <1>3, NothingSealed DEF WriteDatagram
<1>4. QED
  BY <1>2, <1>3

LEMMA TimerRetransmitsSeals ==
    ASSUME TypeOK, NEW p \in Peer, TimerRetransmits(p)
    PROVE  SealingStep(p)
<1> DEFINE m == UpdateRecord(p, tx[p], tx[p].fragment, tx[p].request)
<1>1. tx[p] \in SendingTraffic /\ Advances(tx[p], tx[p])
      /\ After(tx[p], RetransmitKeyUpdate(tx[p]))
  BY CounterType, Counters
<1>2. SealedBy(m, p, tx[p])
  BY RecordsSealed
<1>3. /\ tx' = [tx EXCEPT ![p] = RetransmitKeyUpdate(tx[p])]
      /\ updates' = updates \cup {m} /\ acks' = acks /\ alerts' = alerts
  BY DEF TimerRetransmits
<1> HIDE DEF m
<1>4. Sealed' \subseteq Sealed \cup {m}
  BY <1>3 DEF Sealed
<1>5. QED
  BY <1>1, <1>2, <1>3, <1>4, OneSealed

LEMMA FatalSeals ==
    ASSUME TypeOK, NEW p \in Peer,
           RequestKeyUpdateFails(p) \/ \E a \in acks : RejectACK(p, a)
    PROVE  SealingStep(p)
<1>1. tx[p] \in SendingTraffic /\ Advances(tx[p], tx[p])
  BY CounterType, Counters
<1>2. SendFatalAlert(p, tx[p]) /\ updates' = updates /\ acks' = acks
  BY DEF RequestKeyUpdateFails, RejectACK
<1>3. QED
  BY <1>1, <1>2, AlertSeals

\* An answer is sealed after the ACK.
LEMMA ReceiveKeyUpdateSeals ==
    ASSUME TypeOK, NEW p \in Peer, NEW m \in updates, ReceiveKeyUpdate(p, m)
    PROVE  SealingStep(p)
<1> DEFINE s == Seal(tx[p])
           a == AckRecord(p, tx[p], m)
           u == UpdateRecord(p, s, s.message, FALSE)
           f == [from |-> p, epoch |-> s.epoch, sequence |-> s.next]
<1>1. /\ tx[p] \in SendingTraffic /\ Advances(tx[p], tx[p]) /\ After(tx[p], s)
      /\ s \in SendingTraffic /\ After(s, Seal(s)) /\ After(s, BeginKeyUpdate(s, FALSE))
  BY CounterType, Counters
<1>2. SealedBy(a, p, tx[p]) /\ SealedBy(u, p, s) /\ SealedBy(f, p, s)
  BY RecordsSealed
<1>3. acks' = acks \cup {a}
  BY DEF ReceiveKeyUpdate
<1>4. \/ tx' = [tx EXCEPT ![p] = s] /\ updates' = updates /\ alerts' = alerts
      \/ /\ tx' = [tx EXCEPT ![p] = BeginKeyUpdate(s, FALSE)]
         /\ updates' = updates \cup {u} /\ alerts' = alerts
      \/ SendFatalAlert(p, s) /\ updates' = updates
  BY DEF ReceiveKeyUpdate
<1>5. CASE tx' = [tx EXCEPT ![p] = s] /\ updates' = updates /\ alerts' = alerts
  <2> HIDE DEF a, s
  <2>1. Sealed' \subseteq Sealed \cup {a}
    BY <1>3, <1>5 DEF Sealed
  <2>2. QED
    BY <1>1, <1>2, <1>5, <2>1, OneSealed
<1>6. CASE /\ tx' = [tx EXCEPT ![p] = BeginKeyUpdate(s, FALSE)]
           /\ updates' = updates \cup {u} /\ alerts' = alerts
  <2> HIDE DEF a, s, u
  <2>1. Sealed' \subseteq Sealed \cup {a, u}
    BY <1>3, <1>6 DEF Sealed
  <2>2. QED
    BY <1>1, <1>2, <1>6, <2>1, TwoSealed
<1>7. CASE SendFatalAlert(p, s) /\ updates' = updates
  <2>1. CASE CanSeal(s)
    <3>1. alerts' = alerts \cup {f} /\ tx' = [tx EXCEPT ![p] = Seal(s)]
      BY <1>7, <2>1 DEF SendFatalAlert
    <3> HIDE DEF a, s, f
    <3>2. Sealed' \subseteq Sealed \cup {a, f}
      BY <1>3, <1>7, <3>1 DEF Sealed
    <3>3. QED
      BY <1>1, <1>2, <3>1, <3>2, TwoSealed
  <2>2. CASE ~CanSeal(s)
    <3>1. alerts' = alerts /\ tx' = [tx EXCEPT ![p] = s]
      BY <1>7, <2>2 DEF SendFatalAlert
    <3>2. QED
      BY <1>5, <1>7, <3>1
  <2>3. QED
    BY <2>1, <2>2
<1>8. QED
  BY <1>4, <1>5, <1>6, <1>7

\* The deferred answer, sealed in the new epoch.
LEMMA ReceiveACKSeals ==
    ASSUME TypeOK, NEW p \in Peer, NEW a \in acks, ReceiveACK(p, a)
    PROVE  SealingStep(p)
<1>1. PICK s : s = IF AckCompletes(tx[p], a.number) THEN SwitchEpoch(tx[p]) ELSE tx[p]
  OBVIOUS
<1>2. s \in SendingTraffic /\ Advances(tx[p], s)
  BY <1>1, CounterType, Counters
<1>3. acks' = acks
  BY DEF ReceiveACK
<1>4. \/ tx' = [tx EXCEPT ![p] = s] /\ updates' = updates /\ alerts' = alerts
      \/ /\ tx' = [tx EXCEPT ![p] = BeginKeyUpdate(s, FALSE)]
         /\ updates' = updates \cup {UpdateRecord(p, s, s.message, FALSE)}
         /\ alerts' = alerts
      \/ SendFatalAlert(p, s) /\ updates' = updates
  BY <1>1 DEF ReceiveACK, ApplyACK
<1>5. CASE tx' = [tx EXCEPT ![p] = s] /\ updates' = updates /\ alerts' = alerts
  BY <1>2, <1>3, <1>5, NothingSealed
<1>6. CASE /\ tx' = [tx EXCEPT ![p] = BeginKeyUpdate(s, FALSE)]
           /\ updates' = updates \cup {UpdateRecord(p, s, s.message, FALSE)}
           /\ alerts' = alerts
  BY <1>2, <1>3, <1>6, UpdateSeals
<1>7. CASE SendFatalAlert(p, s) /\ updates' = updates
  BY <1>2, <1>3, <1>7, AlertSeals
<1>8. QED
  BY <1>4, <1>5, <1>6, <1>7

LEMMA MoveSeals ==
    ASSUME TypeOK, NEW p \in Peer, Moves(p)
    PROVE  SealingStep(p)
<1>1. ASSUME NEW request \in BOOLEAN, SendKeyUpdate(p, request)
      PROVE  SealingStep(p)
  BY <1>1, BeginAndSendSeals DEF SendKeyUpdate
<1>2. ASSUME NEW request \in BOOLEAN, SendKeyUpdateWriteError(p, request)
      PROVE  SealingStep(p)
  <2>1. UNCHANGED <<updates, acks, alerts>>
    BY <1>2 DEF SendKeyUpdateWriteError
  <2>2. QED
    BY <1>2, <2>1, QuietSeals
<1>3. CASE RequestKeyUpdateAfterAuthFailures(p)
  BY <1>3, BeginAndSendSeals DEF RequestKeyUpdateAfterAuthFailures
<1>4. CASE RequestKeyUpdateFails(p)
  BY <1>4, FatalSeals
<1>5. CASE WriteDatagram(p)
  BY <1>5, WriteDatagramSeals
<1>6. CASE WriteDatagramWriteError(p)
  <2>1. UNCHANGED <<updates, acks, alerts>>
    BY <1>6 DEF WriteDatagramWriteError
  <2>2. QED
    BY <1>6, <2>1, QuietSeals
<1>7. CASE WriteDatagramUpdateWriteError(p)
  <2>1. UNCHANGED <<updates, acks, alerts>>
    BY <1>7 DEF WriteDatagramUpdateWriteError
  <2>2. QED
    BY <1>7, <2>1, QuietSeals
<1>8. CASE TimerRetransmits(p)
  BY <1>8, TimerRetransmitsSeals
<1>9. ASSUME NEW m \in updates, ReceiveKeyUpdate(p, m) PROVE SealingStep(p)
  BY <1>9, ReceiveKeyUpdateSeals
<1>10. ASSUME NEW a \in acks, ReceiveACK(p, a) PROVE SealingStep(p)
  BY <1>10, ReceiveACKSeals
<1>11. ASSUME NEW a \in acks, RejectACK(p, a) PROVE SealingStep(p)
  BY <1>11, FatalSeals
<1>12. ASSUME \/ TimerStops(p) \/ TimerFails(p) \/ TransportError(p)
              \/ \E m \in updates : ReceiveKeyUpdateCannotAck(p, m)
              \/ \E m \in alerts : ReceiveAlert(p, m)
       PROVE  SealingStep(p)
  <2>1. UNCHANGED <<updates, acks, alerts>> /\ UNCHANGED tx
    BY <1>12 DEF TimerStops, TimerFails, TransportError, ReceiveKeyUpdateCannotAck,
       ReceiveAlert
  <2>2. QED
    BY <2>1, QuietSeals
<1>13. QED
  BY ZenonT(30), <1>1, <1>2, <1>3, <1>4, <1>5, <1>6, <1>7, <1>8, <1>9, <1>10, <1>11,
     <1>12, ZenonT(60) DEF Moves, TimerWakes, ReceiveAny

LEMMA NextSeals ==
    ASSUME TypeOK, [Next]_vars
    PROVE  (\E p \in Peer : SealingStep(p)) \/ (tx' = tx /\ Sealed' \subseteq Sealed)
<1>1. CASE UNCHANGED vars
  BY <1>1 DEF vars, Sealed
<1>2. CASE Lose
  BY <1>2 DEF Lose, Sealed
<1>3. QED
  BY <1>1, <1>2, NextMoves, MoveSeals

LEMMA UsedAdvances ==
    ASSUME NEW m, NEW s, NEW t, m.epoch \in Nat, m.sequence \in Nat,
           s.epoch \in Nat, s.next \in Nat, t.epoch \in Nat, t.next \in Nat,
           Used(m, s), Advances(s, t)
    PROVE  Used(m, t)
  BY SMTT(30) DEF Used, Advances

LEMMA NumbersStep ==
    ASSUME TypeOK, TypeOK', NumbersInv, [Next]_vars
    PROVE  NumbersInv'
<1>1. CASE tx' = tx /\ Sealed' \subseteq Sealed
  BY <1>1 DEF NumbersInv, NumbersUsed, NumbersUnique
<1>2. ASSUME NEW p \in Peer, SealingStep(p)
      PROVE  NumbersInv'
  <2>1. ASSUME NEW m \in Sealed PROVE Used(m, tx'[m.from])
    <3>1. m.from \in Peer /\ m.epoch \in Nat /\ m.sequence \in Nat
      BY SealedType
    <3>2. Used(m, tx[m.from])
      BY DEF NumbersInv, NumbersUsed
    <3>3. CASE m.from # p
      BY <1>2, <3>1, <3>2, <3>3 DEF SealingStep
    <3>4. CASE m.from = p
      <4>1. tx[p].epoch \in Nat /\ tx[p].next \in Nat
        BY CounterType
      <4>2. tx'[p].epoch \in Nat /\ tx'[p].next \in Nat
        BY DEF TypeOK, SendingTraffic
      <4>3. Advances(tx[p], tx'[p])
        BY <1>2 DEF SealingStep
      <4>4. QED
        BY <3>1, <3>2, <3>4, <4>1, <4>2, <4>3, UsedAdvances
    <3>5. QED
      BY <3>3, <3>4
  <2>2. \A m \in Sealed' \ Sealed : /\ m.from = p /\ ~Used(m, tx[m.from])
                                    /\ Used(m, tx'[m.from])
    BY <1>2 DEF SealingStep
  <2>3. \A m \in Sealed' : Used(m, tx'[m.from])
    BY <2>1, <2>2
  <2>4. ASSUME NEW m \in Sealed', NEW n \in Sealed', m.from = n.from,
               Number(m.epoch, m.sequence) = Number(n.epoch, n.sequence)
        PROVE  m = n
    <3>1. SameNumber(m, n) /\ SameNumber(n, m)
      BY <2>4 DEF SameNumber, Number
    <3>2. CASE m \in Sealed /\ n \in Sealed
      BY <2>4, <3>2 DEF NumbersInv, NumbersUnique
    <3>3. CASE m \notin Sealed /\ n \notin Sealed
      BY <1>2, <3>1, <3>3 DEF SealingStep
    <3>4. Used(m, tx[m.from]) <=> Used(n, tx[n.from])
      BY <2>4, <3>1 DEF SameNumber, Used
    <3>5. \A x \in Sealed : Used(x, tx[x.from])
      BY DEF NumbersInv, NumbersUsed
    <3>6. QED
      BY <2>2, <3>2, <3>3, <3>4, <3>5
  <2>5. QED
    BY <2>3, <2>4 DEF NumbersInv, NumbersUsed, NumbersUnique
<1>3. QED
  BY <1>1, <1>2, NextSeals

LEMMA NumbersInit == Init => NumbersInv
  BY DEF Init, NumbersInv, NumbersUsed, NumbersUnique, Sealed

\* The two ends never use a record number twice (recordCipher.seal): what has
\* been sealed lies below the counter of its sender, which only advances.
THEOREM NumbersAreUnique == Spec => []NumbersUnique
<1>1. TypeOK /\ TypeOK' /\ NumbersInv /\ [Next]_vars => NumbersInv'
  BY NumbersStep
<1>2. NumbersInv => NumbersUnique
  BY DEF NumbersInv
<1>3. QED
  BY <1>1, <1>2, NumbersInit, TypeCorrect, PTL DEF Spec

(***************************************************************************)
(* Failures.  An end that has failed did so for a reason of its own, or    *)
(* was told by an alert of the other, which had one.                       *)
(***************************************************************************)
OutOfRoom(s) ==
    \/ s.next >= RecordLimit
    \/ CanBeginKeyUpdate(s) /\ ~CanAllocateMessageSequences(s)

RefusedACK(p) ==
    \E a \in acks : /\ a.from = Other(p)
                    /\ a.epoch < a.number.epoch
                    /\ Number(a.epoch, a.sequence) \in rx[p].opened

Cause(p) == writeErrors > 0 \/ RefusedACK(p) \/ OutOfRoom(tx[p])

Explained(p) == ~Open(p) /\ Cause(p)

FailInv ==
    /\ \A m \in alerts : ~Open(m.from)
    /\ \A p \in Peer : ~Open(p) => Explained(p) \/ Explained(Other(p))

\* What a step of p may do to the status of either end.
FailingStep(p) ==
    /\ Open(p)
    /\ \A q \in Peer : q # p => status'[q] = status[q]
    /\ writeErrors' >= writeErrors
    /\ acks \subseteq acks'
    /\ \/ status'[p] = "open" /\ alerts' = alerts
       \/ /\ status'[p] = "failed"
          /\ \A m \in alerts' : m \in alerts \/ m.from = p
          /\ Cause(p)' \/ \E m \in alerts : m.from = Other(p)

\* An update that could be begun but was not, and the alert that says so.
LEMMA AlertCause ==
    ASSUME TypeOK, NEW p \in Peer, NEW s \in SendingTraffic, CanBeginKeyUpdate(s),
           ~BeginSucceeds(s), SendFatalAlert(p, s)
    PROVE  OutOfRoom(tx'[p]) /\ \A m \in alerts' : m \in alerts \/ m.from = p
<1>1. CASE CanSeal(s)
  <2>1. tx'[p] = Seal(s)
    BY <1>1 DEF SendFatalAlert, TypeOK
  <2>2. ~CanAllocateMessageSequences(s)
    BY <1>1 DEF BeginSucceeds
  <2>3. CanBeginKeyUpdate(Seal(s)) /\ ~CanAllocateMessageSequences(Seal(s))
    BY <2>2, SealType DEF CanBeginKeyUpdate, CanAllocateMessageSequences
  <2>4. \A m \in alerts' : m \in alerts \/ m.from = p
    BY <1>1, SMTT(30) DEF SendFatalAlert
  <2>5. QED
    BY <2>1, <2>3, <2>4 DEF OutOfRoom
<1>2. CASE ~CanSeal(s)
  <2>1. tx'[p] = s /\ alerts' = alerts
    BY <1>2 DEF SendFatalAlert, TypeOK
  <2>2. s.next >= RecordLimit
    BY <1>2, LimitsAreNat, SMTT(30) DEF CanSeal, SendingTraffic
  <2>3. QED
    BY <2>1, <2>2 DEF OutOfRoom
<1>3. QED
  BY <1>1, <1>2

LEMMA FailFrame ==
    ASSUME TypeOK, NEW p \in Peer, FailConnection(p)
    PROVE  status'[p] = "failed" /\ \A q \in Peer : q # p => status'[q] = status[q]
  BY DEF FailConnection, TypeOK

\* The steps that leave the status alone.
LEMMA QuietFails ==
    ASSUME TypeOK, NEW p \in Peer, Open(p), UNCHANGED <<status, alerts>>,
           writeErrors' = writeErrors \/ writeErrors' = writeErrors + 1, acks \subseteq acks'
    PROVE  FailingStep(p)
<1>1. writeErrors' >= writeErrors
  BY SMTT(30) DEF TypeOK
<1>2. QED
  BY <1>1 DEF FailingStep, Open

LEMMA SendersFail ==
    ASSUME TypeOK, NEW p \in Peer,
           \/ \E request \in BOOLEAN : \/ BeginAndSend(p, request)
                                       \/ SendKeyUpdateWriteError(p, request)
           \/ WriteDatagram(p) \/ WriteDatagramWriteError(p)
           \/ WriteDatagramUpdateWriteError(p)
           \/ TimerStops(p) \/ TimerRetransmits(p)
    PROVE  FailingStep(p)
<1>1. /\ Open(p) /\ status' = status /\ alerts' = alerts
      /\ writeErrors' = writeErrors \/ writeErrors' = writeErrors + 1
      /\ acks' = acks
  BY DEF BeginAndSend, SendKeyUpdateWriteError, WriteDatagram,
     WriteDatagramWriteError, WriteDatagramUpdateWriteError, TimerStops,
     TimerRetransmits
<1>2. QED
  BY <1>1, QuietFails

LEMMA TimerFailsFails ==
    ASSUME TypeOK, NEW p \in Peer,
           TimerFails(p) \/ \E m \in updates : ReceiveKeyUpdateCannotAck(p, m)
    PROVE  FailingStep(p)
<1>1. /\ Open(p) /\ FailConnection(p) /\ ~CanSeal(tx[p]) /\ tx' = tx
      /\ acks' = acks /\ alerts' = alerts /\ writeErrors' = writeErrors
  BY DEF TimerFails, ReceiveKeyUpdateCannotAck
<1>2. tx[p].next >= RecordLimit
  BY <1>1, CounterType, LimitsAreNat, SMTT(30) DEF CanSeal
<1>3. Cause(p)'
  BY <1>1, <1>2 DEF Cause, OutOfRoom
<1>4. writeErrors' >= writeErrors
  BY <1>1, SMTT(30) DEF TypeOK
<1>5. QED
  BY <1>1, <1>3, <1>4, FailFrame DEF FailingStep

LEMMA TransportErrorFails ==
    ASSUME TypeOK, NEW p \in Peer, TransportError(p)
    PROVE  FailingStep(p)
<1>1. /\ Open(p) /\ FailConnection(p) /\ acks' = acks /\ alerts' = alerts
      /\ writeErrors' = writeErrors + 1
  BY DEF TransportError
<1>2. writeErrors' >= writeErrors /\ writeErrors' > 0
  BY <1>1, SMTT(30) DEF TypeOK
<1>3. Cause(p)'
  BY <1>2 DEF Cause
<1>4. QED
  BY <1>1, <1>2, <1>3, FailFrame DEF FailingStep

LEMMA ReceiveAlertFails ==
    ASSUME TypeOK, NEW p \in Peer, NEW m \in alerts, ReceiveAlert(p, m)
    PROVE  FailingStep(p)
<1>1. /\ Open(p) /\ FailConnection(p) /\ acks' = acks /\ alerts' = alerts
      /\ writeErrors' = writeErrors /\ m.from = Other(p)
  BY DEF ReceiveAlert
<1>2. writeErrors' >= writeErrors
  BY <1>1, SMTT(30) DEF TypeOK
<1>3. QED
  BY <1>1, <1>2, FailFrame DEF FailingStep

LEMMA RequestFails ==
    ASSUME TypeOK, NEW p \in Peer, RequestKeyUpdateFails(p)
    PROVE  FailingStep(p)
<1>1. /\ Open(p) /\ FailConnection(p) /\ acks' = acks /\ writeErrors' = writeErrors
      /\ CanBeginKeyUpdate(tx[p]) /\ ~BeginSucceeds(tx[p]) /\ SendFatalAlert(p, tx[p])
  BY DEF RequestKeyUpdateFails
<1>2. writeErrors' >= writeErrors
  BY <1>1, SMTT(30) DEF TypeOK
<1>3. OutOfRoom(tx'[p]) /\ \A m \in alerts' : m \in alerts \/ m.from = p
  BY <1>1, AlertCause, CounterType
<1>4. Cause(p)'
  BY <1>3 DEF Cause
<1>5. QED
  BY <1>1, <1>2, <1>3, <1>4, FailFrame DEF FailingStep

LEMMA RejectFails ==
    ASSUME TypeOK, NEW p \in Peer, NEW a \in acks, RejectACK(p, a)
    PROVE  FailingStep(p)
<1>1. /\ Open(p) /\ FailConnection(p) /\ acks' = acks /\ writeErrors' = writeErrors
      /\ a.from = Other(p) /\ ~ValidACKEpoch(a) /\ SendFatalAlert(p, tx[p])
      /\ rx' = [rx EXCEPT ![p] = Opened(@, a)]
  BY DEF RejectACK
<1>2. writeErrors' >= writeErrors
  BY <1>1, SMTT(30) DEF TypeOK
<1>3. a.epoch < a.number.epoch
  <2>1. a.epoch \in Nat /\ a.number.epoch \in Nat
    BY DEF TypeOK, RecordNumber
  <2>2. QED
    BY <1>1, <2>1, SMTT(30) DEF ValidACKEpoch
<1>4. Number(a.epoch, a.sequence) \in rx'[p].opened
  BY <1>1 DEF TypeOK, ReceivingTraffic, Opened
<1>5. RefusedACK(p)'
  BY <1>1, <1>3, <1>4 DEF RefusedACK
<1>6. Cause(p)'
  BY <1>5 DEF Cause
<1>7. \A m \in alerts' : m \in alerts \/ m.from = p
  BY <1>1, SMTT(30) DEF SendFatalAlert
<1>8. QED
  BY <1>1, <1>2, <1>6, <1>7, FailFrame DEF FailingStep

LEMMA ReceiveKeyUpdateFails ==
    ASSUME TypeOK, NEW p \in Peer, NEW m \in updates, ReceiveKeyUpdate(p, m)
    PROVE  FailingStep(p)
<1>1. PICK s : s = Seal(tx[p])
  OBVIOUS
<1>2. s \in SendingTraffic
  BY <1>1, CounterType, SealType
<1>3. Open(p) /\ acks' = acks \cup {AckRecord(p, tx[p], m)} /\ writeErrors' = writeErrors
  BY DEF ReceiveKeyUpdate
<1>4. writeErrors' >= writeErrors /\ acks \subseteq acks'
  BY <1>3, SMTT(30) DEF TypeOK
<1>5. \/ status' = status /\ alerts' = alerts
      \/ /\ CanBeginKeyUpdate(s) /\ ~BeginSucceeds(s) /\ SendFatalAlert(p, s)
         /\ FailConnection(p)
  BY <1>1 DEF ReceiveKeyUpdate
<1>6. CASE status' = status /\ alerts' = alerts
  BY <1>3, <1>4, <1>6, QuietFails
<1>7. CASE /\ CanBeginKeyUpdate(s) /\ ~BeginSucceeds(s) /\ SendFatalAlert(p, s)
           /\ FailConnection(p)
  <2>1. OutOfRoom(tx'[p]) /\ \A x \in alerts' : x \in alerts \/ x.from = p
    BY <1>2, <1>7, AlertCause
  <2>2. Cause(p)'
    BY <2>1 DEF Cause
  <2>3. QED
    BY <1>3, <1>4, <1>7, <2>1, <2>2, FailFrame DEF FailingStep
<1>8. QED
  BY <1>5, <1>6, <1>7

LEMMA ReceiveACKFails ==
    ASSUME TypeOK, NEW p \in Peer, NEW a \in acks, ReceiveACK(p, a)
    PROVE  FailingStep(p)
<1>1. PICK s : s = IF AckCompletes(tx[p], a.number) THEN SwitchEpoch(tx[p]) ELSE tx[p]
  OBVIOUS
<1>2. s \in SendingTraffic
  BY <1>1, CounterType, SwitchType
<1>3. Open(p) /\ acks' = acks /\ writeErrors' = writeErrors
  BY DEF ReceiveACK
<1>4. writeErrors' >= writeErrors /\ acks \subseteq acks'
  BY <1>3, SMTT(30) DEF TypeOK
<1>5. \/ status' = status /\ alerts' = alerts
      \/ /\ CanBeginKeyUpdate(s) /\ ~BeginSucceeds(s) /\ SendFatalAlert(p, s)
         /\ FailConnection(p)
  BY <1>1 DEF ReceiveACK, ApplyACK
<1>6. CASE status' = status /\ alerts' = alerts
  BY <1>3, <1>4, <1>6, QuietFails
<1>7. CASE /\ CanBeginKeyUpdate(s) /\ ~BeginSucceeds(s) /\ SendFatalAlert(p, s)
           /\ FailConnection(p)
  <2>1. OutOfRoom(tx'[p]) /\ \A x \in alerts' : x \in alerts \/ x.from = p
    BY <1>2, <1>7, AlertCause
  <2>2. Cause(p)'
    BY <2>1 DEF Cause
  <2>3. QED
    BY <1>3, <1>4, <1>7, <2>1, <2>2, FailFrame DEF FailingStep
<1>8. QED
  BY <1>5, <1>6, <1>7

LEMMA MoveFails ==
    ASSUME TypeOK, NEW p \in Peer, Moves(p)
    PROVE  FailingStep(p)
<1>1. ASSUME \/ \E request \in BOOLEAN :
                  SendKeyUpdate(p, request) \/ SendKeyUpdateWriteError(p, request)
             \/ RequestKeyUpdateAfterAuthFailures(p)
             \/ WriteDatagram(p) \/ WriteDatagramWriteError(p)
             \/ WriteDatagramUpdateWriteError(p)
             \/ TimerStops(p) \/ TimerRetransmits(p)
      PROVE  FailingStep(p)
  BY <1>1, SendersFail DEF SendKeyUpdate, RequestKeyUpdateAfterAuthFailures
<1>2. ASSUME RequestKeyUpdateFails(p) PROVE FailingStep(p)
  BY <1>2, RequestFails
<1>3. ASSUME TimerFails(p) PROVE FailingStep(p)
  BY <1>3, TimerFailsFails
<1>4. ASSUME NEW m \in updates, ReceiveKeyUpdate(p, m) \/ ReceiveKeyUpdateCannotAck(p, m)
      PROVE  FailingStep(p)
  BY <1>4, TimerFailsFails, ReceiveKeyUpdateFails
<1>5. ASSUME NEW a \in acks, ReceiveACK(p, a) \/ RejectACK(p, a)
      PROVE  FailingStep(p)
  BY <1>5, ReceiveACKFails, RejectFails
<1>6. ASSUME NEW m \in alerts, ReceiveAlert(p, m) PROVE FailingStep(p)
  BY <1>6, ReceiveAlertFails
<1>7. ASSUME TransportError(p) PROVE FailingStep(p)
  BY <1>7, TransportErrorFails
<1>8. QED
  BY <1>1, <1>2, <1>3, <1>4, <1>5, <1>6, <1>7 DEF Moves, TimerWakes, ReceiveAny

\* A failed end keeps its reason while the other one moves.
LEMMA ExplainedStays ==
    ASSUME TypeOK, NEW p \in Peer, PeerStep(p), FailingStep(p),
           NEW q \in Peer, q # p, Explained(q)
    PROVE  Explained(q)'
<1>1. tx'[q] = tx[q] /\ rx'[q] = rx[q]
  <2>1. PICK s, r : tx' = [tx EXCEPT ![p] = s] /\ rx' = [rx EXCEPT ![p] = r]
    BY DEF PeerStep
  <2>2. QED
    BY <2>1 DEF TypeOK
<1>2. status'[q] = status[q] /\ writeErrors' >= writeErrors /\ acks \subseteq acks'
  BY DEF FailingStep
<1>3. ~Open(q)'
  BY <1>2 DEF Explained, Open
<1>4. CASE writeErrors > 0
  <2>1. writeErrors' > 0
    <3>1. writeErrors' \in Nat
      BY DEF PeerStep, NetworkOK
    <3>2. QED
      BY <1>2, <1>4, <3>1, SMTT(30) DEF TypeOK
  <2>2. QED
    BY <1>3, <2>1 DEF Explained, Cause
<1>5. CASE RefusedACK(q)
  <2>1. RefusedACK(q)'
    BY <1>1, <1>2, <1>5 DEF RefusedACK
  <2>2. QED
    BY <1>3, <2>1 DEF Explained, Cause
<1>6. CASE OutOfRoom(tx[q])
  BY <1>1, <1>3, <1>6 DEF Explained, Cause
<1>7. QED
  BY <1>4, <1>5, <1>6 DEF Explained, Cause

LEMMA FailMove ==
    ASSUME TypeOK, FailInv, NEW p \in Peer, PeerStep(p), FailingStep(p)
    PROVE  FailInv'
<1>1. PICK o \in Peer : o = Other(p) /\ o # p /\ Other(o) = p /\ \A q \in Peer : q = p \/ q = o
  BY OtherPeer DEF Peer
<1>2. Open(p) /\ status'[o] = status[o]
  BY <1>1 DEF FailingStep
<1>3. ~Open(o) => Explained(o)
  BY <1>1, <1>2 DEF FailInv, Explained
<1>4. ~Open(o)' => Explained(o)'
  BY <1>1, <1>2, <1>3, ExplainedStays DEF Open
<1>5. CASE status'[p] = "open" /\ alerts' = alerts
  <2>1. Open(p)'
    BY <1>5 DEF Open
  <2>2. \A m \in alerts' : ~Open(m.from)'
    <3>1. SUFFICES ASSUME NEW m \in alerts PROVE ~Open(m.from)'
      BY <1>5
    <3>2. m.from \in Peer /\ ~Open(m.from)
      BY DEF FailInv, TypeOK
    <3>3. m.from = o
      BY <1>1, <1>2, <3>2
    <3>4. QED
      BY <1>2, <3>2, <3>3 DEF Open
  <2>3. QED
    BY <1>1, <1>4, <2>1, <2>2 DEF FailInv
<1>6. CASE /\ status'[p] = "failed"
           /\ \A m \in alerts' : m \in alerts \/ m.from = p
           /\ Cause(p)' \/ \E m \in alerts : m.from = Other(p)
  <2>1. ~Open(p)'
    BY <1>6 DEF Open
  <2>2. ASSUME NEW m \in alerts' PROVE ~Open(m.from)'
    <3>1. CASE m.from = p
      BY <2>1, <3>1
    <3>2. CASE m \in alerts
      <4>1. m.from \in Peer /\ ~Open(m.from)
        BY <3>2 DEF FailInv, TypeOK
      <4>2. m.from = o
        BY <1>1, <1>2, <4>1
      <4>3. QED
        BY <1>2, <4>1, <4>2 DEF Open
    <3>3. QED
      BY <1>6, <3>1, <3>2
  <2>3. Explained(p)' \/ Explained(o)'
    <3>1. CASE Cause(p)'
      BY <2>1, <3>1 DEF Explained
    <3>2. CASE \E m \in alerts : m.from = Other(p)
      <4>1. ~Open(o)
        BY <1>1, <3>2 DEF FailInv
      <4>2. QED
        BY <1>1, <1>3, <4>1, ExplainedStays
    <3>3. QED
      BY <1>6, <3>1, <3>2
  <2>4. QED
    BY <1>1, <2>2, <2>3 DEF FailInv
<1>7. QED
  BY <1>5, <1>6 DEF FailingStep

\* The network loses no ACK that an end has opened.
LEMMA FailLose ==
    ASSUME TypeOK, FailInv, Lose
    PROVE  FailInv'
<1>1. tx' = tx /\ rx' = rx /\ status' = status /\ alerts' = alerts /\ writeErrors' = writeErrors
  BY DEF Lose
<1>2. ASSUME NEW p \in Peer, RefusedACK(p) PROVE RefusedACK(p)'
  <2>1. PICK a \in acks : /\ a.from = Other(p)
                          /\ a.epoch < a.number.epoch
                          /\ Number(a.epoch, a.sequence) \in rx[p].opened
    BY <1>2 DEF RefusedACK
  <2>2. ~Undelivered(a)
    BY <2>1, OtherPeer DEF Undelivered, Opens
  <2>3. a \in acks'
    BY <2>1, <2>2 DEF Lose
  <2>4. QED
    BY <1>1, <2>1, <2>3 DEF RefusedACK
<1>3. ASSUME NEW p \in Peer, Explained(p) PROVE Explained(p)'
  BY <1>1, <1>2, <1>3 DEF Explained, Cause, Open
<1>4. QED
  BY <1>1, <1>3, OtherPeer DEF FailInv, Open

LEMMA FailStep ==
    ASSUME TypeOK, FailInv, [Next]_vars
    PROVE  FailInv'
<1>1. CASE UNCHANGED vars
  BY <1>1 DEF vars, FailInv, Explained, Cause, RefusedACK, Open
<1>2. CASE Lose
  BY <1>2, FailLose
<1>3. ASSUME NEW p \in Peer, Moves(p) PROVE FailInv'
  BY <1>3, MoveStep, MoveFails, FailMove
<1>4. QED
  BY <1>1, <1>2, <1>3, NextMoves

LEMMA FailInit == Init => FailInv
  BY DEF Init, FailInv, Open

\* An association ends only for a reason (failConnection).
THEOREM FailuresAreExplained == Spec => []FailuresExplained
<1>1. TypeOK /\ FailInv /\ [Next]_vars => FailInv'
  BY FailStep
<1>2. FailInv => FailuresExplained
  <2>1. SUFFICES ASSUME FailInv, NEW p \in Peer, Explained(p)
                 PROVE  FailuresExplained
    BY OtherPeer DEF FailInv, FailuresExplained
  <2>2. QED
    BY <2>1 DEF FailuresExplained, Explained, Cause, RefusedACK, OutOfRoom
<1>3. QED
  BY <1>1, <1>2, FailInit, TypeCorrect, PTL DEF Spec

=============================================================================
