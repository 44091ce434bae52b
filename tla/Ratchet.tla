------------------------------- MODULE Ratchet -------------------------------
(***************************************************************************)
(* What the KeyUpdate protocol promises for the traffic keys of each       *)
(* sender: the receiver installs the next epoch first, the sender switches *)
(* to it afterwards, and neither ever skips one.                           *)
(***************************************************************************)
EXTENDS Naturals

CONSTANTS Sender, First

VARIABLES
    send,   \* the epoch each sender seals with
    recv    \* the newest epoch its receiver has keys for

Init ==
    /\ send = [p \in Sender |-> First]
    /\ recv = [p \in Sender |-> First]

Install(p) ==
    /\ recv[p] = send[p]
    /\ recv' = [recv EXCEPT ![p] = @ + 1]
    /\ UNCHANGED send

Switch(p) ==
    /\ recv[p] = send[p] + 1
    /\ send' = [send EXCEPT ![p] = @ + 1]
    /\ UNCHANGED recv

Next == \E p \in Sender : Install(p) \/ Switch(p)

Spec == Init /\ [][Next]_<<send, recv>>
=============================================================================
