---------------------------- MODULE MCKeyUpdate ----------------------------
(* KeyUpdate on small instances. *)
EXTENDS KeyUpdate, TLC

\* The two ends run the same code, so swapping them is a symmetry.
PeerSymmetry == Permutations(Peer)

\* SendKeyUpdate is only called without update_requested.
NoneRequested == \A m \in updates : ~m.request
=============================================================================
