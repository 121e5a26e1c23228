---------------------------- MODULE MCBroadcaster ----------------------------
(* Broadcaster with the symmetry of session ids and clients, sound for the   *)
(* runs that check safety only.                                              *)
EXTENDS Broadcaster

Smooth == smooth

Symmetry == Permutations(Sids) \cup Permutations(Clients)
=============================================================================
