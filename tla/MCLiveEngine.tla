---------------------------- MODULE MCLiveEngine ----------------------------
(* Instances of LiveEngine: records and sockets are interchangeable.       *)
EXTENDS LiveEngine, TLC

Identities == Permutations(Items) \cup Permutations(Recs) \cup Permutations(Socks)
=============================================================================
