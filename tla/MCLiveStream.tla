---------------------------- MODULE MCLiveStream ----------------------------
(* Instance of LiveStream for TLC.                                         *)
EXTENDS LiveStream

StreamSymmetry == Permutations(Sockets) \cup Permutations(Casts)
=============================================================================
