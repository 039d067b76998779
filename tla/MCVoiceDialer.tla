--------------------------- MODULE MCVoiceDialer ---------------------------
(* Small instances of VoiceDialer for TLC. *)
EXTENDS VoiceDialer, TLC

CONSTANTS a1, a2, l1, l2, c1, c2, h1, h2

Symmetry == Permutations({c1, c2}) \cup Permutations({h1, h2}) \cup Permutations({a1, a2}) \cup Permutations({l1, l2})
=============================================================================
