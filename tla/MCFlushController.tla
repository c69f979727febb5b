------------------------- MODULE MCFlushController -------------------------
(* Instances of FlushController for TLC.                                   *)
EXTENDS FlushController, TLC

Symmetric == Permutations(Clients) \cup Permutations(Workers)
=============================================================================
