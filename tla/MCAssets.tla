----------------------------- MODULE MCAssets -----------------------------
(* Small instances of Assets for TLC. *)
EXTENDS Assets, TLC

Symmetric == Permutations(Covers) \cup Permutations(Logos)
              \cup Permutations(Favicons) \cup Permutations(Reqs)
===========================================================================
